-------------------------- MODULE MCLinuxController --------------------------
(* LinuxController for TLC: small numbers of devices and addresses are     *)
(* given by the configurations.                                            *)
EXTENDS LinuxController
=============================================================================
