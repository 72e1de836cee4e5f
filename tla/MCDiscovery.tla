----------------------------- MODULE MCDiscovery -----------------------------
(* Discovery with a client and a signal that stops the controller. *)
EXTENDS Discovery

MCSignals == {"SIGINT"}
MCClients == {"tool"}
=============================================================================
