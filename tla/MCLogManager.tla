----------------------------- MODULE MCLogManager -----------------------------
(* A small instance of LogManager for TLC: a log of two lines. *)
EXTENDS LogManager

MCThreads == {"server", "poller"}
=============================================================================
