-------------------------- MODULE AddressDispenser --------------------------
(***************************************************************************)
(* What the address pool of ipv6_manager.c promises its callers: within    *)
(* one run of the program every successful request receives an address of  *)
(* the pool that no request of this run has received before.  A holder may *)
(* give an address up; it is not dispensed again until the program is      *)
(* restarted.                                                              *)
(***************************************************************************)
CONSTANTS Pool,      \* the addresses start_addr..end_addr
          Holders    \* whoever may ask for an address

VARIABLES used,      \* addresses dispensed since the program started
          given      \* who holds what: a set of [addr, holder] records

dispenserVars == <<used, given>>

DispenserInit == used = {} /\ given = {}

Give(a, h) ==
    /\ a \in Pool \ used
    /\ used' = used \cup {a}
    /\ given' = given \cup {[addr |-> a, holder |-> h]}

GiveUp ==
    /\ given' \subseteq given
    /\ used' = used

Restart == used' = {} /\ given' = {}

DispenserNext ==
    \/ \E a \in Pool, h \in Holders : Give(a, h)
    \/ GiveUp
    \/ Restart

DispenserSpec == DispenserInit /\ [][DispenserNext]_dispenserVars

-----------------------------------------------------------------------------
(* Nobody shares an address, and what is held has been dispensed.          *)
Exclusive ==
    /\ \A g, h \in given : g.addr = h.addr => g = h
    /\ \A g \in given : g.addr \in used
=============================================================================
