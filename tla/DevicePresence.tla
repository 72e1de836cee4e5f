--------------------------- MODULE DevicePresence ---------------------------
(***************************************************************************)
(* What modbusPollingThread of src/opcua_server.c promises: a device has   *)
(* all of its nodes in the OPC UA server or none; it comes and goes as a   *)
(* whole, when its status says so; its nodes are at the addresses of the   *)
(* items, which an item gets once and for good, and they stay until the    *)
(* device goes.  Only an item without an address may be at the default one,*)
(* one at a time, or have no node.                                         *)
(***************************************************************************)
CONSTANTS
    Devices,
    Parts,          \* the items of each device: itself and its variables
    Addrs,          \* the addresses of the pool
    Default,        \* the one of addDeviceNodes, for items without
    None            \* no address

Items == UNION {Parts[d] : d \in Devices}

VARIABLES
    told,           \* what the slave has said of each device in this cycle
    stopping,       \* the program is to stop: a cycle may be cut short
    home,           \* the address of each item
    nodes           \* where the node of each item is

presenceVars == <<told, stopping, home, nodes>>

PresenceInit ==
    /\ told = [d \in Devices |-> "unknown"] /\ stopping = FALSE
    /\ home = [i \in Items |-> None]
    /\ nodes = [i \in Items |-> None]

There(d) == \E i \in Parts[d] : nodes[i] # None
MayMove(d, status) == told[d] = status \/ stopping

(* Statuses are read, and forgotten at the end of the cycle. *)
Hear ==
    /\ told' \in [Devices -> {"unknown", "online", "offline"}]
    /\ stopping' \in {stopping, TRUE}
    /\ UNCHANGED <<home, nodes>>

(* An item gets an address, which has been nobody's. *)
Settle(i, a) ==
    /\ home[i] = None
    /\ \A k \in Items : home[k] # a
    /\ home' = [home EXCEPT ![i] = a]
    /\ UNCHANGED <<told, stopping, nodes>>

Come(d) ==
    /\ MayMove(d, "online") /\ ~There(d)
    /\ nodes' \in [Items -> Addrs \cup {Default, None}]
    /\ \A i \in Items \ Parts[d] : nodes'[i] = nodes[i]
    /\ \A i \in Parts[d] :
          nodes'[i] \in IF home[i] # None THEN {home[i]} ELSE {Default, None}
    /\ \A i, k \in Items : nodes'[i] # None /\ nodes'[i] = nodes'[k] => i = k
    /\ There(d)'
    /\ UNCHANGED <<told, stopping, home>>

Go(d) ==
    /\ MayMove(d, "offline") /\ There(d)
    /\ nodes' = [i \in Items |-> IF i \in Parts[d] THEN None ELSE nodes[i]]
    /\ UNCHANGED <<told, stopping, home>>

PresenceNext ==
    \/ Hear
    \/ \E i \in Items, a \in Addrs : Settle(i, a)
    \/ \E d \in Devices : Come(d) \/ Go(d)

PresenceSpec == PresenceInit /\ [][PresenceNext]_presenceVars
=============================================================================
