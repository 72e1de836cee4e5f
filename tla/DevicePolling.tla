---------------------------- MODULE DevicePolling ----------------------------
(***************************************************************************)
(* modbusPollingThread of src/opcua_server.c: it polls a Modbus slave and  *)
(* lets the OPC UA nodes of a device, and their IPv6 addresses on the      *)
(* network interface, come and go with the status the slave reports for    *)
(* the device.                                                             *)
(*                                                                         *)
(* Item <<d, 0>> is device d, item <<d, j>> its j-th variable.  A node id  *)
(* is the address it is made from (ipv6ToGuidChecked is injective), 0      *)
(* being the address written into addDeviceNodes.  Of the address manager  *)
(* (module Ipv6Manager) only what the poller sees is kept: an allocation   *)
(* gives the next address, fails at the interface and uses one up all the  *)
(* same, or finds the pool exhausted.  Of the slave, the status of each    *)
(* device is kept and not the other values.                                *)
(***************************************************************************)
EXTENDS Integers

CONSTANTS
    DeviceCount,    \* device_count
    VarCount,       \* variable_count of each device
    BlockCount,     \* block_count of the read plan
    StatusBlock,    \* the block that holds a device's status; 0 if none does
    Capacity,       \* pool addresses left for devices and variables
    None, Wild      \* UA_NODEID_NULL; what a variable never assigned holds

Devices == 1..DeviceCount
Blocks == 1..BlockCount

ASSUME DeviceAssumption ==
    /\ DeviceCount \in Nat
    /\ BlockCount \in Nat
    /\ VarCount \in [Devices -> Nat]
    /\ StatusBlock \in [Devices -> 0..BlockCount]
    /\ Capacity \in Nat

Item(d) == {<<d, j>> : j \in 0..VarCount[d]}
Items == UNION {Item(d) : d \in Devices}
Device(d) == <<d, 0>>

Default == 0
Addrs == 1..Capacity
NodeIds == {Default} \cup Addrs
ASSUME NullAssumption == None \notin NodeIds /\ Wild \notin NodeIds /\ None # Wild

VARIABLES
    slave,      \* the slave: not reachable, answering everything, or not all
    reported,   \* the status register of each device, at the slave
    running,    \* the flag stopHandler and opcua_server_stop clear
    pc,         \* where the polling thread is
    next,       \* the block or the device it is at
    item,       \* the variable it is at, within the device
    connected,  \* connected
    cached,     \* the value of each device's status variable
    address,    \* ipv6_address of each item
    node,       \* node_id of each item
    server,     \* the ids of the nodes the OPC UA server has
    nic,        \* the pool addresses on the interface
    counter,    \* pool addresses used up
    \* history
    fresh,      \* devices whose status was read in the current cycle
    failed      \* addresses whose last addition or removal failed

slaveVars == <<slave, reported>>
itemVars  == <<address, node, server, nic, counter, failed>>
vars == <<slave, reported, running, pc, next, item, connected, cached,
          address, node, server, nic, counter, fresh, failed>>

TypeOK ==
    /\ slave \in {"down", "faulty", "up"}
    /\ reported \in [Devices -> {"online", "offline"}]
    /\ running \in BOOLEAN
    /\ pc \in {"top", "wait", "read", "update", "manage", "add", "delete",
               "sleep", "done"}
    /\ next \in 0..(1 + IF BlockCount > DeviceCount THEN BlockCount ELSE DeviceCount)
    /\ item \in Nat
    /\ connected \in BOOLEAN
    /\ cached \in [Devices -> {"online", "offline"}]
    /\ address \in [Items -> Addrs \cup {None}]
    /\ node \in [Items -> NodeIds \cup {None, Wild}]
    /\ server \subseteq NodeIds
    /\ nic \subseteq Addrs
    /\ counter \in 0..Capacity
    /\ fresh \subseteq Devices
    /\ failed \subseteq Addrs

-----------------------------------------------------------------------------
(* createDeviceNodes has set every value to zero, which reads as online.   *)
(* The controller's own nodes may hold the id Default.                     *)
Init ==
    /\ slave \in {"down", "up"}
    /\ reported \in [Devices -> {"online", "offline"}]
    /\ running = TRUE
    /\ pc = "top" /\ next = 0 /\ item = 0
    /\ connected = FALSE
    /\ cached = [d \in Devices |-> "online"]
    /\ address = [i \in Items |-> None]
    /\ node = [i \in Items |-> None]
    /\ server \in {{}, {Default}}
    /\ nic = {} /\ counter = 0
    /\ fresh = {} /\ failed = {}

(* The slave and the devices behind it change as they like. *)
SlaveChanges ==
    /\ slave' \in {"down", "faulty", "up"} \ {slave}
    /\ UNCHANGED <<reported, running, pc, next, item, connected, cached,
                   itemVars, fresh>>

DeviceChanges(d) ==
    /\ reported' = [reported EXCEPT ![d] = IF @ = "online" THEN "offline"
                                                           ELSE "online"]
    /\ UNCHANGED <<slave, running, pc, next, item, connected, cached, itemVars,
                   fresh>>

Stop ==
    /\ running
    /\ running' = FALSE
    /\ UNCHANGED <<slaveVars, pc, next, item, connected, cached, itemVars,
                   fresh>>

-----------------------------------------------------------------------------
(* The head of the loop: leave it, go on reading, or connect first.        *)
LeaveLoop ==
    /\ pc = "top" /\ ~running
    /\ pc' = "done"
    /\ connected' = FALSE
    /\ UNCHANGED <<slaveVars, running, next, item, cached, itemVars, fresh>>

StartReading ==
    /\ pc' = "read" /\ next' = 1 /\ fresh' = {}
    /\ UNCHANGED <<slaveVars, running, item, cached, itemVars>>

AlreadyConnected ==
    /\ pc = "top" /\ running
    /\ connected
    /\ StartReading
    /\ UNCHANGED <<connected>>

Connect ==
    /\ pc = "top" /\ running
    /\ ~connected
    /\ slave # "down"
    /\ connected' = TRUE
    /\ StartReading

ConnectFailsForever ==        \* mutant: retries whether or not it is to stop
    /\ pc = "top"
    /\ ~connected
    /\ slave = "down"
    /\ pc' = "wait"
    /\ UNCHANGED <<slaveVars, running, next, item, connected, cached, itemVars,
                   fresh>>

ConnectFails ==
    /\ pc = "top" /\ running
    /\ ~connected
    /\ slave = "down"
    /\ pc' = "wait"
    /\ UNCHANGED <<slaveVars, running, next, item, connected, cached, itemVars,
                   fresh>>

WaitReconnect ==
    /\ pc = "wait"
    /\ pc' = "top"
    /\ UNCHANGED <<slaveVars, running, next, item, connected, cached, itemVars,
                   fresh>>

-----------------------------------------------------------------------------
(* read_modbus_block, one block of the plan after the other. *)
ReadBlock ==
    /\ pc = "read" /\ running /\ next \in Blocks
    /\ slave # "down"
    /\ LET here == {d \in Devices : StatusBlock[d] = next} IN
        /\ cached' = [d \in Devices |-> IF d \in here THEN reported[d] ELSE cached[d]]
        /\ fresh' = fresh \cup here
    /\ next' = next + 1
    /\ UNCHANGED <<slaveVars, running, pc, item, connected, itemVars>>

ReadFailsGoesOn ==            \* mutant: goes on with what it has
    /\ pc = "read" /\ running /\ next \in Blocks
    /\ slave # "up"
    /\ connected' = FALSE
    /\ pc' = "update" /\ next' = 0
    /\ UNCHANGED <<slaveVars, running, item, cached, itemVars, fresh>>

ReadFails ==
    /\ pc = "read" /\ running /\ next \in Blocks
    /\ slave # "up"
    /\ connected' = FALSE
    /\ pc' = "top" /\ next' = 0
    /\ UNCHANGED <<slaveVars, running, item, cached, itemVars, fresh>>

(* All blocks are read, or the program is stopping: the values read so far *)
(* go to the nodes that exist (updateOPCUAVariables).                      *)
EndReading ==
    /\ pc = "read"
    /\ next \notin Blocks \/ ~running
    /\ pc' = "update" /\ next' = 0
    /\ UNCHANGED <<slaveVars, running, item, connected, cached, itemVars,
                   fresh>>

Update ==
    /\ pc = "update"
    /\ pc' = "manage" /\ next' = 1
    /\ UNCHANGED <<slaveVars, running, item, connected, cached, itemVars,
                   fresh>>

-----------------------------------------------------------------------------
(* The devices, one after the other. *)
Online(d) == StatusBlock[d] # 0 /\ cached[d] = "online"

NextDevice ==
    /\ pc' = "manage" /\ next' = next + 1 /\ item' = 0
    /\ UNCHANGED <<slaveVars, running, connected, cached, fresh>>

KeepDeviceSeen ==             \* mutant: leaves a device alone once it has an address
    /\ pc = "manage" /\ next \in Devices
    /\ \/ Online(next) <=> node[Device(next)] # None
       \/ address[Device(next)] # None
    /\ NextDevice
    /\ UNCHANGED itemVars

KeepDevice ==
    /\ pc = "manage" /\ next \in Devices
    /\ Online(next) <=> node[Device(next)] # None
    /\ NextDevice
    /\ UNCHANGED itemVars

EndManaging ==
    /\ pc = "manage" /\ next \notin Devices
    /\ pc' = "sleep" /\ next' = 0
    /\ UNCHANGED <<slaveVars, running, item, connected, cached, itemVars,
                   fresh>>

Sleep ==
    /\ pc = "sleep"
    /\ pc' = "top"
    /\ fresh' = {}
    /\ UNCHANGED <<slaveVars, running, next, item, connected, cached, itemVars>>

(* createObjectNode and createVariableNode: when the server has a node of  *)
(* that id already, what they return was never assigned.                   *)
CreateNode(i, id) ==
    IF id \in server
    THEN /\ \E h \in {None, Wild} : node' = [node EXCEPT ![i] = h]
         /\ UNCHANGED server
    ELSE /\ node' = [node EXCEPT ![i] = id]
         /\ server' = server \cup {id}

(* ipv6_add_address_to_interface and ipv6_remove_address_from_interface.   *)
AddToInterface(a) ==
    \/ nic' = nic \cup {a} /\ failed' = failed \ {a}
    \/ nic' = nic          /\ failed' = failed \cup {a}

RemoveFromInterface(a) ==
    \/ nic' = nic \ {a} /\ failed' = failed \ {a}
    \/ a \in nic /\ nic' = nic /\ failed' = failed \cup {a}

(* ensurePersistentIPv6OnInterface: the result of the addition is ignored. *)
EnsureOn(i) ==
    /\ address[i] # None
    /\ AddToInterface(address[i])
    /\ UNCHANGED <<address, counter>>

(* ipv6_allocate_address succeeds, and the interface has the address. *)
AllocateTo(i) ==
    /\ address[i] = None
    /\ counter < Capacity
    /\ counter' = counter + 1
    /\ address' = [address EXCEPT ![i] = counter + 1]
    /\ nic' = nic \cup {counter + 1}
    /\ UNCHANGED failed

AddingAnyway(d) ==            \* mutant: adds whichever device has no node
    /\ pc = "manage" /\ next = d
    /\ node[Device(d)] = None

Adding(d) ==
    /\ pc = "manage" /\ next = d
    /\ Online(d) /\ node[Device(d)] = None

(* The device gets its node; its variables follow one by one. *)
AddDevice(d) ==
    /\ Adding(d)
    /\ EnsureOn(Device(d)) \/ AllocateTo(Device(d))
    /\ CreateNode(Device(d), address'[Device(d)])
    /\ pc' = "add" /\ item' = 1
    /\ UNCHANGED <<slaveVars, running, next, connected, cached, fresh>>

(* The pool is exhausted, or the interface refuses the address; in the     *)
(* latter case its text stays with the device, which uses it next time.    *)
AddDeviceFails(d) ==
    /\ Adding(d)
    /\ address[Device(d)] = None
    /\ IF counter = Capacity
       THEN UNCHANGED <<address, counter, failed>>
       ELSE /\ counter' = counter + 1
            /\ address' = [address EXCEPT ![Device(d)] = counter + 1]
            /\ failed' = failed \cup {counter + 1}
    /\ NextDevice
    /\ UNCHANGED <<node, server, nic>>

AddVariableAtDefault(d) ==    \* mutant: not at an address the interface refuses
    /\ pc = "add" /\ next = d /\ item <= VarCount[d]
    /\ LET i == <<d, item>> IN
        \/ /\ EnsureOn(i) \/ AllocateTo(i)
           /\ CreateNode(i, IF address'[i] \in nic' THEN address'[i] ELSE Default)
        \/ /\ address[i] = None
           /\ counter' = IF counter < Capacity THEN counter + 1 ELSE counter
           /\ CreateNode(i, Default)
           /\ UNCHANGED <<address, nic, failed>>
    /\ item' = item + 1
    /\ UNCHANGED <<slaveVars, running, pc, next, connected, cached, fresh>>

(* A variable without an address gets a node all the same, at Default. *)
AddVariable(d) ==
    /\ pc = "add" /\ next = d /\ item <= VarCount[d]
    /\ LET i == <<d, item>> IN
        \/ /\ EnsureOn(i) \/ AllocateTo(i)
           /\ CreateNode(i, address'[i])
        \/ /\ address[i] = None
           /\ counter' = IF counter < Capacity THEN counter + 1 ELSE counter
           /\ CreateNode(i, Default)
           /\ UNCHANGED <<address, nic, failed>>
    /\ item' = item + 1
    /\ UNCHANGED <<slaveVars, running, pc, next, connected, cached, fresh>>

EndAdding(d) ==
    /\ pc = "add" /\ next = d /\ item > VarCount[d]
    /\ NextDevice
    /\ UNCHANGED itemVars

(* removePersistentIPv6FromInterface, then deleteDeviceNodes. *)
DeleteDevice(d) ==
    /\ pc = "manage" /\ next = d
    /\ ~Online(d) /\ node[Device(d)] # None
    /\ RemoveFromInterface(address[Device(d)])
    /\ pc' = "delete" /\ item' = 1
    /\ UNCHANGED <<slaveVars, running, next, connected, cached, address, node,
                   server, counter, fresh>>

DeleteVariableKeepsAddress(d) ==   \* mutant: leaves the interface alone
    /\ pc = "delete" /\ next = d /\ item <= VarCount[d]
    /\ LET i == <<d, item>> IN
        /\ node' = [node EXCEPT ![i] = None]
        /\ server' = server \ {node[i]}
    /\ item' = item + 1
    /\ UNCHANGED <<slaveVars, running, pc, next, connected, cached, address,
                   nic, counter, fresh, failed>>

DeleteVariableKeepsNode(d) ==   \* mutant: resets the handle alone
    /\ pc = "delete" /\ next = d /\ item <= VarCount[d]
    /\ LET i == <<d, item>> IN
        /\ node' = [node EXCEPT ![i] = None]
        /\ server' = server
        /\ IF address[i] # None THEN RemoveFromInterface(address[i])
                                ELSE UNCHANGED <<nic, failed>>
    /\ item' = item + 1
    /\ UNCHANGED <<slaveVars, running, pc, next, connected, cached, address,
                   counter, fresh>>

DeleteVariable(d) ==
    /\ pc = "delete" /\ next = d /\ item <= VarCount[d]
    /\ LET i == <<d, item>> IN
        /\ node' = [node EXCEPT ![i] = None]
        /\ server' = server \ {node[i]}
        /\ IF address[i] # None THEN RemoveFromInterface(address[i])
                                ELSE UNCHANGED <<nic, failed>>
    /\ item' = item + 1
    /\ UNCHANGED <<slaveVars, running, pc, next, connected, cached, address,
                   counter, fresh>>

EndDeleting(d) ==
    /\ pc = "delete" /\ next = d /\ item > VarCount[d]
    /\ node' = [node EXCEPT ![Device(d)] = None]
    /\ server' = server \ {node[Device(d)]}
    /\ NextDevice
    /\ UNCHANGED <<address, nic, counter, failed>>

-----------------------------------------------------------------------------
ReadStep ==
    \/ LeaveLoop \/ AlreadyConnected \/ Connect \/ ConnectFails \/ WaitReconnect
    \/ ReadBlock \/ ReadFails \/ EndReading \/ Update

DeviceStep(d) ==
    \/ AddDevice(d) \/ AddDeviceFails(d) \/ AddVariable(d) \/ EndAdding(d)
    \/ DeleteDevice(d) \/ DeleteVariable(d) \/ EndDeleting(d)

Poll ==
    \/ ReadStep
    \/ KeepDevice \/ EndManaging \/ Sleep
    \/ \E d \in Devices : DeviceStep(d)

Environment ==
    \/ SlaveChanges
    \/ \E d \in Devices : DeviceChanges(d)
    \/ Stop

Next == Poll \/ Environment

(* The polling thread keeps running; calls into libraries return.          *)
Spec == Init /\ [][Next]_vars /\ WF_vars(Poll)

-----------------------------------------------------------------------------
Busy(d) == pc \in {"add", "delete"} /\ next = d

(* Between the devices' turns, an item's address is on the interface       *)
(* exactly while its device has a node, unless the interface refused.      *)
InterfaceFollowsNodes ==
    \A d \in Devices : ~Busy(d) =>
        \A i \in Item(d) : address[i] # None =>
            \/ address[i] \in failed
            \/ address[i] \in nic <=> node[Device(d)] # None

(* The handles name the nodes the server has, each its own, and a device   *)
(* without a node has no variables' nodes left behind.                     *)
ServerFollowsHandles ==
    /\ \A i, k \in Items : node[i] \in NodeIds /\ node[i] = node[k] => i = k
    /\ \A i \in Items : node[i] \in NodeIds => node[i] \in server
    /\ \A a \in server \cap Addrs : \E i \in Items : node[i] = a /\ address[i] = a
    /\ \A d \in Devices : ~Busy(d) /\ node[Device(d)] = None =>
           \A i \in Item(d) : node[i] = None

(* A device that is there has its own node and those of its variables each *)
(* at the address of the item, however it has come and gone before and     *)
(* whatever the interface has refused; only a variable that has no address *)
(* may be at another place, or nowhere.                                    *)
NodesAtAddresses ==
    \A d \in Devices : ~Busy(d) /\ node[Device(d)] # None =>
        \A i \in Item(d) : address[i] # None => node[i] = address[i]

(* A device comes or goes only on a status read in the same cycle; a cycle *)
(* cut short by a failed read changes nothing.                             *)
StatusActsFresh ==
    [][\A d \in Devices : node'[Device(d)] # node[Device(d)] =>
           d \in fresh \/ ~running]_vars

(* An address once an item's own stays so while devices come and go.       *)
AddressKept ==
    [][\A i \in Items : address[i] # None => address'[i] = address[i]]_vars

(* To the clients a device comes and goes as a whole: DevicePresence, with *)
(* a device present from when its last variable has been added, and absent *)
(* from the beginning of its deletion.                                     *)
Present == {d \in Devices : node[Device(d)] # None /\ ~Busy(d)}
Told == [d \in Devices |-> IF d \in fresh THEN cached[d] ELSE "unknown"]
Whole == [i \in Items |-> IF i[1] \in Present /\ node[i] \in server THEN node[i] ELSE None]
Presence == INSTANCE DevicePresence WITH
    Parts <- [d \in Devices |-> Item(d)],
    told <- Told, stopping <- ~running, home <- address, nodes <- Whole
Presents == Presence!PresenceSpec

(* With the slave answering and the program running, a device that stays   *)
(* offline loses its node for good, and one that stays online gets one     *)
(* unless the pool has run out before it had an address.                   *)
Steady(d, s) == slave = "up" /\ running /\ reported[d] = s

StatusPrevails ==
    \A d \in Devices : StatusBlock[d] # 0 =>
        /\ <>[]Steady(d, "offline") => <>[](node[Device(d)] = None)
        /\ <>[]Steady(d, "online") =>
               <>[](\/ node[Device(d)] # None
                    \/ address[Device(d)] = None /\ counter = Capacity)

(* The thread ends once it is told to, whatever the slave does. *)
StopEnds == ~running ~> pc = "done"

-----------------------------------------------------------------------------
(* What the design document says of it. *)

(* "OPC UA 节点仍可使用默认地址创建": a variable whose address could not be *)
(* added has a node all the same.                                          *)
EveryVariableHasNode ==
    \A d \in Devices : ~Busy(d) /\ node[Device(d)] # None =>
        \A i \in Item(d) : node[i] \in NodeIds
=============================================================================
