--------------------------- MODULE LinuxController ---------------------------
(***************************************************************************)
(* The controller for Linux (linux_func/src), a variant of its own: main   *)
(* with main_loop (ipv6_server.cpp, main_loop.cpp), the detached thread of *)
(* opcua_server_main with the polling and the printing thread it starts    *)
(* (opcua_server.c), and the address pool main and the poller share        *)
(* (ipv6_manager.c).  Signals, kills and new starts of the process are     *)
(* among the steps; the interface keeps its addresses over them.           *)
(*                                                                         *)
(* A device has an address and a node and one variable with an address,    *)
(* and its status is what the slave answers in a cycle.  Addresses are     *)
(* positions in the pool.  The names in the device map are left out, for   *)
(* they are only printed; its lock is not.                                 *)
(***************************************************************************)
EXTENDS Integers, FiniteSets, FiniteSetsExt

CONSTANTS
    DeviceCount,    \* devices in uploadtable.csv
    Last,           \* end_addr, as a position; start_addr is 0
    None,           \* an empty address
    Garbage         \* an ipv6_address that malloc has left as it was

ASSUME CountAssumption == DeviceCount \in Nat /\ Last \in Nat
ASSUME MarkAssumption == None \notin Nat /\ Garbage \notin Nat /\ None # Garbage

Pool == 0..Last
Devices == 1..DeviceCount
Controller == <<0, "address">>
Address(d) == <<d, "address">>
Variable(d) == <<d, "variable">>
Owners == {Controller} \cup {Address(d) : d \in Devices} \cup {Variable(d) : d \in Devices}

VARIABLES
    main, ua, poll, print,      \* where main, opcua_server_main, the poller
                                \* and the printing thread are
    handler,        \* whose handler signals reach
    gRunning,       \* g_running, for main_loop
    running,        \* running, for the OPC UA and the polling thread
    ready,          \* g_ipv6_pool has its start and end
    counter,        \* next_addr_counter
    allocated,      \* allocated_addrs
    alloc,          \* per thread: the call of ipv6_allocate_address it is in
    mapLock,        \* g_device_ipv6_map_lock
    nic,            \* pool addresses the interface has
    hold,           \* the ipv6_address of each owner
    node,           \* whose node_id is not null
    connected, cur, online,     \* the poller's cycle
    refused         \* history: addresses whose last `ip addr` command failed,
                    \* and mattered

threads == <<main, ua, poll, print>>
flags == <<handler, gRunning, running>>
pool == <<ready, counter, allocated>>
interface == <<nic, refused>>
cycle == <<connected, cur, online>>
vars == <<threads, flags, pool, alloc, mapLock, interface, hold, node, cycle>>

Callers == {"main", "poll"}
Idle == [for |-> Controller, at |-> "none"]
Steps == {"none", "parse", "generate", "add", "map", "ok", "failed"}

TypeOK ==
    /\ main \in {"init", "allocate", "loop", "receive", "release", "unmap",
                 "cleanup", "clear", "return", "exited"}
    /\ ua \in {"none", "new", "setup", "run", "join", "cancel", "done"}
    /\ poll \in {"none", "top", "manage", "device", "node", "variable", "value",
                 "unset", "done"}
    /\ print \in {"none", "sleep", "print"}
    /\ handler \in {"main", "server"}
    /\ gRunning \in BOOLEAN /\ running \in BOOLEAN /\ ready \in BOOLEAN
    /\ counter \in 0..(Last + 1)
    /\ allocated \subseteq Pool
    /\ alloc \in [Callers -> [for : Owners, at : Steps]]
    /\ mapLock \in {"free", "print", "lost"}
    /\ nic \subseteq Pool /\ refused \subseteq Pool
    /\ hold \in [Owners -> Pool \cup {None, Garbage}]
    /\ node \in [Devices -> BOOLEAN]
    /\ connected \in BOOLEAN
    /\ cur \in 1..(DeviceCount + 1) /\ online \subseteq Devices

(* No process. *)
Ended ==
    /\ main = "exited" /\ ua = "none" /\ poll = "none" /\ print = "none"
    /\ handler = "main" /\ gRunning = TRUE /\ running = TRUE
    /\ ready = FALSE /\ counter = 0 /\ allocated = {}
    /\ alloc = [t \in Callers |-> Idle]
    /\ mapLock = "free"
    /\ hold = [o \in Owners |-> None]
    /\ node = [d \in Devices |-> FALSE]
    /\ connected = FALSE /\ cur = 1 /\ online = {}
    /\ refused = {}

(* Pool addresses of an earlier run, or of others, may be there. *)
Init == Ended /\ nic \in SUBSET Pool

Alive == main # "exited"

-----------------------------------------------------------------------------
(* linux_stop_handler, stopHandler.  recvfrom goes on after either. *)
Stop ==
    /\ Alive
    /\ IF handler = "main"
       THEN gRunning' = FALSE /\ UNCHANGED running
       ELSE running' = FALSE /\ UNCHANGED gRunning
    /\ UNCHANGED <<threads, handler, pool, alloc, mapLock, interface, hold, node, cycle>>

(* The process ends, and every thread with it. *)
End ==
    /\ main' = "exited" /\ ua' = "none" /\ poll' = "none" /\ print' = "none"
    /\ handler' = "main" /\ gRunning' = TRUE /\ running' = TRUE
    /\ ready' = FALSE /\ counter' = 0 /\ allocated' = {}
    /\ alloc' = [t \in Callers |-> Idle]
    /\ mapLock' = "free"
    /\ hold' = [o \in Owners |-> None]
    /\ node' = [d \in Devices |-> FALSE]
    /\ connected' = FALSE /\ cur' = 1 /\ online' = {}
    /\ refused' = {} /\ nic' = nic

Kill == Alive /\ End

(* A new process.  The devices' addresses are not initialised. *)
Start ==
    /\ main = "exited" /\ main' = "init"
    /\ hold' \in {h \in [Owners -> {None, Garbage}] :
                    \A o \in Owners : h[o] = Garbage => \E d \in Devices : o = Address(d)}
    /\ UNCHANGED <<ua, poll, print, flags, pool, alloc, mapLock, interface, node, cycle>>

-----------------------------------------------------------------------------
(* ipv6_allocate_address, called by main_loop or by the poller. *)
CallGoes(t, from, to) ==
    Alive /\ alloc[t].at = from /\ alloc' = [alloc EXCEPT ![t] =
        IF to = "none" THEN Idle ELSE [@ EXCEPT !.at = to]]
CallOnly == UNCHANGED <<threads, flags, mapLock, node, cycle>>

(* generate_ipv6_address reads start_addr and end_addr before it locks. *)
ParsePool(t) ==
    /\ CallGoes(t, "parse", IF ready THEN "generate" ELSE "failed")
    /\ CallOnly /\ UNCHANGED <<pool, interface, hold>>

(* The first position from the counter on that is not allocated. *)
Candidate == Min({c \in counter..(Last + 1) : c \notin allocated})

GenerateReuses(t) ==         \* mutant: takes any address that is not allocated
    /\ CallGoes(t, "generate", "add")
    /\ Pool \ allocated # {}
    /\ LET a == Min(Pool \ allocated) IN
        /\ counter' = Max({counter, a + 1})
        /\ allocated' = allocated \cup {a}
        /\ hold' = [hold EXCEPT ![alloc[t].for] = a]
    /\ CallOnly /\ UNCHANGED <<ready, interface>>

Generate(t) ==
    /\ CallGoes(t, "generate", "add")
    /\ Candidate \in Pool
    /\ counter' = Candidate + 1
    /\ allocated' = allocated \cup {Candidate}
    /\ hold' = [hold EXCEPT ![alloc[t].for] = Candidate]
    /\ CallOnly /\ UNCHANGED <<ready, interface>>

Exhausted(t) ==
    /\ CallGoes(t, "generate", "failed")
    /\ Candidate \notin Pool
    /\ CallOnly /\ UNCHANGED <<pool, interface, hold>>

(* ipv6_add_address_to_interface: an address that is there is as good as   *)
(* one added.  The command that looks for it can fail like any other, and  *)
(* then the addition of one that is there is refused.                      *)
Put(a) == nic' = nic \cup {a} /\ refused' = refused \ {a}
PutRefused(a) == nic' = nic /\ refused' = refused \cup {a}

AddAddress(t) ==
    /\ CallGoes(t, "add", "map")
    /\ Put(hold[alloc[t].for])
    /\ CallOnly /\ UNCHANGED <<pool, hold>>

AddTakesBack(t) ==           \* mutant: the position is free again as well
    /\ CallGoes(t, "add", "failed")
    /\ PutRefused(hold[alloc[t].for])
    /\ allocated' = allocated \ {hold[alloc[t].for]}
    /\ counter' = counter - 1
    /\ CallOnly /\ UNCHANGED <<ready, hold>>

(* The address goes back, and stays in the caller's buffer. *)
AddRefused(t) ==
    /\ CallGoes(t, "add", "failed")
    /\ PutRefused(hold[alloc[t].for])
    /\ allocated' = allocated \ {hold[alloc[t].for]}
    /\ CallOnly /\ UNCHANGED <<ready, counter, hold>>

MapAddress(t) ==
    /\ CallGoes(t, "map", "ok")
    /\ mapLock = "free"
    /\ CallOnly /\ UNCHANGED <<pool, interface, hold>>

AllocateStep(t) ==
    \/ ParsePool(t) \/ Generate(t) \/ Exhausted(t) \/ AddAddress(t) \/ AddRefused(t)
    \/ MapAddress(t)

-----------------------------------------------------------------------------
(* main, and main_loop *)
MainGoes(from, to) == main = from /\ main' = to
MainOnly == UNCHANGED <<ua, poll, print, flags, node, cycle>>

(* Configuration, log, pool and socket; the OPC UA thread is started.      *)
Initialise ==
    /\ MainGoes("init", "allocate")
    /\ ready' = TRUE /\ ua' = "new"
    /\ alloc' = [alloc EXCEPT !["main"] = [for |-> Controller, at |-> "parse"]]
    /\ UNCHANGED <<poll, print, flags, counter, allocated, mapLock, interface,
                   hold, node, cycle>>

InitialiseFails ==
    /\ main = "init"
    /\ End

OwnAllocated ==
    /\ MainGoes("allocate", "loop")
    /\ CallGoes("main", "ok", "none")
    /\ MainOnly /\ UNCHANGED <<pool, mapLock, interface, hold>>

OwnNotAllocated ==
    /\ MainGoes("allocate", "cleanup")
    /\ CallGoes("main", "failed", "none")
    /\ MainOnly /\ UNCHANGED <<pool, mapLock, interface, hold>>

LoopTop ==
    /\ main = "loop"
    /\ main' = IF gRunning THEN "receive" ELSE "release"
    /\ MainOnly /\ UNCHANGED <<pool, alloc, mapLock, interface, hold>>

(* recvfrom has no timeout: it takes a packet to return. *)
Packet ==
    /\ MainGoes("receive", "loop")
    /\ MainOnly /\ UNCHANGED <<pool, alloc, mapLock, interface, hold>>

(* ipv6_remove_address_from_interface; the command may fail, and does when *)
(* the address is not there.                                               *)
TakeOff(a) ==
    \/ a \in nic /\ nic' = nic \ {a} /\ refused' = refused \ {a}
    \/ nic' = nic /\ refused' = refused \cup {a}

ReleaseOwn ==
    /\ MainGoes("release", "unmap")
    /\ TakeOff(hold[Controller])
    /\ allocated' = allocated \ {hold[Controller]}
    /\ hold' = [hold EXCEPT ![Controller] = None]
    /\ MainOnly /\ UNCHANGED <<ready, counter, alloc, mapLock>>

UnmapOwn ==
    /\ MainGoes("unmap", "cleanup")
    /\ mapLock = "free"
    /\ MainOnly /\ UNCHANGED <<pool, alloc, mapLock, interface, hold>>

(* ipv6_manager_cleanup: the list, then the map, then all of the pool. *)
FreeList ==
    /\ MainGoes("cleanup", "clear")
    /\ allocated' = {}
    /\ MainOnly /\ UNCHANGED <<ready, counter, alloc, mapLock, interface, hold>>

ClearPool ==
    /\ MainGoes("clear", "return")
    /\ mapLock = "free"
    /\ ready' = FALSE /\ counter' = 0 /\ allocated' = {}
    /\ MainOnly /\ UNCHANGED <<alloc, mapLock, interface, hold>>

Return == main = "return" /\ End

-----------------------------------------------------------------------------
(* opcua_server_main *)
ServerGoes(from, to) == Alive /\ ua = from /\ ua' = to
ServerOnly == UNCHANGED <<main, gRunning, running, pool, alloc, interface, hold, node,
                          cycle>>

TakeSignals ==
    /\ ServerGoes("new", "setup")
    /\ handler' = "server"
    /\ ServerOnly /\ UNCHANGED <<poll, print, mapLock>>

(* The Modbus client may not be initialised, the printing thread not start. *)
StartThreads ==
    /\ ServerGoes("setup", "run")
    /\ poll' \in {"top", "done"} /\ print' \in {"sleep", "none"}
    /\ ServerOnly /\ UNCHANGED <<handler, mapLock>>

SetupFails ==
    /\ ServerGoes("setup", "done")
    /\ ServerOnly /\ UNCHANGED <<poll, print, handler, mapLock>>

(* UA_Server_run ends when running is cleared, or of itself. *)
RunEnds ==
    /\ ServerGoes("run", "join")
    /\ ServerOnly /\ UNCHANGED <<poll, print, handler, mapLock>>

JoinPolling ==
    /\ ServerGoes("join", "cancel")
    /\ poll = "done"
    /\ ServerOnly /\ UNCHANGED <<poll, print, handler, mapLock>>

(* pthread_cancel takes effect where the thread sleeps, or, with debug     *)
(* output on, where it prints, and then it has the map's lock.             *)
CancelPrinting ==
    /\ ServerGoes("cancel", "done")
    /\ print' = "none"
    /\ mapLock' = IF print = "print" THEN "lost" ELSE mapLock
    /\ ServerOnly /\ UNCHANGED <<poll, handler>>

(* printNodeVariablesThread, in ipv6_print_device_mappings *)
PrintOnly == UNCHANGED <<main, ua, poll, flags, pool, alloc, interface, hold, node, cycle>>

PrintMappings ==
    /\ Alive /\ print = "sleep" /\ print' = "print"
    /\ mapLock = "free" /\ mapLock' = "print"
    /\ PrintOnly

EndPrintingLocked ==         \* mutant: returns with the lock
    /\ Alive /\ print = "print" /\ print' = "sleep"
    /\ mapLock' = mapLock
    /\ PrintOnly

EndPrinting ==
    /\ Alive /\ print = "print" /\ print' = "sleep"
    /\ mapLock' = "free"
    /\ PrintOnly

-----------------------------------------------------------------------------
(* modbusPollingThread *)
PollGoes(from, to) == Alive /\ poll = from /\ poll' = to
PollOnly == UNCHANGED <<main, ua, print, flags, pool, mapLock>>

Connect ==
    /\ PollGoes("top", "top")
    /\ running /\ ~connected
    /\ connected' = TRUE
    /\ PollOnly /\ UNCHANGED <<alloc, interface, hold, node, cur, online>>

(* One of the three reads fails: the next turn begins at once. *)
ReadFails ==
    /\ PollGoes("top", "top")
    /\ running /\ connected
    /\ connected' = FALSE
    /\ PollOnly /\ UNCHANGED <<alloc, interface, hold, node, cur, online>>

ReadAll ==
    /\ PollGoes("top", "manage")
    /\ running /\ connected
    /\ online' \in SUBSET Devices
    /\ PollOnly /\ UNCHANGED <<alloc, interface, hold, node, connected, cur>>

PollEnds ==
    /\ PollGoes("top", "done")
    /\ ~running
    /\ PollOnly /\ UNCHANGED <<alloc, interface, hold, node, cycle>>

EndManaging ==
    /\ PollGoes("manage", "top")
    /\ cur > DeviceCount
    /\ cur' = 1 /\ online' = {}
    /\ PollOnly /\ UNCHANGED <<alloc, interface, hold, node, connected>>

(* What becomes of device cur, when it is not what it was. *)
Changed(is) == cur \in Devices /\ (cur \in online) = is /\ node[cur] # is
NextDevice == cur' = cur + 1 /\ UNCHANGED <<connected, online>>

KeepDevice ==
    /\ PollGoes("manage", "manage")
    /\ cur \in Devices /\ (cur \in online) = node[cur]
    /\ NextDevice
    /\ PollOnly /\ UNCHANGED <<alloc, interface, hold, node>>

AllocateFor(o) ==
    /\ hold[o] = None
    /\ alloc' = [alloc EXCEPT !["poll"] = [for |-> o, at |-> "parse"]]
    /\ PollOnly /\ UNCHANGED <<interface, hold, node, cycle>>

(* ensurePersistentIPv6OnInterface, whose outcome nobody looks at: it only  *)
(* matters for an address that is not there.                               *)
Ensure(o) ==
    /\ hold[o] # None
    /\ IF hold[o] \in Pool
       THEN Put(hold[o]) \/ (hold[o] \notin nic /\ PutRefused(hold[o]))
       ELSE UNCHANGED interface
    /\ PollOnly /\ UNCHANGED <<alloc, hold, node, cycle>>

AllocateDevice == Changed(TRUE) /\ PollGoes("manage", "device") /\ AllocateFor(Address(cur))
ReuseDevice == Changed(TRUE) /\ PollGoes("manage", "node") /\ Ensure(Address(cur))

DeviceAllocated ==
    /\ PollGoes("device", "node")
    /\ CallGoes("poll", "ok", "none")
    /\ PollOnly /\ UNCHANGED <<interface, hold, node, cycle>>

(* The device is left to the next cycle. *)
DeviceNotAllocated ==
    /\ PollGoes("device", "manage")
    /\ CallGoes("poll", "failed", "none")
    /\ NextDevice
    /\ PollOnly /\ UNCHANGED <<interface, hold, node>>

(* addDeviceNodes: the device's node; the id made of garbage may be taken. *)
CreateNode ==
    /\ PollGoes("node", "variable")
    /\ \E made \in BOOLEAN :
        /\ hold[Address(cur)] # Garbage => made
        /\ node' = [node EXCEPT ![cur] = made]
    /\ PollOnly /\ UNCHANGED <<alloc, interface, hold, cycle>>

(* Its variable, whose node is created whether or not it has an address. *)
AllocateVariable == PollGoes("variable", "value") /\ AllocateFor(Variable(cur))

ReuseVariable ==
    /\ PollGoes("variable", "value")
    /\ Ensure(Variable(cur))

EndAdding ==
    /\ PollGoes("value", "manage")
    /\ alloc["poll"].at \in {"none", "ok", "failed"}
    /\ alloc' = [alloc EXCEPT !["poll"] = Idle]
    /\ hold' = IF alloc["poll"].at = "failed" THEN [hold EXCEPT ![Variable(cur)] = None]
               ELSE hold
    /\ NextDevice
    /\ PollOnly /\ UNCHANGED <<interface, node>>

RemoveFor(o) == IF hold[o] \in Pool THEN TakeOff(hold[o]) ELSE UNCHANGED interface

RemoveDevice ==
    /\ Changed(FALSE) /\ PollGoes("manage", "unset")
    /\ RemoveFor(Address(cur))
    /\ PollOnly /\ UNCHANGED <<alloc, hold, node, cycle>>

RemoveNodesOnly ==           \* mutant: keeps the variable's address
    /\ PollGoes("unset", "manage")
    /\ node' = [node EXCEPT ![cur] = FALSE]
    /\ NextDevice
    /\ PollOnly /\ UNCHANGED <<alloc, interface, hold>>

(* deleteDeviceNodes *)
RemoveNodes ==
    /\ PollGoes("unset", "manage")
    /\ RemoveFor(Variable(cur))
    /\ node' = [node EXCEPT ![cur] = FALSE]
    /\ NextDevice
    /\ PollOnly /\ UNCHANGED <<alloc, hold>>

-----------------------------------------------------------------------------
MainStep ==
    \/ Initialise \/ InitialiseFails \/ OwnAllocated \/ OwnNotAllocated
    \/ LoopTop \/ Packet \/ ReleaseOwn \/ UnmapOwn \/ FreeList \/ ClearPool \/ Return
    \/ AllocateStep("main")

ServerStep ==
    \/ TakeSignals \/ StartThreads \/ SetupFails \/ JoinPolling \/ CancelPrinting
    \/ ~running /\ RunEnds

PollStep ==
    \/ Connect \/ ReadFails \/ ReadAll \/ PollEnds \/ EndManaging
    \/ KeepDevice \/ AllocateDevice \/ ReuseDevice \/ DeviceAllocated
    \/ DeviceNotAllocated \/ CreateNode \/ AllocateVariable \/ ReuseVariable
    \/ EndAdding \/ RemoveDevice \/ RemoveNodes
    \/ AllocateStep("poll")

Next ==
    \/ MainStep \/ ServerStep \/ RunEnds \/ PollStep
    \/ PrintMappings \/ EndPrinting
    \/ Stop \/ Kill \/ Start

(* The threads are scheduled, and get the map's lock sooner or later, for  *)
(* the printing thread sleeps between its outputs; packets keep coming.    *)
Spec ==
    /\ Init /\ [][Next]_vars
    /\ SF_vars(MainStep) /\ WF_vars(ServerStep) /\ SF_vars(PollStep)
    /\ WF_vars(EndPrinting)

-----------------------------------------------------------------------------
(* No two owners have one address, one that was refused and taken back     *)
(* included, for it stays in its owner's buffer and is put on the          *)
(* interface later.  (Once main has cleared the pool the poller may get    *)
(* the first address again, until the process is gone.)                    *)
AddressesDistinct == ready =>
    \A o, p \in Owners : o # p /\ hold[o] \in Pool => hold[o] # hold[p]

(* Until main clears it, this pool, too, is a dispenser: an address is     *)
(* given out once.                                                         *)
Dispenser == INSTANCE AddressDispenser WITH
    Holders <- Owners,
    used    <- IF ready THEN 0..(counter - 1) ELSE {},
    given   <- {[addr |-> hold[o], holder |-> o] :
                    o \in {h \in Owners : ready /\ hold[h] \in allocated}}
Dispenses == Dispenser!DispenserSpec

(* Between cycles the interface has the addresses of the devices that have *)
(* their nodes, and of their variables, and none of the others', but for   *)
(* those of which the last command was refused; a device without a proper  *)
(* address is no exception to more than itself.                            *)
InterfaceFollowsNodes == poll = "top" /\ ready =>
    \A d \in Devices : hold[Address(d)] # Garbage =>
        \A o \in {Address(d), Variable(d)} :
            hold[o] \in Pool \ refused => (hold[o] \in nic <=> node[d])

(* A signal ends what belongs to the handler it reaches: the OPC UA and    *)
(* the polling thread, or the process, unless the map's lock went with the *)
(* printing thread.                                                        *)
SignalsServed ==
    /\ ~running ~> (ua = "done" \/ ~Alive)
    /\ ~gRunning ~> (mapLock = "lost" \/ ~Alive)

(* What the design document says: a stop request ends the program, which   *)
(* cleans up.                                                              *)
StopEnds == ~gRunning \/ ~running ~> ~Alive
=============================================================================
