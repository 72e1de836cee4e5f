------------------------- MODULE ControllerLifecycle -------------------------
(***************************************************************************)
(* One run of the controller process, from its command line to its exit:   *)
(* main and main_loop (src/ipv6_server.cpp, src/main_loop.cpp), the thread *)
(* of opcua_server_main and the Modbus polling thread it starts            *)
(* (src/opcua_server.c), and the signals that end the run.                 *)
(*                                                                         *)
(* What a thread works with is in held, owned or ctx while it exists.  Of  *)
(* the pool only is kept whose addresses the interface has: the            *)
(* controller's own or the devices' (module Ipv6Manager has the rest,      *)
(* removals that fail among it).                                           *)
(***************************************************************************)
EXTENDS FiniteSets

CONSTANTS Signals   \* the signals with a handler: SIGINT and SIGTERM
ASSUME SignalAssumption == IsFiniteSet(Signals)

Owners == {"controller", "devices"}

VARIABLES
    main,           \* where main, or main_loop under it, is
    ua,             \* where opcua_server_main is
    poll,           \* where modbusPollingThread is
    installed,      \* signals whose next arrival stop_program handles
    loopRunning,    \* g_main_loop_running
    running,        \* running
    timed,          \* SO_RCVTIMEO is set on the socket
    held,           \* log manager, Winsock, address manager, socket
    owned,          \* UA server, CSV records, devices, read plan
    ctx,            \* modbus_client.ctx
    nic,            \* whose addresses the interface has
    strayed         \* history: a write used ctx after modbus_free

flags == <<installed, loopRunning, running>>
vars == <<main, ua, poll, flags, timed, held, owned, ctx, nic, strayed>>

(* What main holds is let go in the reverse order of its coming. *)
Stages == {{}, {"log"}, {"log", "wsa"}, {"log", "wsa", "manager"},
           {"log", "wsa", "manager", "socket"}}
ServerStages == {{}, {"server"}, {"server", "csv"}, {"server", "csv", "devices"},
                 {"server", "csv", "devices", "plan"}, {"devices"}}

TypeOK ==
    /\ main \in {"log", "wsa", "manager", "socket", "bind", "timeout", "spawn",
                 "allocate", "loop", "receive", "handle", "stop", "close",
                 "join", "remove", "release", "exited", "killed"}
    /\ ua \in {"none", "new", "config", "root", "csv", "devices", "plan", "start",
               "run", "iterate", "write", "join", "free", "done"}
    /\ poll \in {"none", "init", "top", "cycle", "close", "free", "null", "done"}
    /\ installed \subseteq Signals
    /\ loopRunning \in BOOLEAN /\ running \in BOOLEAN /\ timed \in BOOLEAN
    /\ held \in Stages
    /\ owned \in ServerStages
    /\ ctx \in {"none", "live", "freed"}
    /\ nic \subseteq Owners
    /\ strayed \in BOOLEAN

(* The command line is read and both handlers are installed. *)
Init ==
    /\ main = "log" /\ ua = "none" /\ poll = "none"
    /\ installed = Signals
    /\ loopRunning = TRUE /\ running = TRUE
    /\ timed = FALSE
    /\ held = {} /\ owned = {} /\ ctx = "none" /\ nic = {}
    /\ strayed = FALSE

Alive == main \notin {"exited", "killed"}

-----------------------------------------------------------------------------
(* stop_program.  The C library puts the default action back before it     *)
(* calls a handler, so a signal's second arrival ends the process.         *)
StopProgram(s) ==
    /\ Alive
    /\ s \in installed
    /\ installed' = installed \ {s}
    /\ loopRunning' = FALSE
    /\ UNCHANGED <<main, ua, poll, running, timed, held, owned, ctx, nic, strayed>>

KillProgram(s) ==
    /\ Alive
    /\ s \in Signals \ installed
    /\ main' = "killed"
    /\ UNCHANGED <<ua, poll, flags, timed, held, owned, ctx, nic, strayed>>

-----------------------------------------------------------------------------
(* Initialisation: a step that fails goes to cleanup. *)
MainGoes(from, to) == main = from /\ main' = to
MainOnly == UNCHANGED <<ua, poll, flags, owned, ctx, strayed>>

Acquire(from, to, resource) ==
    /\ MainGoes(from, to)
    /\ held' = held \cup {resource}
    /\ MainOnly /\ UNCHANGED <<timed, nic>>

InitLog     == Acquire("log", "wsa", "log")
InitWinsock == Acquire("wsa", "manager", "wsa")
InitManager == Acquire("manager", "socket", "manager")
OpenSocket  == Acquire("socket", "bind", "socket")

(* Not joining the multicast group is no failure. *)
BindSocket ==
    /\ MainGoes("bind", "timeout")
    /\ MainOnly /\ UNCHANGED <<timed, held, nic>>

InitFails ==
    /\ main \in {"log", "wsa", "manager", "socket", "bind"}
    /\ main' = "stop"
    /\ MainOnly /\ UNCHANGED <<timed, held, nic>>

(* Nor is a socket that takes no receive timeout. *)
SetTimeout ==
    /\ MainGoes("timeout", "spawn")
    /\ timed' \in BOOLEAN
    /\ MainOnly /\ UNCHANGED <<held, nic>>

SpawnServer ==
    /\ MainGoes("spawn", "allocate")
    /\ ua' = "new"
    /\ UNCHANGED <<poll, flags, timed, held, owned, ctx, nic, strayed>>

-----------------------------------------------------------------------------
(* main_loop: an address of its own, then one scan request after another.  *)
AllocateOwn ==
    /\ MainGoes("allocate", "loop")
    /\ nic' = nic \cup {"controller"}
    /\ MainOnly /\ UNCHANGED <<timed, held>>

AllocateOwnFailsGoesOn ==    \* mutant: serves without an address
    /\ MainGoes("allocate", "loop")
    /\ MainOnly /\ UNCHANGED <<timed, held, nic>>

AllocateOwnFails ==
    /\ MainGoes("allocate", "stop")
    /\ MainOnly /\ UNCHANGED <<timed, held, nic>>

EnterReceive ==
    /\ main = "loop"
    /\ main' = IF loopRunning THEN "receive" ELSE "stop"
    /\ MainOnly /\ UNCHANGED <<timed, held, nic>>

(* recvfrom returns with a packet, whenever one comes, or at the timeout.  *)
Return ==
    /\ main = "receive"
    /\ MainOnly /\ UNCHANGED <<timed, held, nic>>

ReceivePacket == Return /\ main' = IF loopRunning THEN "handle" ELSE "stop"

ReceiveTimesOut == timed /\ Return /\ main' = IF loopRunning THEN "loop" ELSE "stop"

HandlePacket ==
    /\ MainGoes("handle", "loop")
    /\ MainOnly /\ UNCHANGED <<timed, held, nic>>

-----------------------------------------------------------------------------
(* The cleanup label of main. *)
StopServerLoopOnly ==        \* mutant: leaves the OPC UA server running
    /\ MainGoes("stop", "close")
    /\ loopRunning' = FALSE
    /\ UNCHANGED <<ua, poll, installed, running, timed, held, owned, ctx, nic, strayed>>

StopServer ==
    /\ MainGoes("stop", "close")
    /\ loopRunning' = FALSE /\ running' = FALSE
    /\ UNCHANGED <<ua, poll, installed, timed, held, owned, ctx, nic, strayed>>

CloseSocket ==
    /\ MainGoes("close", "join")
    /\ held' = held \ {"socket"}
    /\ MainOnly /\ UNCHANGED <<timed, nic>>

JoinServerDetached ==        \* mutant: does not wait for the thread
    /\ MainGoes("join", "remove")
    /\ MainOnly /\ UNCHANGED <<timed, held, nic>>

JoinServer ==
    /\ MainGoes("join", "remove")
    /\ ua \in {"none", "done"}
    /\ MainOnly /\ UNCHANGED <<timed, held, nic>>

(* ipv6_remove_all_allocated_addresses, ipv6_manager_cleanup *)
RemoveAddresses ==
    /\ MainGoes("remove", "release")
    /\ nic' = IF "manager" \in held THEN {} ELSE nic
    /\ held' = held \ {"manager"}
    /\ MainOnly /\ UNCHANGED <<timed>>

ReleaseRest ==
    /\ MainGoes("release", "exited")
    /\ held' = {}
    /\ MainOnly /\ UNCHANGED <<timed, nic>>

-----------------------------------------------------------------------------
(* opcua_server_main: a step that fails frees what the code frees of what  *)
(* there is by then; the devices are left.                                 *)
ServerGoes(from, to) == Alive /\ ua = from /\ ua' = to
ServerOnly == UNCHANGED <<main, flags, timed, held>>

NewServer ==
    /\ ServerGoes("new", "config")
    /\ owned' = {"server"}
    /\ ServerOnly /\ UNCHANGED <<poll, ctx, nic, strayed>>

LoadConfig ==
    /\ ServerGoes("config", "root")
    /\ ServerOnly /\ UNCHANGED <<poll, owned, ctx, nic, strayed>>

(* createSpsspsDevice, createBus0 *)
CreateRoot ==
    /\ ServerGoes("root", "csv")
    /\ nic' \in {nic, nic \cup {"controller"}}
    /\ ServerOnly /\ UNCHANGED <<poll, owned, ctx, strayed>>

ParseCsv ==
    /\ ServerGoes("csv", "devices")
    /\ owned' = owned \cup {"csv"}
    /\ ServerOnly /\ UNCHANGED <<poll, ctx, nic, strayed>>

CreateDevices ==
    /\ ServerGoes("devices", "plan")
    /\ owned' = owned \cup {"devices"}
    /\ ServerOnly /\ UNCHANGED <<poll, ctx, nic, strayed>>

BuildPlan ==
    /\ ServerGoes("plan", "start")
    /\ owned' = owned \cup {"plan"}
    /\ ServerOnly /\ UNCHANGED <<poll, ctx, nic, strayed>>

ServerFails ==
    /\ Alive
    /\ ua \in {"config", "root", "csv", "devices", "plan", "start"}
    /\ ua' = "done"
    /\ owned' = owned \cap {"devices"}
    /\ ServerOnly /\ UNCHANGED <<poll, ctx, nic, strayed>>

StartPolling ==
    /\ ServerGoes("start", "run")
    /\ poll' = "init"
    /\ ServerOnly /\ UNCHANGED <<owned, ctx, nic, strayed>>

(* UA_Server_run: iterations, until running is cleared or one fails.  In   *)
(* an iteration a client's write may send through the Modbus context; that *)
(* it is not NULL is checked first.                                        *)
Iterate ==
    /\ Alive /\ ua = "run"
    /\ ua' = IF running THEN "iterate" ELSE "join"
    /\ ServerOnly /\ UNCHANGED <<poll, owned, ctx, nic, strayed>>

RunFails ==
    /\ ServerGoes("run", "join")
    /\ ServerOnly /\ UNCHANGED <<poll, owned, ctx, nic, strayed>>

BeginWrite ==
    /\ Alive /\ ua = "iterate"
    /\ ua' = IF ctx # "none" THEN "write" ELSE "run"
    /\ ServerOnly /\ UNCHANGED <<poll, owned, ctx, nic, strayed>>

EndWrite ==
    /\ ServerGoes("write", "run")
    /\ strayed' = (strayed \/ ctx # "live")
    /\ ServerOnly /\ UNCHANGED <<poll, owned, ctx, nic>>

FinishIteration ==
    /\ ServerGoes("iterate", "run")
    /\ ServerOnly /\ UNCHANGED <<poll, owned, ctx, nic, strayed>>

JoinPollingNot ==            \* mutant: does not wait for the polling thread
    /\ ServerGoes("join", "free")
    /\ ServerOnly /\ UNCHANGED <<poll, owned, ctx, nic, strayed>>

JoinPolling ==
    /\ ServerGoes("join", "free")
    /\ poll = "done"
    /\ ServerOnly /\ UNCHANGED <<poll, owned, ctx, nic, strayed>>

FreeServer ==
    /\ ServerGoes("free", "done")
    /\ owned' = {}
    /\ ServerOnly /\ UNCHANGED <<poll, ctx, nic, strayed>>

-----------------------------------------------------------------------------
(* modbusPollingThread *)
PollGoes(from, to) == Alive /\ poll = from /\ poll' = to
PollOnly == UNCHANGED <<main, ua, flags, timed, held, owned, strayed>>

InitClient ==
    /\ PollGoes("init", "top")
    /\ ctx' = "live"
    /\ PollOnly /\ UNCHANGED nic

InitClientFails ==
    /\ PollGoes("init", "done")
    /\ PollOnly /\ UNCHANGED <<ctx, nic>>

BeginCycle ==
    /\ Alive /\ poll = "top"
    /\ poll' = IF running THEN "cycle" ELSE "close"
    /\ PollOnly /\ UNCHANGED <<ctx, nic>>

CycleFailsFrees ==           \* mutant: gives up the context with the connection
    /\ PollGoes("cycle", "top")
    /\ ctx' = "freed"
    /\ PollOnly /\ UNCHANGED nic

(* Not connected, or a read failed and the connection is closed. *)
CycleFails ==
    /\ PollGoes("cycle", "top")
    /\ PollOnly /\ UNCHANGED <<ctx, nic>>

(* Devices come and go, with their addresses. *)
ManageDevices ==
    /\ PollGoes("cycle", "top")
    /\ nic' \in {nic \cup {"devices"}, nic \ {"devices"}}
    /\ PollOnly /\ UNCHANGED ctx

CloseClient ==
    /\ PollGoes("close", "free")
    /\ PollOnly /\ UNCHANGED <<ctx, nic>>

FreeClient ==
    /\ PollGoes("free", "null")
    /\ ctx' = "freed"
    /\ PollOnly /\ UNCHANGED nic

ForgetClient ==
    /\ PollGoes("null", "done")
    /\ ctx' = "none"
    /\ PollOnly /\ UNCHANGED nic

-----------------------------------------------------------------------------
(* After its end the process does nothing. *)
Ended == ~Alive /\ UNCHANGED vars

MainStep ==
    \/ InitLog \/ InitWinsock \/ InitManager \/ OpenSocket \/ BindSocket
    \/ InitFails \/ SetTimeout \/ SpawnServer
    \/ AllocateOwn \/ AllocateOwnFails \/ EnterReceive \/ ReceiveTimesOut
    \/ HandlePacket
    \/ StopServer \/ CloseSocket \/ JoinServer \/ RemoveAddresses \/ ReleaseRest

ServerStep ==
    \/ NewServer \/ LoadConfig \/ CreateRoot \/ ParseCsv \/ CreateDevices
    \/ BuildPlan \/ ServerFails \/ StartPolling
    \/ Iterate \/ RunFails \/ BeginWrite \/ EndWrite \/ FinishIteration
    \/ JoinPolling \/ FreeServer

PollStep ==
    \/ InitClient \/ InitClientFails \/ BeginCycle \/ CycleFails \/ ManageDevices
    \/ CloseClient \/ FreeClient \/ ForgetClient

Next ==
    \/ MainStep \/ ReceivePacket \/ ServerStep \/ PollStep \/ Ended
    \/ \E s \in Signals : StopProgram(s) \/ KillProgram(s)

(* The threads are scheduled; nobody has to send a packet or a signal. *)
Spec ==
    /\ Init /\ [][Next]_vars
    /\ WF_vars(MainStep) /\ WF_vars(ServerStep) /\ WF_vars(PollStep)

-----------------------------------------------------------------------------
ServerRuns == ua \notin {"none", "done"}
PollerRuns == poll \notin {"none", "done"}

(* No thread is left without what it works with, whichever step failed and *)
(* whenever the stop came: the cleanup waits for the OPC UA thread before  *)
(* it takes the manager, Winsock and the log away, and that thread for the *)
(* poller before it frees the server, the devices and the plan.            *)
ResourcesLive == Alive =>
    /\ ServerRuns => {"log", "wsa", "manager"} \subseteq held
    /\ PollerRuns => /\ {"log", "wsa", "manager"} \subseteq held
                     /\ {"server", "csv", "devices", "plan"} \subseteq owned
    /\ main \in {"allocate", "loop", "receive", "handle"} =>
           held = {"log", "wsa", "manager", "socket"}

(* A process that exits, rather than be killed, leaves no thread in the    *)
(* middle of its work and no address on the interface.                     *)
ExitIsOrderly == main = "exited" =>
    /\ ~ServerRuns /\ ~PollerRuns
    /\ nic = {}

(* While the controller serves, no client's write works on a Modbus        *)
(* context that is gone.  When it stops, one can: the poller frees the     *)
(* context without waiting for UA_Server_run to return.                    *)
StraysOnlyAtStop == strayed => ~running

(* A stop request, or a failure of main, ends the process, if the socket   *)
(* has its receive timeout.                                                *)
StopEnds ==
    ~loopRunning ~> (~Alive \/ (main = "receive" /\ ~timed))
=============================================================================
