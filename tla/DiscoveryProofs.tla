---------------------------- MODULE DiscoveryProofs ----------------------------
(***************************************************************************)
(* Proofs about ControllerLifecycle, and about Discovery on top of it, for *)
(* any signals, clients and number of requests.                            *)
(*                                                                         *)
(* The life of the process: where main is fixes what it holds, where the   *)
(* OPC UA thread is fixes what that thread owns; the OPC UA thread runs    *)
(* only while main is between starting it and having joined it, and the    *)
(* poller only while the OPC UA thread is between starting it and having   *)
(* joined it.  All that holds whatever the datagrams do, for no step of    *)
(* theirs is a step of the process, and of the datagrams none is answered  *)
(* that is no request.                                                     *)
(***************************************************************************)
EXTENDS Discovery, Integers, TLAPS


All == {"log", "wsa", "manager", "socket"}
Serving == {"bind", "timeout", "spawn", "allocate", "loop", "receive", "handle"}
Stopping == {"stop", "close", "join", "remove"}

(* What main holds, by where it is. *)
MainHolds ==
    /\ main = "log" => held = {}
    /\ main = "wsa" => held = {"log"}
    /\ main = "manager" => held = {"log", "wsa"}
    /\ main = "socket" => held = {"log", "wsa", "manager"}
    /\ main \in Serving => held = All
    /\ main \in {"join", "remove"} => "socket" \notin held

(* The OPC UA thread lives between its start and its join. *)
ServerWithin ==
    /\ main \in {"log", "wsa", "manager", "socket", "bind", "timeout", "spawn"} =>
           ua = "none"
    /\ ServerRuns => main \in {"allocate", "loop", "receive", "handle", "stop",
                               "close", "join", "killed"}
    /\ ServerRuns /\ main \in {"stop", "close"} => held = All
    /\ ServerRuns /\ main = "join" => held = {"log", "wsa", "manager"}
    /\ main \in {"remove", "release", "exited"} => ~ServerRuns

(* The polling thread lives between its start and its join. *)
PollerWithin ==
    /\ PollerRuns => ua \in {"run", "iterate", "write", "join"}
    /\ ua \in {"none", "new", "config", "root", "csv", "devices", "plan", "start"}
           => poll = "none"

(* What the OPC UA thread owns, by where it is. *)
ServerOwns ==
    /\ ua = "none" => owned = {}
    /\ ua \in {"config", "root", "csv"} => owned = {"server"}
    /\ ua = "devices" => owned = {"server", "csv"}
    /\ ua = "plan" => owned = {"server", "csv", "devices"}
    /\ ua \in {"start", "run", "iterate", "write", "join", "free"} =>
           owned = {"server", "csv", "devices", "plan"}

(* Addresses come after the manager and go before it. *)
AddressesWithin ==
    /\ main \in {"log", "wsa", "manager", "release", "exited"} => nic = {}
    /\ main \in Stopping /\ "manager" \notin held => nic = {} /\ ~ServerRuns

(* The Modbus context is there while the poller uses it, and goes only     *)
(* once running is cleared.                                                *)
ContextWithin ==
    /\ poll \in {"top", "cycle", "close", "free"} => ctx = "live"
    /\ poll \in {"close", "free", "null"} => ~running
    /\ ctx = "freed" => ~running
    /\ ua = "write" => ctx = "live" \/ ~running
    /\ strayed => ~running

LifeInv ==
    /\ TypeOK
    /\ MainHolds /\ ServerWithin /\ PollerWithin /\ ServerOwns
    /\ AddressesWithin /\ ContextWithin
-----------------------------------------------------------------------------
LEMMA InitLifeInv == Init => LifeInv
BY DEF Init, LifeInv, TypeOK, MainHolds, ServerWithin, PollerWithin, ServerOwns,
       AddressesWithin, ContextWithin, Stages, ServerStages, Owners, All, Serving, Stopping,
       ServerRuns, PollerRuns

(* The steps of main and of main_loop. *)
LEMMA MainKeeps == LifeInv /\ MainStep => LifeInv'
<1> SUFFICES ASSUME LifeInv, MainStep PROVE LifeInv'
  OBVIOUS
<1> USE DEF MainGoes, MainOnly, Acquire, Return, flags,
            LifeInv, TypeOK, MainHolds, ServerWithin, PollerWithin, ServerOwns,
            AddressesWithin, ContextWithin, Stages, ServerStages, Owners, All, Serving, Stopping,
            ServerRuns, PollerRuns
<1>1. CASE InitLog
  BY <1>1 DEF InitLog
<1>2. CASE InitWinsock
  BY <1>2 DEF InitWinsock
<1>3. CASE InitManager
  BY <1>3 DEF InitManager
<1>4. CASE OpenSocket
  BY <1>4 DEF OpenSocket
<1>5. CASE BindSocket
  BY <1>5 DEF BindSocket
<1>6. CASE InitFails
  BY <1>6 DEF InitFails
<1>7. CASE SetTimeout
  BY <1>7 DEF SetTimeout
<1>8. CASE SpawnServer
  BY <1>8 DEF SpawnServer
<1>9. CASE AllocateOwn
  BY <1>9 DEF AllocateOwn
<1>10. CASE AllocateOwnFails
  BY <1>10 DEF AllocateOwnFails
<1>11. CASE EnterReceive
  BY <1>11 DEF EnterReceive
<1>12. CASE ReceiveTimesOut
  BY <1>12 DEF ReceiveTimesOut
<1>13. CASE HandlePacket
  BY <1>13 DEF HandlePacket
<1>14. CASE StopServer
  <2>1. TypeOK'
    <3>1. loopRunning' \in BOOLEAN /\ running' \in BOOLEAN
      BY <1>14, Zenon DEF StopServer
    <3>2. UNCHANGED <<ua, poll, installed, timed, held, owned, ctx, nic, strayed>> /\ main' = "close"
      BY <1>14 DEF StopServer
    <3> HIDE DEF Stages, ServerStages, Owners
    <3> QED
      BY <3>1, <3>2
  <2>2. MainHolds'
    BY <1>14 DEF StopServer
  <2>3. ServerWithin'
    BY <1>14 DEF StopServer
  <2>4. PollerWithin'
    BY <1>14 DEF StopServer
  <2>5. ServerOwns'
    BY <1>14 DEF StopServer
  <2>6. AddressesWithin'
    BY <1>14 DEF StopServer
  <2>7. ContextWithin'
    BY <1>14 DEF StopServer
  <2> QED
    BY <2>1, <2>2, <2>3, <2>4, <2>5, <2>6, <2>7
<1>15. CASE CloseSocket
  BY <1>15 DEF CloseSocket
<1>16. CASE JoinServer
  BY <1>16 DEF JoinServer
<1>17. CASE RemoveAddresses
  <2>1. TypeOK'
    <3>1. held \in {{}, {"log"}, {"log", "wsa"}, {"log", "wsa", "manager"}}
      BY <1>17 DEF RemoveAddresses
    <3>2. held' = held \ {"manager"}
      BY <1>17 DEF RemoveAddresses
    <3>3. held' \in Stages
      <4>1. ASSUME held \in {{}, {"log"}, {"log", "wsa"}} PROVE held \ {"manager"} = held
        BY <4>1
      <4>2. {"log", "wsa", "manager"} \ {"manager"} = {"log", "wsa"}
        OBVIOUS
      <4> QED
        BY <3>1, <3>2, <4>1, <4>2
    <3>4. nic' \subseteq Owners
      BY <1>17 DEF RemoveAddresses
    <3>5. main' = "release" /\ UNCHANGED <<ua, poll, flags, owned, ctx, strayed, timed>>
      BY <1>17 DEF RemoveAddresses
    <3> HIDE DEF Stages, ServerStages, Owners
    <3> QED
      BY <3>3, <3>4, <3>5
  <2>2. MainHolds'
    BY <1>17 DEF RemoveAddresses
  <2>3. ServerWithin'
    BY <1>17 DEF RemoveAddresses
  <2>4. PollerWithin'
    BY <1>17 DEF RemoveAddresses
  <2>5. ServerOwns'
    BY <1>17 DEF RemoveAddresses
  <2>6. AddressesWithin'
    BY <1>17 DEF RemoveAddresses
  <2>7. ContextWithin'
    BY <1>17 DEF RemoveAddresses
  <2> QED
    BY <2>1, <2>2, <2>3, <2>4, <2>5, <2>6, <2>7
<1>18. CASE ReleaseRest
  BY <1>18 DEF ReleaseRest
<1> QED
  BY <1>1, <1>2, <1>3, <1>4, <1>5, <1>6, <1>7, <1>8, <1>9, <1>10, <1>11, <1>12, <1>13, <1>14, <1>15, <1>16, <1>17, <1>18 DEF MainStep

(* The steps of opcua_server_main. *)
LEMMA ServerKeeps == LifeInv /\ ServerStep => LifeInv'
<1> SUFFICES ASSUME LifeInv, ServerStep PROVE LifeInv'
  OBVIOUS
<1> USE DEF ServerGoes, ServerOnly, Alive, flags,
            LifeInv, TypeOK, MainHolds, ServerWithin, PollerWithin, ServerOwns,
            AddressesWithin, ContextWithin, Stages, ServerStages, Owners, All, Serving, Stopping,
            ServerRuns, PollerRuns
<1>1. CASE NewServer
  BY <1>1 DEF NewServer
<1>2. CASE LoadConfig
  BY <1>2 DEF LoadConfig
<1>3. CASE CreateRoot
  BY <1>3 DEF CreateRoot
<1>4. CASE ParseCsv
  BY <1>4 DEF ParseCsv
<1>5. CASE CreateDevices
  BY <1>5 DEF CreateDevices
<1>6. CASE BuildPlan
  BY <1>6 DEF BuildPlan
<1>7. CASE ServerFails
  BY <1>7 DEF ServerFails
<1>8. CASE StartPolling
  BY <1>8 DEF StartPolling
<1>9. CASE Iterate
  BY <1>9 DEF Iterate
<1>10. CASE RunFails
  BY <1>10 DEF RunFails
<1>11. CASE BeginWrite
  BY <1>11 DEF BeginWrite
<1>12. CASE EndWrite
  BY <1>12 DEF EndWrite
<1>13. CASE FinishIteration
  BY <1>13 DEF FinishIteration
<1>14. CASE JoinPolling
  BY <1>14 DEF JoinPolling
<1>15. CASE FreeServer
  BY <1>15 DEF FreeServer
<1> QED
  BY <1>1, <1>2, <1>3, <1>4, <1>5, <1>6, <1>7, <1>8, <1>9, <1>10, <1>11, <1>12, <1>13, <1>14, <1>15 DEF ServerStep

(* The steps of modbusPollingThread. *)
LEMMA PollerKeeps == LifeInv /\ PollStep => LifeInv'
<1> SUFFICES ASSUME LifeInv, PollStep PROVE LifeInv'
  OBVIOUS
<1> USE DEF PollGoes, PollOnly, Alive, flags,
            LifeInv, TypeOK, MainHolds, ServerWithin, PollerWithin, ServerOwns,
            AddressesWithin, ContextWithin, Stages, ServerStages, Owners, All, Serving, Stopping,
            ServerRuns, PollerRuns
<1>1. CASE InitClient
  BY <1>1 DEF InitClient
<1>2. CASE InitClientFails
  BY <1>2 DEF InitClientFails
<1>3. CASE BeginCycle
  BY <1>3 DEF BeginCycle
<1>4. CASE CycleFails
  BY <1>4 DEF CycleFails
<1>5. CASE ManageDevices
  BY <1>5 DEF ManageDevices
<1>6. CASE CloseClient
  BY <1>6 DEF CloseClient
<1>7. CASE FreeClient
  BY <1>7 DEF FreeClient
<1>8. CASE ForgetClient
  BY <1>8 DEF ForgetClient
<1> QED
  BY <1>1, <1>2, <1>3, <1>4, <1>5, <1>6, <1>7, <1>8 DEF PollStep

LEMMA StepLifeInv == LifeInv /\ [Next]_vars => LifeInv'
<1> SUFFICES ASSUME LifeInv, [Next]_vars PROVE LifeInv'
  OBVIOUS
<1>1. CASE MainStep
  BY <1>1, MainKeeps
<1>2. CASE ReceivePacket
  BY <1>2 DEF ReceivePacket, Return, MainOnly, flags, LifeInv, TypeOK, MainHolds, ServerWithin, PollerWithin, ServerOwns,
            AddressesWithin, ContextWithin, Stages, ServerStages, Owners, All, Serving, Stopping,
            ServerRuns, PollerRuns
<1>3. CASE ServerStep
  BY <1>3, ServerKeeps
<1>4. CASE PollStep
  BY <1>4, PollerKeeps
<1>5. ASSUME NEW s \in Signals, StopProgram(s) PROVE LifeInv'
  <2>1. UNCHANGED <<main, ua, poll, running, timed, held, owned, ctx, nic, strayed>>
    BY <1>5 DEF StopProgram
  <2>2. loopRunning' \in BOOLEAN
    BY <1>5, Zenon DEF StopProgram
  <2>3. installed' \subseteq Signals
    BY <1>5 DEF StopProgram, LifeInv, TypeOK
  <2>4. TypeOK'
    BY <2>1, <2>2, <2>3 DEF LifeInv, TypeOK
  <2>5. MainHolds' /\ ServerWithin' /\ PollerWithin'
    BY <2>1 DEF LifeInv, MainHolds, ServerWithin, PollerWithin, ServerRuns, PollerRuns
  <2>6. ServerOwns' /\ AddressesWithin' /\ ContextWithin'
    BY <2>1 DEF LifeInv, ServerOwns, AddressesWithin, ContextWithin, ServerRuns
  <2> QED
    BY <2>4, <2>5, <2>6 DEF LifeInv
<1>6. ASSUME NEW s \in Signals, KillProgram(s) PROVE LifeInv'
  BY <1>6 DEF KillProgram, Alive, flags, LifeInv, TypeOK, MainHolds, ServerWithin, PollerWithin, ServerOwns,
            AddressesWithin, ContextWithin, Stages, ServerStages, Owners, All, Serving, Stopping,
            ServerRuns, PollerRuns
<1>7. CASE UNCHANGED vars
  BY <1>7 DEF vars, flags, LifeInv, TypeOK, MainHolds, ServerWithin, PollerWithin, ServerOwns,
            AddressesWithin, ContextWithin, Stages, ServerStages, Owners, All, Serving, Stopping,
            ServerRuns, PollerRuns
<1> QED
  BY <1>1, <1>2, <1>3, <1>4, <1>5, <1>6, <1>7 DEF Next, Ended

(* Where each thread is says what is held, owned and on the interface.     *)
THEOREM LifecycleInvariant == Spec => []LifeInv
<1> QED
  BY InitLifeInv, StepLifeInv, PTL DEF Spec

-----------------------------------------------------------------------------
(* The state keeps its types; what main holds is let go in the reverse     *)
(* order of its coming, on every path to the exit.                         *)
THEOREM LifecycleTypeCorrect == Spec => []TypeOK
<1>1. LifeInv => TypeOK
  BY DEF LifeInv
<1> QED
  BY <1>1, LifecycleInvariant, PTL

(* No thread runs without what it works with.                              *)
THEOREM ThreadsHaveResources == Spec => []ResourcesLive
<1>1. LifeInv => ResourcesLive
  BY DEF ResourcesLive, Alive, LifeInv, TypeOK, MainHolds, ServerWithin, PollerWithin, ServerOwns,
            AddressesWithin, ContextWithin, Stages, ServerStages, Owners, All, Serving, Stopping,
            ServerRuns, PollerRuns
<1> QED
  BY <1>1, LifecycleInvariant, PTL

(* A process that exits leaves no thread at work and no address behind.    *)
THEOREM OrderlyExit == Spec => []ExitIsOrderly
<1>1. LifeInv => ExitIsOrderly
  BY DEF ExitIsOrderly, LifeInv, TypeOK, MainHolds, ServerWithin, PollerWithin, ServerOwns,
            AddressesWithin, ContextWithin, Stages, ServerStages, Owners, All, Serving, Stopping,
            ServerRuns, PollerRuns
<1> QED
  BY <1>1, LifecycleInvariant, PTL

(* A write strays to a freed Modbus context only when the controller stops. *)
THEOREM StraysRare == Spec => []StraysOnlyAtStop
<1>1. LifeInv => StraysOnlyAtStop
  BY DEF LifeInv, ContextWithin, StraysOnlyAtStop
<1> QED
  BY <1>1, LifecycleInvariant, PTL

-----------------------------------------------------------------------------
(* Discovery *)

(* A request is a client's own, with a number it has used.  What goes      *)
(* through the buffer passes for a request only if it is one; this is what *)
(* AnswersAsked needs of the wire and of the buffer.                       *)
Asked(d) == /\ d.from \in Clients /\ d.client = d.from
            /\ d.sequence \in 1..asked[d.from]
Passes(d) == d.whole /\ d.head = "scan"
Genuine == /\ \A d \in wire : Passes(d) => Asked(d)
           /\ Passes(buffer) => Asked(buffer)

(* main_loop serves only with its own address on the interface. *)
Addressed == main \in {"loop", "receive", "handle"} => "controller" \in nic

NetInv == DiscoveryTypeOK /\ Genuine /\ AnswersAsked
DiscoveryInv == LifeInv /\ Addressed /\ NetInv

-----------------------------------------------------------------------------
LEMMA UnreadIsDatagram == Unread \in Datagram /\ ~Passes(Unread)
  BY WireAssumption DEF Unread, Datagram, Heads, Senders, Sequences, Passes

LEMMA RequestIsDatagram ==
    ASSUME asked \in [Clients -> Sequences], NEW c \in Clients,
           NEW k \in Sequences
    PROVE  [Request(c) EXCEPT !.sequence = k] \in Datagram /\ Request(c) \in Datagram
  BY DEF Request, Datagram, Heads, Senders

LEMMA InitDiscoveryInv == DiscoveryInit => DiscoveryInv
<1> SUFFICES ASSUME DiscoveryInit PROVE DiscoveryInv
  OBVIOUS
<1>1. LifeInv
  BY InitLifeInv DEF DiscoveryInit
<1>2. Addressed
  BY DEF DiscoveryInit, Init, Addressed
<1>3. DiscoveryTypeOK
  <2>1. asked \in [Clients -> Sequences]
    BY WireAssumption DEF DiscoveryInit, Sequences
  <2>2. QED
    BY <1>1, <2>1, UnreadIsDatagram DEF DiscoveryInit, DiscoveryTypeOK, LifeInv
<1>4. Genuine /\ AnswersAsked
  BY UnreadIsDatagram DEF DiscoveryInit, Genuine, AnswersAsked
<1>5. QED
  BY <1>1, <1>2, <1>3, <1>4 DEF DiscoveryInv, NetInv

(* The clients and the network leave the process alone. *)
LEMMA StepLifecycle ==
    ASSUME DiscoveryInv, [DiscoveryNext]_allVars
    PROVE  [Next]_vars
  BY DEF DiscoveryNext, Noise, Scan, Retry, allVars

LEMMA StepAddressed ==
    ASSUME LifeInv, Addressed, [Next]_vars
    PROVE  Addressed'
<1> USE DEF Addressed
<1>1. CASE MainStep
  BY <1>1 DEF MainStep, MainGoes, MainOnly, Acquire, Return,
       InitLog, InitWinsock, InitManager, OpenSocket, BindSocket, InitFails, SetTimeout,
       SpawnServer, AllocateOwn, AllocateOwnFails, EnterReceive, ReceiveTimesOut,
       HandlePacket, StopServer, CloseSocket, JoinServer, RemoveAddresses, ReleaseRest
<1>2. CASE ReceivePacket
  BY <1>2 DEF ReceivePacket, Return
<1>3. CASE ServerStep
  BY <1>3 DEF ServerStep, ServerGoes, ServerOnly, NewServer, LoadConfig, CreateRoot,
       ParseCsv, CreateDevices, BuildPlan, ServerFails, StartPolling, Iterate, RunFails,
       BeginWrite, EndWrite, FinishIteration, JoinPolling, FreeServer
<1>4. CASE PollStep
  BY <1>4 DEF PollStep, PollGoes, PollOnly, InitClient, InitClientFails, BeginCycle,
       CycleFails, ManageDevices, CloseClient, FreeClient, ForgetClient
<1>5. CASE UNCHANGED vars \/ Ended
  BY <1>5 DEF vars, Ended
<1>6. CASE \E s \in Signals : StopProgram(s) \/ KillProgram(s)
  BY <1>6 DEF StopProgram, KillProgram
<1>7. QED
  BY <1>1, <1>2, <1>3, <1>4, <1>5, <1>6 DEF Next

-----------------------------------------------------------------------------
(* A datagram the network takes: of a client that asks, or a stranger's.   *)
LEMMA SendKeeps ==
    ASSUME DiscoveryInv, TypeOK', Noise \/ \E c \in Clients : Scan(c) \/ Retry(c)
    PROVE  NetInv'
<1>1. /\ asked \in [Clients -> Sequences] /\ wire \subseteq Datagram
      /\ buffer \in Datagram /\ answers \subseteq Response
      /\ buffer' = buffer /\ answers' = answers
  BY DEF DiscoveryInv, NetInv, DiscoveryTypeOK, Noise, Scan, Retry
<1>2. CASE Noise
  <2>1. PICK d \in {[Unread EXCEPT !.whole = TRUE, !.head = "response"],
                    [Unread EXCEPT !.head = "scan"]} : wire' = wire \cup {d}
    BY <1>2 DEF Noise
  <2>2. d \in Datagram /\ ~Passes(d)
    <3>1. 0 \in Sequences /\ Stranger \in Senders
      BY WireAssumption DEF Sequences, Senders
    <3>2. \/ d = [from |-> Stranger, whole |-> TRUE, head |-> "response",
                 client |-> Stranger, sequence |-> 0]
          \/ d = [from |-> Stranger, whole |-> FALSE, head |-> "scan",
                 client |-> Stranger, sequence |-> 0]
      BY <2>1 DEF Unread
    <3>3. d \in Datagram
      <4>1. "response" \in Heads /\ "scan" \in Heads
        BY DEF Heads
      <4>2. \A b \in BOOLEAN, h \in Heads :
              [from |-> Stranger, whole |-> b, head |-> h,
               client |-> Stranger, sequence |-> 0] \in Datagram
        BY <3>1 DEF Datagram
      <4>3. QED
        BY <3>2, <4>1, <4>2
    <3>4. d.head = "response" \/ d.whole = FALSE
      BY <3>2
    <3>5. QED
      BY <3>3, <3>4 DEF Passes
  <2>3. asked' = asked
    BY <1>2 DEF Noise
  <2>4. QED
    <3>1. DiscoveryTypeOK'
      BY <1>1, <2>1, <2>2, <2>3 DEF DiscoveryTypeOK
    <3>2. \A x : Asked(x)' <=> Asked(x)
      BY <2>3 DEF Asked
    <3>3. Genuine'
      BY <1>1, <2>1, <2>2, <3>2 DEF DiscoveryInv, NetInv, Genuine, Passes
    <3>4. AnswersAsked'
      BY <1>1, <2>3 DEF DiscoveryInv, NetInv, AnswersAsked
    <3>5. QED
      BY <3>1, <3>3, <3>4 DEF NetInv
<1>3. ASSUME NEW c \in Clients, Scan(c)
      PROVE  NetInv'
  <2> DEFINE d == [Request(c) EXCEPT !.sequence = asked[c] + 1]
  <2>1. /\ asked[c] \in Nat /\ asked[c] + 1 \in Sequences
        /\ asked' = [asked EXCEPT ![c] = @ + 1]
        /\ wire' \in {wire, wire \cup {d}}
    BY <1>1, <1>3, WireAssumption DEF Scan, Sequences
  <2>2. /\ asked' \in [Clients -> Sequences] /\ asked'[c] = asked[c] + 1
        /\ \A b \in Clients : 1..asked[b] \subseteq 1..asked'[b]
    <3>1. \A b \in Clients : asked[b] \in Int
      BY <1>1, WireAssumption DEF Sequences
    <3>2. QED
      BY <1>1, <2>1, <3>1
  <2>3. d \in Datagram
    BY <1>1, <2>1, RequestIsDatagram
  <2>4. d.from = c /\ d.client = c /\ d.sequence = asked[c] + 1
    BY DEF Request
  <2>5. asked[c] + 1 \in 1..asked'[c]
    BY <2>1, <2>2
  <2> HIDE DEF d
  <2>6. \A x : Asked(x) => /\ x.from \in Clients /\ x.client = x.from
                            /\ x.sequence \in 1..asked'[x.from]
    BY <2>2 DEF Asked
  <2>7. Genuine'
    <3>1. \A x \in wire \cup {buffer} : Passes(x) => Asked(x)
      BY DEF DiscoveryInv, NetInv, Genuine
    <3>2. \A x \in wire \cup {buffer} \cup {d} : Passes(x) =>
            x.from \in Clients /\ x.client = x.from /\ x.sequence \in 1..asked'[x.from]
      BY <2>6, <2>4, <2>5, <3>1
    <3>3. wire' \subseteq wire \cup {d} /\ buffer' = buffer
      BY <1>1, <2>1
    <3>4. QED
      BY <3>2, <3>3 DEF Genuine, Passes, Asked
  <2>8. AnswersAsked'
    BY <1>1, <2>2 DEF DiscoveryInv, NetInv, AnswersAsked
  <2>9. DiscoveryTypeOK'
    BY <1>1, <2>1, <2>2, <2>3 DEF DiscoveryTypeOK
  <2>10. QED
    BY <2>7, <2>8, <2>9 DEF NetInv
<1>4. ASSUME NEW c \in Clients, Retry(c)
      PROVE  NetInv'
  <2>1. wire' = wire \cup {Request(c)} /\ asked' = asked /\ asked[c] > 0
    BY <1>4 DEF Retry, Wanting
  <2>2. Request(c) \in Datagram
    BY <1>1, RequestIsDatagram, WireAssumption DEF Sequences
  <2>3. Asked(Request(c))
    <3>1. asked[c] \in 1..asked[c]
      BY <1>1, <2>1, WireAssumption DEF Sequences
    <3>2. QED
      BY <3>1 DEF Asked, Request
  <2>4. QED
    BY <1>1, <2>1, <2>2, <2>3
    DEF DiscoveryInv, NetInv, DiscoveryTypeOK, Genuine, Asked, Passes, AnswersAsked
<1>5. QED
  BY <1>2, <1>3, <1>4

(* A datagram goes through main_loop's buffer. *)
LEMMA HandleKeeps ==
    ASSUME DiscoveryInv, TypeOK', DiscoveryStep
    PROVE  NetInv'
<1>1. /\ asked \in [Clients -> Sequences] /\ wire \subseteq Datagram
      /\ buffer \in Datagram /\ answers \subseteq Response
  BY DEF DiscoveryInv, NetInv, DiscoveryTypeOK
<1>2. asked' = asked
  BY DEF DiscoveryStep, Receive, Answer, AnswerLost, Ignore, Elsewhere, net
<1>3. CASE Receive
  <2>1. PICK d \in wire :
          /\ wire' \in {wire, wire \ {d}} /\ answers' = answers
          /\ buffer' = IF d.whole THEN d
                       ELSE [buffer EXCEPT !.from = d.from, !.whole = FALSE,
                                           !.head = d.head]
    BY <1>3 DEF Receive
  <2>2. d \in Datagram
    BY <1>1, <2>1
  <2>3. buffer' \in Datagram
    BY <1>1, <2>1, <2>2 DEF Datagram
  <2>4. Passes(buffer') => buffer' = d
    BY <1>1, <2>1, <2>2 DEF Passes, Datagram
  <2>5. QED
    BY <1>1, <1>2, <2>1, <2>3, <2>4
    DEF DiscoveryInv, NetInv, DiscoveryTypeOK, Genuine, Asked, Passes, AnswersAsked
<1>4. CASE Answer \/ AnswerLost
  <2> DEFINE a == [to |-> buffer.from, client |-> buffer.client,
                   sequence |-> buffer.sequence]
  <2>1. /\ wire' = wire /\ buffer' = [buffer EXCEPT !.head = "response"]
        /\ answers' = answers \/ answers' = answers \cup {a}
        /\ Passes(buffer)
    BY <1>4 DEF Answer, AnswerLost, Answering, Parsed, Passes
  <2>2. buffer' \in Datagram /\ ~Passes(buffer')
    BY <1>1, <2>1 DEF Datagram, Heads, Passes
  <2>3. a \in Response
    BY <1>1 DEF Datagram, Response
  <2>4. a.to \in Clients /\ a.client = a.to /\ a.sequence \in 1..asked[a.to]
    BY <2>1 DEF DiscoveryInv, NetInv, Genuine, Asked
  <2> HIDE DEF a
  <2>5. QED
    BY <1>1, <1>2, <2>1, <2>2, <2>3, <2>4
    DEF DiscoveryInv, NetInv, DiscoveryTypeOK, Genuine, Asked, Passes, AnswersAsked
<1>5. CASE Ignore \/ Elsewhere
  <2>1. wire' \subseteq wire /\ buffer' \in {buffer, Unread} /\ answers' = answers
    BY <1>5 DEF Ignore, Elsewhere, net
  <2>2. QED
    BY <1>1, <1>2, <2>1, UnreadIsDatagram
    DEF DiscoveryInv, NetInv, DiscoveryTypeOK, Genuine, Asked, Passes, AnswersAsked
<1>6. QED
  BY <1>3, <1>4, <1>5 DEF DiscoveryStep

LEMMA StepDiscoveryInv == DiscoveryInv /\ [DiscoveryNext]_allVars => DiscoveryInv'
<1> SUFFICES ASSUME DiscoveryInv, [DiscoveryNext]_allVars PROVE DiscoveryInv'
  OBVIOUS
<1>1. [Next]_vars
  BY StepLifecycle
<1>2. LifeInv' /\ TypeOK'
  BY <1>1, StepLifeInv DEF DiscoveryInv, LifeInv
<1>3. Addressed'
  BY <1>1, StepAddressed DEF DiscoveryInv
<1>4. NetInv'
  <2>1. CASE DiscoveryNext
    BY <2>1, <1>2, SendKeeps, HandleKeeps DEF DiscoveryNext
  <2>2. CASE UNCHANGED allVars
    BY <1>2, <2>2
    DEF allVars, net, DiscoveryInv, NetInv, DiscoveryTypeOK, Genuine, Asked, Passes,
        AnswersAsked
  <2>3. QED
    BY <2>1, <2>2
<1>5. QED
  BY <1>2, <1>3, <1>4 DEF DiscoveryInv

LEMMA SpecDiscoveryInv == DiscoverySpec => []DiscoveryInv
  BY InitDiscoveryInv, StepDiscoveryInv, PTL DEF DiscoverySpec

-----------------------------------------------------------------------------
(* The datagrams, the buffer and the answers keep their types.             *)
THEOREM DiscoveryTypeCorrect == DiscoverySpec => []DiscoveryTypeOK
<1>1. DiscoveryInv => DiscoveryTypeOK
  BY DEF DiscoveryInv, NetInv
<1>2. QED
  BY <1>1, SpecDiscoveryInv, PTL

(* No answer goes to who has not asked, however the datagrams are lost,    *)
(* repeated and reordered, and whatever they leave in the one buffer.      *)
THEOREM OnlyRequestsAnswered == DiscoverySpec => []AnswersAsked
<1>1. DiscoveryInv => AnswersAsked
  BY DEF DiscoveryInv, NetInv
<1>2. QED
  BY <1>1, SpecDiscoveryInv, PTL

(* What an answer announces is on the interface when it is sent.           *)
THEOREM AnnouncedIsLive == DiscoverySpec => AnnouncesLive
<1>1. DiscoveryInv /\ [DiscoveryNext]_allVars
        => (answers' # answers => "controller" \in nic)
  <2> SUFFICES ASSUME DiscoveryInv, [DiscoveryNext]_allVars, answers' # answers
               PROVE  "controller" \in nic
    OBVIOUS
  <2>1. main = "handle"
    BY DEF DiscoveryNext, DiscoveryStep, Receive, Answer, AnswerLost, Answering, Ignore,
           Elsewhere, Noise, Scan, Retry, allVars, net
  <2>2. QED
    BY <2>1 DEF DiscoveryInv, Addressed
<1>2. QED
  BY <1>1, SpecDiscoveryInv, PTL DEF DiscoverySpec, AnnouncesLive

(* The properties of the process hold with its datagrams as without them.  *)
THEOREM DiscoveryLifecycle ==
    DiscoverySpec => [](ResourcesLive /\ ExitIsOrderly /\ StraysOnlyAtStop)
<1>1. LifeInv => ResourcesLive /\ ExitIsOrderly /\ StraysOnlyAtStop
  BY DEF ResourcesLive, ExitIsOrderly, StraysOnlyAtStop, Alive, LifeInv, TypeOK,
         MainHolds, ServerWithin, PollerWithin, AddressesWithin, ContextWithin,
         ServerOwns, Owners, All, Serving, Stopping, ServerRuns, PollerRuns
<1>2. DiscoveryInv => LifeInv
  BY DEF DiscoveryInv
<1>3. QED
  BY <1>1, <1>2, SpecDiscoveryInv, PTL
=============================================================================
