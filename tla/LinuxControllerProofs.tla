------------------------ MODULE LinuxControllerProofs ------------------------
(***************************************************************************)
(* Proofs about LinuxController, for any number of devices and any pool:   *)
(* owners have addresses of their own, each is given out once, and between *)
(* cycles the interface has those of the devices that are there.           *)
(***************************************************************************)
EXTENDS LinuxController, TLAPS

-----------------------------------------------------------------------------
(* The inductive invariant.  Below: what is allocated lies below the       *)
(* counter.  Fresh: before main has made the pool no thread is there and   *)
(* nobody has an address.  Handed: so long as the pool is main's, every    *)
(* address an owner has lies below the counter, that taken back included.  *)
Below == allocated \subseteq 0..(counter - 1)
Unborn == {"exited", "init"}
Fresh == main \in Unborn =>
    /\ ua = "none" /\ poll = "none"
    /\ ~ready /\ counter = 0 /\ allocated = {}
    /\ alloc = [t \in Callers |-> Idle]
    /\ hold[Controller] = None
    /\ \A o \in Owners : hold[o] \notin Pool
Handed == ready => \A o \in Owners : hold[o] \in Pool => hold[o] < counter

(* Main allocates for the controller only, the poller never does; who asks *)
(* has no address yet, who has been given one keeps it till the call ends. *)
CallersApart ==
    /\ alloc["main"].for = Controller
    /\ alloc["main"].at # "none" => main = "allocate"
    /\ alloc["poll"].at # "none" => alloc["poll"].for # Controller
CallShape(t) ==
    /\ alloc[t].at \in {"parse", "generate"} => hold[alloc[t].for] = None
    /\ alloc[t].at \in {"add", "map", "ok"} => hold[alloc[t].for] \in Pool
Own == main \in {"loop", "receive", "release"} => hold[Controller] \in Pool
Managed == poll \in {"device", "node", "variable", "value", "unset"} => cur \in Devices

Shapes == Fresh /\ CallersApart /\ (\A t \in Callers : CallShape(t)) /\ Own
Numbers == Below /\ Handed /\ AddressesDistinct
Inv == TypeOK /\ Managed /\ Shapes /\ Numbers

LEMMA OwnerFacts ==
    /\ Controller \in Owners
    /\ \A d \in Devices : /\ Address(d) \in Owners /\ Variable(d) \in Owners
                          /\ Address(d) # Controller /\ Variable(d) # Controller
  BY CountAssumption DEF Owners, Controller, Address, Variable, Devices

LEMMA PoolFacts ==
    /\ Pool \subseteq Nat /\ None \notin Pool /\ Garbage \notin Pool
    /\ 0 \in 0..(Last + 1)
  BY CountAssumption, MarkAssumption DEF Pool

(* The search of generate_ipv6_address stops at once. *)
LEMMA CandidateIsCounter ==
    ASSUME Below, counter \in 0..(Last + 1), allocated \subseteq Pool
    PROVE  Candidate = counter
<1> DEFINE S == {c \in counter..(Last + 1) : c \notin allocated}
<1>1. counter \in S /\ \A c \in S : counter =< c
  BY CountAssumption DEF Below
<1>2. S \subseteq Int
  BY CountAssumption
<1>3. \A x \in S : (\A y \in S : x =< y) => x = counter
  BY <1>1, <1>2
<1>4. (CHOOSE x \in S : \A y \in S : x =< y) = counter
  BY <1>1, <1>3
<1>5. QED
  BY <1>4 DEF Candidate, Min

LEMMA InitInv == Init => Inv
<1> SUFFICES ASSUME Init PROVE Inv
  OBVIOUS
<1> USE DEF Init, Ended
<1>1. /\ hold \in [Owners -> {None}] /\ Idle \in [for : Owners, at : Steps]
      /\ DeviceCount \in Nat /\ Last \in Nat
  BY OwnerFacts, CountAssumption DEF Idle, Steps
<1>2. TypeOK
  <2>1. /\ alloc \in [Callers -> [for : Owners, at : Steps]]
        /\ hold \in [Owners -> Pool \cup {None, Garbage}]
        /\ node \in [Devices -> BOOLEAN]
    BY <1>1
  <2>2. counter \in 0..(Last + 1) /\ cur \in 1..(DeviceCount + 1)
    BY <1>1
  <2>3. QED
    BY <2>1, <2>2 DEF TypeOK
<1>3. Shapes /\ Managed
  BY <1>1, OwnerFacts, PoolFacts
  DEF Shapes, Fresh, Unborn, CallersApart, CallShape, Own, Managed, Idle, Callers
<1>4. Numbers
  BY DEF Numbers, Below, Handed, AddressesDistinct
<1>5. QED
  BY <1>2, <1>3, <1>4 DEF Inv

-----------------------------------------------------------------------------
(* What leaves the pool, the calls and the owners' addresses alone.        *)
Calm == /\ ready' = ready /\ counter' = counter /\ allocated' = allocated
        /\ alloc' = alloc /\ hold' = hold
Loop == {"loop", "receive", "release"}
SamePlace == /\ main' \in Unborn => main \in Unborn /\ ua' = ua /\ poll' = poll
             /\ main = "allocate" => main' = "allocate"
             /\ main' \in Loop => main \in Loop

LEMMA CalmKeeps ==
    ASSUME Shapes, Numbers, Calm, SamePlace
    PROVE  Shapes' /\ Numbers'
<1> USE DEF Calm, SamePlace
<1>1. Numbers'
  BY DEF Numbers, Below, Handed, AddressesDistinct
<1>2. Shapes'
  BY DEF Shapes, Fresh, Unborn, Loop, CallersApart, CallShape, Own
<1>3. QED
  BY <1>1, <1>2

(* Commands about an address of the pool. *)
LEMMA CommandsKeep ==
    ASSUME nic \subseteq Pool, refused \subseteq Pool, NEW a \in Pool,
           Put(a) \/ PutRefused(a) \/ TakeOff(a)
    PROVE  nic' \subseteq Pool /\ refused' \subseteq Pool
  BY DEF Put, PutRefused, TakeOff

LEMMA MainCalm ==
    ASSUME Inv, LoopTop \/ Packet \/ UnmapOwn
    PROVE  Inv'
<1>1. TypeOK' /\ Managed'
  BY DEF Inv, TypeOK, Managed, LoopTop, Packet, UnmapOwn, MainGoes, MainOnly,
         flags, cycle, pool, interface
<1>2. Calm /\ SamePlace
  BY DEF Calm, SamePlace, Unborn, Loop, LoopTop, Packet, UnmapOwn, MainGoes, MainOnly,
         pool
<1>3. QED
  BY <1>1, <1>2, CalmKeeps DEF Inv

LEMMA OthersCalm ==
    ASSUME Inv, Stop \/ PrintMappings \/ EndPrinting
    PROVE  Inv'
<1>1. TypeOK' /\ Managed'
  BY DEF Inv, TypeOK, Managed, Stop, PrintMappings, EndPrinting, PrintOnly,
         threads, flags, cycle, pool, interface
<1>2. Calm /\ SamePlace
  BY DEF Calm, SamePlace, Unborn, Loop, Stop, PrintMappings, EndPrinting, PrintOnly,
         threads, pool
<1>3. QED
  BY <1>1, <1>2, CalmKeeps DEF Inv

LEMMA ServerCalm ==
    ASSUME Inv, ServerStep \/ RunEnds
    PROVE  Inv'
<1> USE DEF ServerStep, TakeSignals, StartThreads, SetupFails, RunEnds, JoinPolling,
            CancelPrinting, ServerGoes, ServerOnly
<1>1. TypeOK' /\ Managed'
  BY DEF Inv, TypeOK, Managed, cycle, pool, interface
<1>2. main \notin Unborn
  BY DEF Inv, Shapes, Fresh
<1>3. Calm /\ SamePlace
  BY <1>2 DEF Calm, SamePlace, pool
<1>4. QED
  BY <1>1, <1>3, CalmKeeps DEF Inv

(* The poller's own steps that call nobody. *)
LEMMA PollCalm ==
    ASSUME Inv, Connect \/ ReadFails \/ ReadAll \/ PollEnds \/ EndManaging
                \/ KeepDevice \/ ReuseDevice \/ CreateNode \/ ReuseVariable
                \/ RemoveDevice \/ RemoveNodes
    PROVE  Inv'
<1> USE DEF PollGoes, PollOnly
<1>1. main \notin Unborn
  BY DEF Inv, Shapes, Fresh, Connect, ReadFails, ReadAll, PollEnds, EndManaging,
         KeepDevice, ReuseDevice, CreateNode, ReuseVariable, RemoveDevice, RemoveNodes
<1>2. Calm /\ SamePlace
  BY <1>1 DEF Calm, SamePlace, flags, pool, Connect, ReadFails, ReadAll, PollEnds,
         EndManaging, KeepDevice, ReuseDevice, CreateNode, ReuseVariable, RemoveDevice,
         RemoveNodes, Ensure
<1>3. Shapes' /\ Numbers'
  BY <1>2, CalmKeeps DEF Inv
<1>4. cur \in 1..(DeviceCount + 1) /\ online \subseteq Devices /\ connected \in BOOLEAN
  BY DEF Inv, TypeOK
<1>5. cur' \in 1..(DeviceCount + 1) /\ connected' \in BOOLEAN
  <2>1. \/ cur' = cur \/ cur' = 1
        \/ cur \in Devices /\ cur' = cur + 1
    BY DEF Connect, ReadFails, ReadAll, PollEnds, EndManaging, KeepDevice, ReuseDevice,
           CreateNode, ReuseVariable, RemoveDevice, RemoveNodes, Ensure, NextDevice,
           Inv, Managed, cycle
  <2>2. connected' \in BOOLEAN
    BY <1>4 DEF Connect, ReadFails, ReadAll, PollEnds, EndManaging, KeepDevice,
                ReuseDevice, CreateNode, ReuseVariable, RemoveDevice, RemoveNodes,
                Ensure, NextDevice, cycle
  <2>3. QED
    BY <1>4, <2>1, <2>2, CountAssumption DEF Devices
<1>6. online' \subseteq Devices
  BY <1>4
  DEF Connect, ReadFails, ReadAll, PollEnds, EndManaging, KeepDevice, ReuseDevice,
      CreateNode, ReuseVariable, RemoveDevice, RemoveNodes, Ensure, NextDevice, cycle
<1>7. node' \in [Devices -> BOOLEAN]
  BY DEF Inv, TypeOK, Connect, ReadFails, ReadAll, PollEnds, EndManaging, KeepDevice,
         ReuseDevice, CreateNode, ReuseVariable, RemoveDevice, RemoveNodes, Ensure
<1>8. nic' \subseteq Pool /\ refused' \subseteq Pool
  <2>1. nic \subseteq Pool /\ refused \subseteq Pool
    BY DEF Inv, TypeOK
  <2>2. \/ UNCHANGED interface
        \/ \E a \in Pool : Put(a) \/ PutRefused(a) \/ TakeOff(a)
    BY DEF Connect, ReadFails, ReadAll, PollEnds, EndManaging, KeepDevice, ReuseDevice,
           CreateNode, ReuseVariable, RemoveDevice, RemoveNodes, Ensure, RemoveFor
  <2>3. QED
    BY <2>1, <2>2, CommandsKeep DEF interface
<1>9. poll' \in {"none", "top", "manage", "device", "node", "variable", "value", "unset",
                 "done"}
  BY DEF Connect, ReadFails, ReadAll, PollEnds, EndManaging, KeepDevice, ReuseDevice,
         CreateNode, ReuseVariable, RemoveDevice, RemoveNodes
<1>10. UNCHANGED <<main, ua, print, handler, gRunning, running, mapLock>>
  BY DEF Connect, ReadFails, ReadAll, PollEnds, EndManaging, KeepDevice, ReuseDevice,
         CreateNode, ReuseVariable, RemoveDevice, RemoveNodes, Ensure, flags
<1>11. TypeOK'
  BY <1>2, <1>5, <1>6, <1>7, <1>8, <1>9, <1>10 DEF Inv, TypeOK, Calm
<1>12. Managed'
  BY DEF Inv, Managed, Connect, ReadFails, ReadAll, PollEnds, EndManaging, KeepDevice,
         ReuseDevice, CreateNode, ReuseVariable, RemoveDevice, RemoveNodes, Ensure,
         Changed, cycle
<1>13. QED
  BY <1>3, <1>11, <1>12 DEF Inv

-----------------------------------------------------------------------------
(* The process ends, and starts anew. *)
LEMMA EndKeeps ==
    ASSUME Inv, End
    PROVE  Inv'
<1> USE DEF End
<1>1. /\ hold' \in [Owners -> {None}] /\ Idle \in [for : Owners, at : Steps]
      /\ DeviceCount \in Nat /\ Last \in Nat
  BY OwnerFacts, CountAssumption DEF Idle, Steps
<1>2. TypeOK'
  <2>1. /\ alloc' \in [Callers -> [for : Owners, at : Steps]]
        /\ hold' \in [Owners -> Pool \cup {None, Garbage}]
        /\ node' \in [Devices -> BOOLEAN]
    BY <1>1
  <2>2. counter' \in 0..(Last + 1) /\ cur' \in 1..(DeviceCount + 1)
    BY <1>1
  <2>3. nic' \subseteq Pool
    BY DEF Inv, TypeOK
  <2>4. QED
    BY <2>1, <2>2, <2>3 DEF TypeOK
<1>3. Shapes' /\ Managed'
  BY <1>1, OwnerFacts, PoolFacts
  DEF Shapes, Fresh, Unborn, CallersApart, CallShape, Own, Managed, Idle, Callers
<1>4. Numbers'
  BY DEF Numbers, Below, Handed, AddressesDistinct
<1>5. QED
  BY <1>2, <1>3, <1>4 DEF Inv

LEMMA StartKeeps ==
    ASSUME Inv, Start
    PROVE  Inv'
<1> USE DEF Start, flags, pool, interface, cycle
<1>1. \A o \in Owners : hold'[o] \in {None, Garbage}
  OBVIOUS
<1>2. hold'[Controller] = None
  BY <1>1, OwnerFacts
<1>3. TypeOK'
  BY DEF Inv, TypeOK
<1>4. Managed'
  BY DEF Inv, Managed
<1>5. Shapes'
  BY <1>1, <1>2, PoolFacts
  DEF Inv, Shapes, Fresh, Unborn, CallersApart, CallShape, Own, Idle, Callers
<1>6. Numbers'
  BY <1>1, PoolFacts DEF Inv, Numbers, Below, Handed, AddressesDistinct, Shapes, Fresh, Unborn
<1>7. QED
  BY <1>3, <1>4, <1>5, <1>6 DEF Inv

-----------------------------------------------------------------------------
(* A step of a call that leaves the pool and the addresses as they are.    *)
LEMMA CallFacts ==
    ASSUME Inv, NEW t \in Callers, NEW from, NEW to \in Steps, from # "none",
           CallGoes(t, from, to)
    PROVE  /\ main \notin Unborn
           /\ alloc[t] \in [for : Owners, at : Steps] /\ alloc[t].at = from
           /\ alloc' \in [Callers -> [for : Owners, at : Steps]]
           /\ \A u \in Callers \ {t} : alloc'[u] = alloc[u]
           /\ to = "none" => alloc'[t] = Idle
           /\ to # "none" => alloc'[t].for = alloc[t].for /\ alloc'[t].at = to
<1> USE DEF CallGoes
<1>1. alloc \in [Callers -> [for : Owners, at : Steps]]
  BY DEF Inv, TypeOK
<1>2. Idle \in [for : Owners, at : Steps]
  BY OwnerFacts DEF Idle, Steps
<1>3. main \notin Unborn
  BY DEF Inv, Shapes, Fresh, Idle
<1>4. alloc[t] \in [for : Owners, at : Steps]
  BY <1>1
<1>5. [alloc[t] EXCEPT !.at = to] \in [for : Owners, at : Steps]
  BY <1>4
<1>6. QED
  BY <1>1, <1>2, <1>3, <1>4, <1>5

LEMMA CallSteps ==
    ASSUME Inv, NEW t \in Callers,
           ParsePool(t) \/ Exhausted(t) \/ AddAddress(t) \/ MapAddress(t)
    PROVE  Inv'
<1> DEFINE f == alloc[t].at
           g == alloc'[t].at
<1>1. \E to \in Steps \ {"none"} : CallGoes(t, f, to) /\ f # "none"
  BY DEF ParsePool, Exhausted, AddAddress, MapAddress, CallGoes, Steps
<1>2. /\ main \notin Unborn
      /\ alloc[t] \in [for : Owners, at : Steps]
      /\ alloc' \in [Callers -> [for : Owners, at : Steps]]
      /\ \A u \in Callers \ {t} : alloc'[u] = alloc[u]
      /\ alloc'[t].for = alloc[t].for
  BY <1>1, CallFacts
<1>3. /\ f # "none"
      /\ g \in {"parse", "generate"} => f \in {"parse", "generate"}
      /\ g \in {"add", "map", "ok"} => f \in {"add", "map", "ok"}
  BY CallFacts DEF ParsePool, Exhausted, AddAddress, MapAddress, Steps
<1>4. /\ UNCHANGED <<threads, flags, mapLock, node, cycle>> /\ UNCHANGED <<pool, hold>>
  BY DEF ParsePool, Exhausted, AddAddress, MapAddress, CallOnly, pool
<1>5. nic' \subseteq Pool /\ refused' \subseteq Pool
  <2>1. nic \subseteq Pool /\ refused \subseteq Pool
    BY DEF Inv, TypeOK
  <2>2. CASE ~AddAddress(t)
    BY <2>1, <2>2 DEF ParsePool, Exhausted, MapAddress, interface
  <2>3. CASE AddAddress(t)
    <3>1. hold[alloc[t].for] \in Pool
      BY <2>3 DEF AddAddress, CallGoes, Inv, Shapes, CallShape
    <3>2. Put(hold[alloc[t].for])
      BY <2>3 DEF AddAddress
    <3>3. QED
      BY <2>1, <3>1, <3>2, CommandsKeep
  <2>4. QED
    BY <2>2, <2>3
<1>6. TypeOK'
  BY <1>2, <1>4, <1>5 DEF Inv, TypeOK, threads, flags, cycle, pool
<1>7. Managed'
  BY <1>4 DEF Inv, Managed, threads, cycle
<1>8. Numbers'
  BY <1>4 DEF Inv, Numbers, Below, Handed, AddressesDistinct, pool
<1>9. Shapes'
  <2>1. Fresh' /\ Own'
    BY <1>2, <1>4 DEF Inv, Shapes, Fresh, Own, threads, Unborn
  <2>2. CallersApart'
    BY <1>2, <1>3, <1>4 DEF Inv, Shapes, CallersApart, threads, Callers
  <2>3. \A u \in Callers : CallShape(u)'
    BY <1>2, <1>3, <1>4 DEF Inv, Shapes, CallShape, Callers
  <2>4. QED
    BY <2>1, <2>2, <2>3 DEF Shapes
<1>10. QED
  BY <1>6, <1>7, <1>8, <1>9 DEF Inv

(* An address is given out: it is the counter's, above all that were.      *)
LEMMA GenerateFacts ==
    ASSUME Inv, NEW t \in Callers, Generate(t)
    PROVE  /\ counter \in Pool \ allocated /\ alloc[t].for \in Owners
           /\ counter' = counter + 1 /\ allocated' = allocated \cup {counter}
           /\ hold' = [hold EXCEPT ![alloc[t].for] = counter]
           /\ hold[alloc[t].for] = None
           /\ ready' = ready
           /\ hold' \in [Owners -> Pool \cup {None, Garbage}]
           /\ hold'[alloc[t].for] = counter
           /\ \A o \in Owners \ {alloc[t].for} : hold'[o] = hold[o]
<1>1. Candidate = counter
  BY CandidateIsCounter DEF Inv, Numbers, TypeOK
<1>2. counter \notin allocated
  BY CountAssumption DEF Inv, Numbers, Below, TypeOK
<1>3. alloc[t].for \in Owners
  BY DEF Inv, TypeOK
<1>4. hold[alloc[t].for] = None
  BY DEF Inv, Shapes, CallShape, Generate, CallGoes
<1>5. hold \in [Owners -> Pool \cup {None, Garbage}]
  BY DEF Inv, TypeOK
<1>6. /\ counter \in Pool /\ counter' = counter + 1 /\ ready' = ready
      /\ allocated' = allocated \cup {counter}
      /\ hold' = [hold EXCEPT ![alloc[t].for] = counter]
  BY <1>1 DEF Generate
<1>7. /\ hold' \in [Owners -> Pool \cup {None, Garbage}]
      /\ hold'[alloc[t].for] = counter
      /\ \A o \in Owners \ {alloc[t].for} : hold'[o] = hold[o]
  BY <1>3, <1>5, <1>6
<1>8. QED
  BY <1>2, <1>3, <1>4, <1>6, <1>7

LEMMA GenerateKeeps ==
    ASSUME Inv, NEW t \in Callers, Generate(t)
    PROVE  Inv'
<1> DEFINE me == alloc[t].for
<1>1. /\ main \notin Unborn /\ alloc[t].at = "generate"
      /\ alloc' \in [Callers -> [for : Owners, at : Steps]]
      /\ \A u \in Callers \ {t} : alloc'[u] = alloc[u]
      /\ alloc'[t].for = me /\ alloc'[t].at = "add"
  <2>1. CallGoes(t, "generate", "add") /\ "add" \in Steps
    BY DEF Generate, Steps
  <2>2. QED
    BY <2>1, CallFacts
<1>2. /\ counter \in Pool \ allocated /\ me \in Owners
      /\ counter' = counter + 1 /\ allocated' = allocated \cup {counter}
      /\ ready' = ready
      /\ hold' \in [Owners -> Pool \cup {None, Garbage}]
      /\ hold'[me] = counter
      /\ \A o \in Owners \ {me} : hold'[o] = hold[o]
  BY GenerateFacts
<1>3. UNCHANGED <<threads, flags, mapLock, node, cycle>> /\ UNCHANGED interface
  BY DEF Generate, CallOnly
<1> HIDE DEF me
<1>4. TypeOK'
  <2>1. counter' \in 0..(Last + 1) /\ allocated' \subseteq Pool
    BY <1>2, CountAssumption DEF Pool, Inv, TypeOK
  <2>2. QED
    BY <1>1, <1>2, <1>3, <2>1 DEF Inv, TypeOK, threads, flags, cycle, interface
<1>5. Managed'
  BY <1>3 DEF Inv, Managed, threads, cycle
<1>6. Numbers'
  <2>1. Below'
    BY <1>2, CountAssumption DEF Inv, Numbers, Below, Pool
  <2>2. Handed'
    <3> SUFFICES ASSUME ready, NEW o \in Owners, hold'[o] \in Pool
                 PROVE  hold'[o] < counter'
      BY <1>2 DEF Handed
    <3>1. o # me => hold[o] < counter /\ hold[o] \in Nat /\ counter \in Nat
      BY <1>2 DEF Inv, Numbers, Handed, Pool
    <3>2. QED
      BY <1>2, <3>1 DEF Pool
  <2>3. AddressesDistinct'
    <3> SUFFICES ASSUME ready, NEW o \in Owners, NEW p \in Owners, o # p,
                        hold'[o] \in Pool, hold'[o] = hold'[p]
                 PROVE  FALSE
      BY <1>2 DEF AddressesDistinct
    <3>1. o # me /\ p # me => hold[o] # hold[p]
      BY <1>2 DEF Inv, Numbers, AddressesDistinct
    <3>2. \A q \in Owners \ {me} : hold[q] \in Pool => hold[q] < counter /\ counter \in Nat
      BY <1>2 DEF Inv, Numbers, Handed, Pool
    <3>3. \A q \in Owners \ {me} : hold[q] # counter
      BY <1>2, <3>2 DEF Pool
    <3>4. QED
      BY <1>2, <3>1, <3>3
  <2>4. QED
    BY <2>1, <2>2, <2>3 DEF Numbers
<1>7. Shapes'
  <2>1. Fresh' /\ Own'
    <3>1. main \in Loop => hold'[Controller] \in Pool
      BY <1>2, OwnerFacts DEF Inv, Shapes, Own, Loop
    <3>2. QED
      BY <1>1, <1>3, <3>1 DEF Fresh, Own, threads, Unborn, Loop
  <2>2. CallersApart'
    BY <1>1, <1>3 DEF Inv, Shapes, CallersApart, threads, Callers, me
  <2>3. \A u \in Callers \ {t} : alloc[u].at # "none" => alloc[u].for # me
    BY <1>1 DEF Inv, Shapes, CallersApart, Callers, me
  <2>4. \A u \in Callers \ {t} : CallShape(u)'
    <3> SUFFICES ASSUME NEW u \in Callers \ {t} PROVE CallShape(u)'
      OBVIOUS
    <3>1. alloc[u].at # "none" => hold'[alloc[u].for] = hold[alloc[u].for]
      BY <1>2, <2>3 DEF Inv, TypeOK
    <3>2. QED
      BY <1>1, <3>1 DEF Inv, Shapes, CallShape
  <2>5. CallShape(t)'
    BY <1>1, <1>2 DEF CallShape
  <2>6. QED
    BY <2>1, <2>2, <2>4, <2>5 DEF Shapes
<1>8. QED
  BY <1>4, <1>5, <1>6, <1>7 DEF Inv

(* The address goes back, and the counter does not.                        *)
LEMMA AddRefusedKeeps ==
    ASSUME Inv, NEW t \in Callers, AddRefused(t)
    PROVE  Inv'
<1>1. /\ main \notin Unborn /\ alloc[t].at = "add"
      /\ alloc' \in [Callers -> [for : Owners, at : Steps]]
      /\ \A u \in Callers \ {t} : alloc'[u] = alloc[u]
      /\ alloc'[t].for = alloc[t].for /\ alloc'[t].at = "failed"
  <2>1. CallGoes(t, "add", "failed") /\ "failed" \in Steps
    BY DEF AddRefused, Steps
  <2>2. QED
    BY <2>1, CallFacts
<1>2. /\ UNCHANGED <<threads, flags, mapLock, node, cycle>>
      /\ ready' = ready /\ counter' = counter /\ hold' = hold
      /\ allocated' \subseteq allocated
  BY DEF AddRefused, CallOnly
<1>3. nic' \subseteq Pool /\ refused' \subseteq Pool
  <2>1. hold[alloc[t].for] \in Pool /\ PutRefused(hold[alloc[t].for])
    BY <1>1 DEF AddRefused, Inv, Shapes, CallShape
  <2>2. QED
    BY <2>1, CommandsKeep DEF Inv, TypeOK
<1>4. TypeOK'
  BY <1>1, <1>2, <1>3 DEF Inv, TypeOK, threads, flags, cycle
<1>5. Managed'
  BY <1>2 DEF Inv, Managed, threads, cycle
<1>6. Numbers'
  BY <1>2 DEF Inv, Numbers, Below, Handed, AddressesDistinct
<1>7. Shapes'
  <2>1. Fresh' /\ Own'
    BY <1>1, <1>2 DEF Inv, Shapes, Fresh, Own, threads, Unborn
  <2>2. CallersApart'
    BY <1>1, <1>2 DEF Inv, Shapes, CallersApart, threads, Callers
  <2>3. \A u \in Callers : CallShape(u)'
    BY <1>1, <1>2 DEF Inv, Shapes, CallShape, Callers
  <2>4. QED
    BY <2>1, <2>2, <2>3 DEF Shapes
<1>8. QED
  BY <1>4, <1>5, <1>6, <1>7 DEF Inv

-----------------------------------------------------------------------------
(* main asks, and is answered. *)
LEMMA InitialiseKeeps ==
    ASSUME Inv, Initialise
    PROVE  Inv'
<1> DEFINE Call == [for |-> Controller, at |-> "parse"]
<1>1. /\ main = "init" /\ main' = "allocate" /\ ready' = TRUE /\ ua' = "new"
      /\ alloc' = [alloc EXCEPT !["main"] = Call]
      /\ UNCHANGED <<poll, print, flags, counter, allocated, mapLock, interface,
                     hold, node, cycle>>
  BY DEF Initialise, MainGoes
<1>2. /\ poll = "none" /\ alloc = [t \in Callers |-> Idle] /\ hold[Controller] = None
      /\ \A o \in Owners : hold[o] \notin Pool
  BY <1>1 DEF Inv, Shapes, Fresh, Unborn
<1>3. Call \in [for : Owners, at : Steps]
  BY OwnerFacts DEF Steps
<1>4. /\ alloc' \in [Callers -> [for : Owners, at : Steps]]
      /\ alloc'["main"] = Call /\ alloc'["poll"] = Idle
  BY <1>1, <1>2, <1>3 DEF Inv, TypeOK, Callers
<1>5. TypeOK'
  BY <1>1, <1>4 DEF Inv, TypeOK, flags, interface, cycle
<1>6. Managed'
  BY <1>1 DEF Inv, Managed, cycle
<1>7. Numbers'
  BY <1>1, <1>2 DEF Inv, Numbers, Below, Handed, AddressesDistinct
<1>8. Shapes'
  BY <1>1, <1>2, <1>4 DEF Shapes, Fresh, Unborn, Own, CallersApart, CallShape, Callers, Idle
<1>9. QED
  BY <1>5, <1>6, <1>7, <1>8 DEF Inv

LEMMA OwnAnswered ==
    ASSUME Inv, OwnAllocated \/ OwnNotAllocated
    PROVE  Inv'
<1>1. /\ main = "allocate"
      /\ \/ main' = "loop" /\ alloc["main"].at = "ok"
         \/ main' = "cleanup"
      /\ UNCHANGED <<ua, poll, print, flags, node, cycle>>
      /\ UNCHANGED <<pool, mapLock, interface, hold>>
  BY DEF OwnAllocated, OwnNotAllocated, MainGoes, MainOnly, CallGoes
<1>2. /\ alloc' \in [Callers -> [for : Owners, at : Steps]]
      /\ alloc'["poll"] = alloc["poll"] /\ alloc'["main"] = Idle
  <2>1. \E from \in {"ok", "failed"} : CallGoes("main", from, "none")
    BY DEF OwnAllocated, OwnNotAllocated
  <2>2. "none" \in Steps /\ "main" \in Callers /\ "poll" \in Callers \ {"main"}
    BY DEF Steps, Callers
  <2>3. QED
    BY <2>1, <2>2, CallFacts
<1>3. main' = "loop" => hold[Controller] \in Pool
  BY <1>1 DEF Inv, Shapes, CallersApart, CallShape, Callers
<1>4. TypeOK'
  BY <1>1, <1>2 DEF Inv, TypeOK, flags, pool, interface, cycle
<1>5. Managed'
  BY <1>1 DEF Inv, Managed, cycle
<1>6. Numbers'
  BY <1>1 DEF Inv, Numbers, Below, Handed, AddressesDistinct, pool
<1>7. Shapes'
  BY <1>1, <1>2, <1>3 DEF Inv, Shapes, Fresh, Unborn, Own, CallersApart, CallShape, Callers, Idle
<1>8. QED
  BY <1>4, <1>5, <1>6, <1>7 DEF Inv

(* main gives its address back, and clears the pool. *)
LEMMA ReleaseKeeps ==
    ASSUME Inv, ReleaseOwn \/ FreeList \/ ClearPool
    PROVE  Inv'
<1>1. /\ main \in {"release", "cleanup", "clear"}
      /\ main' \in {"unmap", "clear", "return"}
      /\ UNCHANGED <<ua, poll, print, flags, node, cycle>>
      /\ UNCHANGED <<alloc, mapLock>>
      /\ allocated' \subseteq allocated
      /\ \/ ready' = ready /\ counter' = counter
         \/ ready' = FALSE /\ counter' = 0 /\ allocated' = {}
  BY DEF ReleaseOwn, FreeList, ClearPool, MainGoes, MainOnly
<1>2. hold \in [Owners -> Pool \cup {None, Garbage}]
  BY DEF Inv, TypeOK
<1>3. /\ hold' \in [Owners -> Pool \cup {None, Garbage}]
      /\ \A o \in Owners : o # Controller => hold'[o] = hold[o]
      /\ hold'[Controller] \in {hold[Controller], None}
  BY <1>2, OwnerFacts DEF ReleaseOwn, FreeList, ClearPool
<1>4. nic' \subseteq Pool /\ refused' \subseteq Pool
  <2>1. nic \subseteq Pool /\ refused \subseteq Pool
    BY DEF Inv, TypeOK
  <2>2. CASE ReleaseOwn
    <3>1. hold[Controller] \in Pool /\ TakeOff(hold[Controller])
      BY <2>2 DEF ReleaseOwn, MainGoes, Inv, Shapes, Own
    <3>2. QED
      BY <2>1, <3>1, CommandsKeep
  <2>3. CASE FreeList \/ ClearPool
    BY <2>1, <2>3 DEF FreeList, ClearPool, interface
  <2>4. QED
    BY <2>2, <2>3
<1>5. alloc["main"].at = "none"
  BY <1>1 DEF Inv, Shapes, CallersApart
<1>6. \A o \in Owners : hold'[o] \in Pool => hold'[o] = hold[o]
  BY <1>3, PoolFacts
<1>7. TypeOK'
  <2>1. counter' \in 0..(Last + 1) /\ allocated' \subseteq Pool /\ ready' \in BOOLEAN
    BY <1>1, PoolFacts DEF Inv, TypeOK
  <2>2. QED
    BY <1>1, <1>3, <1>4, <2>1 DEF Inv, TypeOK, flags, cycle
<1>8. Managed'
  BY <1>1 DEF Inv, Managed, cycle
<1>9. Numbers'
  <2>1. Below' /\ Handed'
    BY <1>1, <1>6 DEF Inv, Numbers, Below, Handed
  <2>2. AddressesDistinct'
    BY <1>1, <1>6 DEF Inv, Numbers, AddressesDistinct
  <2>3. QED
    BY <2>1, <2>2 DEF Numbers
<1>10. Shapes'
  <2>1. Fresh' /\ Own' /\ CallersApart'
    BY <1>1, <1>5 DEF Inv, Shapes, Fresh, Own, CallersApart, Unborn
  <2>2. CallShape("main")'
    BY <1>1, <1>5 DEF CallShape
  <2>3. CallShape("poll")'
    <3>1. alloc["poll"].at # "none" => hold'[alloc["poll"].for] = hold[alloc["poll"].for]
      BY <1>3 DEF Inv, TypeOK, Shapes, CallersApart, Callers
    <3>2. QED
      BY <1>1, <3>1 DEF Inv, Shapes, CallShape, Callers
  <2>4. QED
    BY <2>1, <2>2, <2>3 DEF Shapes, Callers
<1>11. QED
  BY <1>7, <1>8, <1>9, <1>10 DEF Inv

-----------------------------------------------------------------------------
(* The poller asks for an owner that has no address. *)
LEMMA AskKeeps ==
    ASSUME Inv, AllocateDevice \/ AllocateVariable
    PROVE  Inv'
<1>1. PICK o \in Owners \ {Controller} :
        /\ hold[o] = None
        /\ alloc' = [alloc EXCEPT !["poll"] = [for |-> o, at |-> "parse"]]
  <2>1. cur \in Devices
    BY DEF AllocateDevice, AllocateVariable, Changed, PollGoes, Inv, Managed
  <2>2. {Address(cur), Variable(cur)} \subseteq Owners \ {Controller}
    BY <2>1, OwnerFacts
  <2>3. QED
    BY <2>2 DEF AllocateDevice, AllocateVariable, AllocateFor
<1>2. /\ poll \in {"manage", "variable"} /\ poll' \in {"device", "value"}
      /\ UNCHANGED <<main, ua, print, flags, pool, mapLock>>
      /\ UNCHANGED <<interface, hold, node, cycle>>
      /\ cur \in Devices
  BY DEF AllocateDevice, AllocateVariable, AllocateFor, PollGoes, PollOnly, Changed,
         Inv, Managed
<1>3. [for |-> o, at |-> "parse"] \in [for : Owners, at : Steps]
  BY DEF Steps
<1>4. /\ alloc' \in [Callers -> [for : Owners, at : Steps]]
      /\ alloc'["main"] = alloc["main"]
      /\ alloc'["poll"].for = o /\ alloc'["poll"].at = "parse"
  BY <1>1, <1>3 DEF Inv, TypeOK, Callers
<1>5. TypeOK'
  BY <1>2, <1>4 DEF Inv, TypeOK, flags, pool, interface, cycle
<1>6. Managed'
  BY <1>2 DEF Managed, cycle
<1>7. Numbers'
  BY <1>2 DEF Inv, Numbers, Below, Handed, AddressesDistinct, pool
<1>8. Shapes'
  BY <1>1, <1>2, <1>4 DEF Inv, Shapes, Fresh, Unborn, Own, CallersApart, CallShape, Callers
<1>9. QED
  BY <1>5, <1>6, <1>7, <1>8 DEF Inv

(* It is answered; what was refused for a variable is forgotten.           *)
LEMMA AnsweredKeeps ==
    ASSUME Inv, DeviceAllocated \/ DeviceNotAllocated \/ EndAdding
    PROVE  Inv'
<1>1. /\ poll \in {"device", "value"} /\ poll' \in {"node", "manage"}
      /\ UNCHANGED <<main, ua, print, flags, pool, mapLock>>
      /\ UNCHANGED <<interface, node, connected, online>>
      /\ cur' \in {cur, cur + 1} /\ cur \in Devices
      /\ poll' = "node" => cur' = cur
  BY DEF DeviceAllocated, DeviceNotAllocated, EndAdding, PollGoes, PollOnly, NextDevice,
         Inv, Managed, cycle
<1>2. /\ alloc' \in [Callers -> [for : Owners, at : Steps]]
      /\ alloc'["main"] = alloc["main"] /\ alloc'["poll"] = Idle
  <2>1. alloc' = [alloc EXCEPT !["poll"] = Idle]
    BY DEF DeviceAllocated, DeviceNotAllocated, EndAdding, CallGoes
  <2>2. alloc \in [Callers -> [for : Owners, at : Steps]]
    BY DEF Inv, TypeOK
  <2>3. Idle \in [for : Owners, at : Steps]
    BY OwnerFacts DEF Idle, Steps
  <2>4. QED
    BY <2>1, <2>2, <2>3 DEF Callers
<1>3. hold \in [Owners -> Pool \cup {None, Garbage}]
  BY DEF Inv, TypeOK
<1>4. /\ hold' \in [Owners -> Pool \cup {None, Garbage}]
      /\ \A o \in Owners : hold'[o] \in {hold[o], None}
      /\ hold'[Controller] = hold[Controller]
  <2>1. Variable(cur) \in Owners \ {Controller}
    BY <1>1, OwnerFacts
  <2>2. hold' = hold \/ hold' = [hold EXCEPT ![Variable(cur)] = None]
    BY DEF DeviceAllocated, DeviceNotAllocated, EndAdding
  <2>3. QED
    BY <1>3, <2>1, <2>2, OwnerFacts
<1>5. \A o \in Owners : hold'[o] \in Pool => hold'[o] = hold[o]
  BY <1>4, PoolFacts
<1>6. TypeOK'
  <2>1. cur' \in 1..(DeviceCount + 1)
    BY <1>1, CountAssumption DEF Devices
  <2>2. QED
    BY <1>1, <1>2, <1>4, <2>1 DEF Inv, TypeOK, flags, pool, interface
<1>7. Managed'
  BY <1>1 DEF Managed
<1>8. Numbers'
  <2>1. Below' /\ Handed'
    BY <1>1, <1>5 DEF Inv, Numbers, Below, Handed, pool
  <2>2. AddressesDistinct'
    BY <1>1, <1>5 DEF Inv, Numbers, AddressesDistinct, pool
  <2>3. QED
    BY <2>1, <2>2 DEF Numbers
<1>9. Shapes'
  <2>1. Fresh' /\ Own'
    BY <1>1, <1>4 DEF Inv, Shapes, Fresh, Own, Unborn
  <2>2. CallersApart' /\ CallShape("poll")'
    BY <1>1, <1>2 DEF Inv, Shapes, CallersApart, CallShape, Idle
  <2>3. CallShape("main")'
    BY <1>2, <1>4 DEF Inv, Shapes, CallShape, CallersApart, Callers
  <2>4. QED
    BY <2>1, <2>2, <2>3 DEF Shapes, Callers
<1>10. QED
  BY <1>6, <1>7, <1>8, <1>9 DEF Inv

-----------------------------------------------------------------------------
LEMMA CallKeeps ==
    ASSUME Inv, NEW t \in Callers, AllocateStep(t)
    PROVE  Inv'
  BY CallSteps, GenerateKeeps, AddRefusedKeeps DEF AllocateStep

LEMMA MainKeeps ==
    ASSUME Inv, MainStep
    PROVE  Inv'
<1>1. "main" \in Callers
  BY DEF Callers
<1>2. InitialiseFails \/ Return => End
  BY DEF InitialiseFails, Return
<1>3. QED
  BY <1>1, <1>2, InitialiseKeeps, EndKeeps, OwnAnswered, MainCalm, ReleaseKeeps, CallKeeps
  DEF MainStep

LEMMA PollKeeps ==
    ASSUME Inv, PollStep
    PROVE  Inv'
<1>1. "poll" \in Callers
  BY DEF Callers
<1>2. QED
  BY <1>1, PollCalm, AskKeeps, AnsweredKeeps, CallKeeps DEF PollStep

LEMMA NextInv == Inv /\ [Next]_vars => Inv'
<1> SUFFICES ASSUME Inv, [Next]_vars PROVE Inv'
  OBVIOUS
<1>1. CASE MainStep
  BY <1>1, MainKeeps
<1>2. CASE ServerStep \/ RunEnds
  BY <1>2, ServerCalm
<1>3. CASE PollStep
  BY <1>3, PollKeeps
<1>4. CASE PrintMappings \/ EndPrinting \/ Stop
  BY <1>4, OthersCalm
<1>5. CASE Kill
  BY <1>5, EndKeeps DEF Kill
<1>6. CASE Start
  BY <1>6, StartKeeps
<1>7. CASE UNCHANGED vars
  <2>1. UNCHANGED <<threads, flags, pool, alloc, mapLock, interface, hold, node, cycle>>
    BY <1>7 DEF vars
  <2>2. Calm /\ SamePlace
    BY <2>1 DEF Calm, SamePlace, threads, pool
  <2>3. Shapes' /\ Numbers'
    BY <2>2, CalmKeeps DEF Inv
  <2>4. TypeOK' /\ Managed'
    BY <2>1 DEF Inv, TypeOK, Managed, threads, flags, pool, interface, cycle
  <2>5. QED
    BY <2>3, <2>4 DEF Inv
<1>8. QED
  BY <1>1, <1>2, <1>3, <1>4, <1>5, <1>6, <1>7 DEF Next

LEMMA SpecInv == Spec => []Inv
  BY InitInv, NextInv, PTL DEF Spec

(* The state of the process, the pool and the devices stays what its C     *)
(* types hold, and what has been given out is an address of the pool.      *)
THEOREM LinuxTypeCorrect == Spec => []TypeOK
<1>1. Inv => TypeOK
  BY DEF Inv
<1>2. QED
  BY <1>1, SpecInv, PTL

(* Two owners never have one address, however main's and the poller's      *)
(* requests interleave, fail, or end with the process.                     *)
THEOREM OwnersDistinct == Spec => []AddressesDistinct
<1>1. Inv => AddressesDistinct
  BY DEF Inv, Numbers
<1>2. QED
  BY <1>1, SpecInv, PTL

-----------------------------------------------------------------------------
(* The refinement: the steps of the pool as steps of the dispenser.        *)
Used == IF ready THEN 0..(counter - 1) ELSE {}
Grant(o) == [addr |-> hold[o], holder |-> o]
Given == {Grant(o) : o \in {h \in Owners : ready /\ hold[h] \in allocated}}

(* While the pool stays main's, giving up is losing holders or positions.  *)
LEMMA GivesUp ==
    ASSUME ready' = ready, counter' = counter, allocated' \subseteq allocated,
           \A o \in Owners : hold'[o] \in allocated => hold'[o] = hold[o]
    PROVE  Given' \subseteq Given /\ Used' = Used
<1>1. Used' = Used
  BY DEF Used
<1>2. Given' \subseteq Given
  <2> SUFFICES ASSUME NEW o \in Owners, ready', hold'[o] \in allocated'
               PROVE  Grant(o)' \in Given
    BY DEF Given
  <2>1. hold'[o] = hold[o] /\ ready /\ hold[o] \in allocated
    OBVIOUS
  <2>2. Grant(o)' = Grant(o)
    BY <2>1 DEF Grant
  <2>3. QED
    BY <2>1, <2>2 DEF Given
<1>3. QED
  BY <1>1, <1>2

LEMMA NotReady == ~ready => Used = {} /\ Given = {}
  BY DEF Used, Given

LEMMA Empty == counter = 0 /\ allocated = {} => Used = {} /\ Given = {}
  BY DEF Used, Given

LEMMA GenerateGives ==
    ASSUME Inv, NEW t \in Callers, Generate(t), ready
    PROVE  /\ counter \in Pool \ Used /\ alloc[t].for \in Owners
           /\ Used' = Used \cup {counter}
           /\ Given' = Given \cup {[addr |-> counter, holder |-> alloc[t].for]}
<1>0. PICK me \in Owners : me = alloc[t].for
  BY GenerateFacts
<1>1. /\ counter \in Pool \ allocated /\ me \in Owners
      /\ counter' = counter + 1 /\ allocated' = allocated \cup {counter}
      /\ hold[me] = None /\ hold'[me] = counter /\ ready'
      /\ \A o \in Owners \ {me} : hold'[o] = hold[o]
  BY <1>0, GenerateFacts
<1>2. None \notin allocated
  BY PoolFacts DEF Inv, TypeOK
<1>3. \A o \in Owners \ {me} : hold[o] # counter
  BY <1>1 DEF Inv, Numbers, Handed, Pool
<1>4. counter \notin Used /\ Used' = Used \cup {counter}
  BY <1>1, CountAssumption DEF Used, Pool
<1>5. Grant(me)' = [addr |-> counter, holder |-> me]
  BY <1>1 DEF Grant
<1>6. \A o \in Owners \ {me} :
        Grant(o)' = Grant(o) /\ (hold'[o] \in allocated' <=> hold[o] \in allocated)
  BY <1>1, <1>3 DEF Grant
<1>7. hold'[me] \in allocated' /\ hold[me] \notin allocated
  BY <1>1, <1>2
<1>8. Given' = Given \cup {Grant(me)'}
  BY <1>1, <1>6, <1>7 DEF Given
<1>9. QED
  BY <1>0, <1>1, <1>4, <1>5, <1>8

LEMMA CallDispenses ==
    ASSUME Inv, NEW t \in Callers, AllocateStep(t)
    PROVE  \/ \E a \in Pool, h \in Owners : /\ a \notin Used /\ Used' = Used \cup {a}
                                           /\ Given' = Given \cup {[addr |-> a, holder |-> h]}
           \/ Given' \subseteq Given /\ Used' = Used
<1>1. CASE ready /\ Generate(t)
  BY <1>1, GenerateGives
<1>2. CASE ~ready /\ Generate(t)
  <2>1. ready' = ready
    BY <1>2 DEF Generate
  <2>2. Used' = {} /\ Given' = {} /\ Used = {} /\ Given = {}
    BY <1>2, <2>1 DEF Used, Given
  <2>3. QED
    BY <2>2
<1>3. CASE AllocateStep(t) /\ ~Generate(t)
  <2>1. /\ ready' = ready /\ counter' = counter /\ allocated' \subseteq allocated
        /\ hold' = hold
    BY <1>3 DEF AllocateStep, ParsePool, Exhausted, AddAddress, AddRefused, MapAddress, pool
  <2>2. QED
    BY <2>1, GivesUp
<1>4. QED
  BY <1>1, <1>2, <1>3

(* Every other step gives up, begins or ends a run, or is none.            *)
LEMMA StepDispenses ==
    ASSUME Inv, [Next]_vars
    PROVE  [Dispenser!DispenserNext]_Dispenser!dispenserVars
<1>1. CASE AllocateStep("main") \/ AllocateStep("poll")
  <2>1. {"main", "poll"} \subseteq Callers
    BY DEF Callers
  <2>2. QED
    BY <1>1, <2>1, CallDispenses
    DEF Dispenser!DispenserNext, Dispenser!Give, Dispenser!GiveUp, Used, Given, Grant
<1>2. CASE End \/ Start \/ ClearPool \/ Initialise
  <2>1. Used' = {} /\ Given' = {}
    <3>1. CASE End \/ Start \/ ClearPool
      <4>1. ~ready'
        BY <3>1 DEF End, Start, pool, ClearPool, Inv, Shapes, Fresh, Unborn
      <4>2. QED
        BY <4>1 DEF Used, Given
    <3>2. CASE Initialise
      <4>1. counter' = 0 /\ allocated' = {}
        BY <3>2 DEF Initialise, MainGoes, Inv, Shapes, Fresh, Unborn
      <4>2. QED
        BY <4>1 DEF Used, Given
    <3>3. QED
      BY <1>2, <3>1, <3>2
  <2>2. QED
    BY <2>1 DEF Dispenser!DispenserNext, Dispenser!Restart, Used, Given, Grant
<1>3. ASSUME ready' = ready, counter' = counter, allocated' \subseteq allocated,
             \A o \in Owners : hold'[o] \in {hold[o], None}
      PROVE  Dispenser!DispenserNext
  <2>1. None \notin allocated
    BY PoolFacts DEF Inv, TypeOK
  <2>2. Given' \subseteq Given /\ Used' = Used
    BY <1>3, <2>1, GivesUp
  <2>3. QED
    BY <2>2 DEF Dispenser!DispenserNext, Dispenser!GiveUp, Used, Given, Grant
<1>4. CASE \/ OwnAllocated \/ OwnNotAllocated \/ LoopTop \/ Packet \/ UnmapOwn
           \/ ServerStep \/ RunEnds \/ PrintMappings \/ EndPrinting \/ Stop
  <2>1. UNCHANGED <<ready, counter, allocated, hold>>
    BY <1>4 DEF OwnAllocated, OwnNotAllocated, LoopTop, Packet, UnmapOwn, MainOnly, Stop,
       ServerStep, TakeSignals, StartThreads, SetupFails, JoinPolling, CancelPrinting,
       RunEnds, ServerOnly, PrintMappings, EndPrinting, PrintOnly, pool
  <2>2. QED
    BY <2>1, <1>3
<1>5. CASE PollStep /\ ~AllocateStep("poll")
  <2>1. UNCHANGED pool
    BY <1>5 DEF PollStep, PollOnly, Connect, ReadFails, ReadAll, PollEnds, EndManaging,
       KeepDevice, AllocateDevice, ReuseDevice, DeviceAllocated, DeviceNotAllocated,
       CreateNode, AllocateVariable, ReuseVariable, EndAdding, RemoveDevice, RemoveNodes,
       AllocateFor, Ensure
  <2>2. hold' = hold \/ hold' = [hold EXCEPT ![Variable(cur)] = None]
    BY <1>5 DEF PollStep, Connect, ReadFails, ReadAll, PollEnds, EndManaging,
       KeepDevice, AllocateDevice, ReuseDevice, DeviceAllocated, DeviceNotAllocated,
       CreateNode, AllocateVariable, ReuseVariable, EndAdding, RemoveDevice, RemoveNodes,
       AllocateFor, Ensure
  <2>3. \A o \in Owners : hold'[o] \in {hold[o], None}
    BY <2>2 DEF Inv, TypeOK
  <2>4. QED
    BY <2>1, <2>3, <1>3 DEF pool
<1>6. CASE ReleaseOwn \/ FreeList
  <2>1. /\ ready' = ready /\ counter' = counter /\ allocated' \subseteq allocated
        /\ hold' = hold \/ hold' = [hold EXCEPT ![Controller] = None]
    BY <1>6 DEF ReleaseOwn, FreeList
  <2>2. \A o \in Owners : hold'[o] \in {hold[o], None}
    BY <2>1 DEF Inv, TypeOK
  <2>3. QED
    BY <2>1, <2>2, <1>3
<1>7. CASE UNCHANGED vars
  <2>1. UNCHANGED <<ready, counter, allocated, hold>>
    BY <1>7 DEF vars, pool
  <2>2. Used' = Used /\ Given' = Given
    BY <2>1 DEF Used, Given, Grant
  <2>3. QED
    BY <2>2 DEF Dispenser!dispenserVars, Used, Given, Grant
<1>8. InitialiseFails \/ Return \/ Kill => End
  BY DEF InitialiseFails, Return, Kill
<1>9. QED
  BY <1>1, <1>2, <1>4, <1>5, <1>6, <1>7, <1>8 DEF Next, MainStep

(* So the pool of the Linux port, too, implements AddressDispenser: until  *)
(* main clears it, an address it has given out is never given out again.   *)
THEOREM PoolDispenses == Spec => Dispenses
<1>1. Init => Dispenser!DispenserInit
  BY DEF Init, Ended, Dispenser!DispenserInit
<1>2. Inv /\ [Next]_vars => [Dispenser!DispenserNext]_Dispenser!dispenserVars
  BY StepDispenses
<1>3. QED
  BY <1>1, <1>2, SpecInv, PTL DEF Spec, Dispenses, Dispenser!DispenserSpec

-----------------------------------------------------------------------------
(* The interface and the nodes.  Within a cycle the interface is ahead of  *)
(* the nodes or behind them, by the device the cycle is at: what is due is *)
(* told by where the poller stands.  Of an address whose last command was  *)
(* refused nothing is told, nor of one not put on the interface yet.       *)
Sure(o) == hold[o] \in Pool \ refused
Has(o) == hold[o] \in nic
Pending(o) == alloc["poll"].at = "add" /\ alloc["poll"].for = o

AddressDue(d) ==
    IF d = cur /\ poll \in {"device", "node", "variable", "value"} THEN TRUE
    ELSE IF d = cur /\ poll = "unset" THEN FALSE
    ELSE node[d]
VariableDue(d) ==
    IF d = cur /\ poll = "value" THEN TRUE
    ELSE IF d = cur /\ poll = "variable" THEN FALSE
    ELSE node[d]

Follows(d) == hold[Address(d)] # Garbage =>
    /\ Sure(Address(d)) /\ ~Pending(Address(d)) => (Has(Address(d)) <=> AddressDue(d))
    /\ Sure(Variable(d)) /\ ~Pending(Variable(d)) => (Has(Variable(d)) <=> VariableDue(d))
AllFollow == ready => \A d \in Devices : Follows(d)

(* Unstarted: no poller before the OPC UA thread starts it.  Asked: the    *)
(* poller asks for the device it is at.  Refusal: who was refused an       *)
(* address has none, or one that was not put on the interface.  NodeDue:   *)
(* the node of the device it is at, which it may only miss without a       *)
(* proper address.                                                         *)
Unstarted == ua \in {"new", "setup"} => poll = "none"
Asked == alloc["poll"].at # "none" =>
    \/ poll = "device" /\ alloc["poll"].for = Address(cur)
    \/ poll = "value" /\ alloc["poll"].for = Variable(cur)
NodeDue ==
    /\ poll \in {"device", "node"} => ~node[cur]
    /\ poll \in {"variable", "value"} => node[cur] \/ hold[Address(cur)] = Garbage
    /\ poll = "unset" => node[cur]
Phases == Unstarted /\ Asked /\ NodeDue
Refusal == ready /\ alloc["poll"].at = "failed" => ~Sure(alloc["poll"].for)

FollowsInv == Inv /\ Phases /\ Refusal /\ AllFollow

LEMMA DistinctOwners ==
    \A d, e \in Devices : /\ Address(d) # Variable(e)
                          /\ d # e => Address(d) # Address(e) /\ Variable(d) # Variable(e)
  BY DEF Address, Variable

LEMMA InitFollows == Init => FollowsInv
<1> SUFFICES ASSUME Init PROVE FollowsInv
  OBVIOUS
<1>1. alloc["poll"] = Idle
  BY DEF Init, Ended, Callers
<1>2. Phases /\ Refusal /\ AllFollow
  BY <1>1 DEF Init, Ended, Idle, Phases, Unstarted, Asked, NodeDue, Refusal, AllFollow
<1>3. QED
  BY <1>2, InitInv DEF FollowsInv

-----------------------------------------------------------------------------
(* What a command about one owner's address leaves alone.                  *)
Command(a) == Put(a) \/ PutRefused(a) \/ TakeOff(a)
Undisturbed(o) ==
    /\ hold'[o] = hold[o]
    /\ hold[o] \in Pool => /\ hold[o] \in nic' <=> hold[o] \in nic
                           /\ hold[o] \in refused' <=> hold[o] \in refused

LEMMA CommandsApart ==
    ASSUME Inv, ready, NEW p \in Owners, NEW o \in Owners, o # p, hold'[o] = hold[o],
           UNCHANGED interface \/ (hold[p] \in Pool /\ Command(hold[p]))
    PROVE  Undisturbed(o)
<1>1. CASE UNCHANGED interface
  BY <1>1 DEF Undisturbed, interface
<1>2. CASE hold[p] \in Pool /\ Command(hold[p])
  <2>1. hold[o] # hold[p]
    BY <1>2 DEF Inv, Numbers, AddressesDistinct
  <2>2. QED
    BY <1>2, <2>1 DEF Undisturbed, Command, Put, PutRefused, TakeOff
<1>3. QED
  BY <1>1, <1>2

Quiet == {"none", "top", "manage", "done"}
LEMMA DueFacts ==
    \A d \in Devices : d # cur \/ poll \in Quiet => /\ AddressDue(d) = node[d]
                                                  /\ VariableDue(d) = node[d]
  BY DEF AddressDue, VariableDue, Quiet

(* A device whose addresses nobody disturbs, and which is due what it was. *)
LEMMA DeviceStays ==
    ASSUME NEW d \in Devices, Follows(d), Undisturbed(Address(d)), Undisturbed(Variable(d)),
           Pending(Address(d)) => Pending(Address(d))',
           Pending(Variable(d)) => Pending(Variable(d))',
           AddressDue(d)' = AddressDue(d), VariableDue(d)' = VariableDue(d)
    PROVE  Follows(d)'
<1>1. /\ hold'[Address(d)] = hold[Address(d)] /\ hold'[Variable(d)] = hold[Variable(d)]
      /\ Sure(Address(d))' => Sure(Address(d)) /\ (Has(Address(d))' <=> Has(Address(d)))
      /\ Sure(Variable(d))' => Sure(Variable(d)) /\ (Has(Variable(d))' <=> Has(Variable(d)))
  BY DEF Undisturbed, Sure, Has
<1>2. QED
  BY <1>1, Zenon DEF Follows

(* A step of the poller about one owner of the device it is at. *)
At(p) ==
    /\ ready /\ cur \in Devices /\ p \in {Address(cur), Variable(cur)}
    /\ \A o \in Owners \ {p} : hold'[o] = hold[o]
    /\ UNCHANGED interface \/ (hold[p] \in Pool /\ Command(hold[p]))
    /\ cur' = cur \/ poll' \in Quiet
    /\ \A d \in Devices \ {cur} : node'[d] = node[d]

LEMMA OthersFollow ==
    ASSUME FollowsInv, NEW p, At(p)
    PROVE  /\ p \in Owners
           /\ \A o \in Owners \ {p} : Undisturbed(o)
           /\ \A d \in Devices \ {cur} : Follows(d)'
<1>1. p \in Owners
  BY OwnerFacts DEF At
<1>2. \A o \in Owners \ {p} : Undisturbed(o)
  BY <1>1, CommandsApart DEF At, FollowsInv
<1>3. ASSUME NEW d \in Devices \ {cur} PROVE Follows(d)'
  <2>1. {Address(d), Variable(d)} \subseteq Owners \ {Address(cur), Variable(cur)}
    BY OwnerFacts, DistinctOwners DEF At
  <2>2. Undisturbed(Address(d)) /\ Undisturbed(Variable(d))
    BY <1>2, <2>1 DEF At
  <2>3. ~Pending(Address(d)) /\ ~Pending(Variable(d))
    BY <2>1 DEF Pending, FollowsInv, Phases, Asked
  <2>4. AddressDue(d) = node[d] /\ VariableDue(d) = node[d]
    BY DueFacts
  <2>5. AddressDue(d)' = node'[d] /\ VariableDue(d)' = node'[d]
    <3>1. d # cur' \/ poll' \in Quiet
      BY DEF At
    <3>2. QED
      BY <3>1 DEF AddressDue, VariableDue, Quiet
  <2>6. node'[d] = node[d]
    BY DEF At
  <2>7. Follows(d)
    BY DEF At, FollowsInv, AllFollow
  <2>8. QED
    BY <2>2, <2>3, <2>4, <2>5, <2>6, <2>7, DeviceStays
<1>4. QED
  BY <1>1, <1>2, <1>3

-----------------------------------------------------------------------------
(* Steps of the others.  A step of main's that goes on with its pool is    *)
(* about the controller's address at most.                                 *)
Apart ==
    /\ ready' => ready
    /\ UNCHANGED <<ua, poll, node, cur>> /\ alloc'["poll"] = alloc["poll"]
    /\ \A o \in Owners \ {Controller} : hold'[o] = hold[o]
    /\ UNCHANGED interface \/ (hold[Controller] \in Pool /\ Command(hold[Controller]))

LEMMA MainCallApart ==
    ASSUME Inv, AllocateStep("main")
    PROVE  Apart
<1>1. "main" \in Callers /\ "poll" \in Callers \ {"main"}
  BY DEF Callers
<1>2. alloc["main"].for = Controller
  BY DEF Inv, Shapes, CallersApart
<1>3. alloc'["poll"] = alloc["poll"]
  <2>1. \E from, to : CallGoes("main", from, to)
    BY DEF AllocateStep, ParsePool, Generate, Exhausted, AddAddress, AddRefused, MapAddress
  <2>2. alloc \in [Callers -> [for : Owners, at : Steps]]
    BY DEF Inv, TypeOK
  <2>3. QED
    BY <1>1, <2>1, <2>2 DEF CallGoes
<1>4. UNCHANGED <<ua, poll, node, cur>> /\ ready' = ready
  BY DEF AllocateStep, ParsePool, Generate, Exhausted, AddAddress, AddRefused, MapAddress,
         CallOnly, threads, cycle, pool
<1>5. \A o \in Owners \ {Controller} : hold'[o] = hold[o]
  <2>1. CASE Generate("main")
    BY <1>1, <1>2, <2>1, GenerateFacts
  <2>2. CASE ~Generate("main")
    BY <2>2 DEF AllocateStep, ParsePool, Exhausted, AddAddress, AddRefused, MapAddress
  <2>3. QED
    BY <2>1, <2>2
<1>6. UNCHANGED interface \/ (hold[Controller] \in Pool /\ Command(hold[Controller]))
  <2>1. CASE AddAddress("main") \/ AddRefused("main")
    <3>1. hold[Controller] \in Pool
      BY <1>1, <1>2, <2>1 DEF AddAddress, AddRefused, CallGoes, Inv, Shapes, CallShape
    <3>2. QED
      BY <1>2, <2>1, <3>1 DEF AddAddress, AddRefused, Command
  <2>2. CASE ~(AddAddress("main") \/ AddRefused("main"))
    BY <2>2 DEF AllocateStep, ParsePool, Generate, Exhausted, MapAddress, interface
  <2>3. QED
    BY <2>1, <2>2
<1>7. QED
  BY <1>3, <1>4, <1>5, <1>6 DEF Apart

LEMMA MainApart ==
    ASSUME Inv, \/ OwnAllocated \/ OwnNotAllocated \/ LoopTop \/ Packet \/ ReleaseOwn
                \/ UnmapOwn \/ FreeList \/ ClearPool
    PROVE  Apart
<1>1. /\ UNCHANGED <<ua, poll, node, cur>> /\ (ready' => ready)
  BY DEF OwnAllocated, OwnNotAllocated, LoopTop, Packet, ReleaseOwn, UnmapOwn, FreeList,
         ClearPool, MainOnly, cycle, pool
<1>2. alloc'["poll"] = alloc["poll"]
  <2>1. alloc' = alloc \/ alloc' = [alloc EXCEPT !["main"] = Idle]
    BY DEF OwnAllocated, OwnNotAllocated, LoopTop, Packet, ReleaseOwn, UnmapOwn, FreeList,
           ClearPool, CallGoes
  <2>2. alloc \in [Callers -> [for : Owners, at : Steps]]
    BY DEF Inv, TypeOK
  <2>3. QED
    BY <2>1, <2>2 DEF Callers
<1>3. \A o \in Owners \ {Controller} : hold'[o] = hold[o]
  <2>1. hold' = hold \/ hold' = [hold EXCEPT ![Controller] = None]
    BY DEF OwnAllocated, OwnNotAllocated, LoopTop, Packet, ReleaseOwn, UnmapOwn, FreeList,
           ClearPool
  <2>2. hold \in [Owners -> Pool \cup {None, Garbage}]
    BY DEF Inv, TypeOK
  <2>3. QED
    BY <2>1, <2>2
<1>4. UNCHANGED interface \/ (hold[Controller] \in Pool /\ Command(hold[Controller]))
  <2>1. ReleaseOwn => hold[Controller] \in Pool /\ Command(hold[Controller])
    BY DEF ReleaseOwn, MainGoes, Inv, Shapes, Own, Command
  <2>2. QED
    BY <2>1 DEF OwnAllocated, OwnNotAllocated, LoopTop, Packet, UnmapOwn, FreeList, ClearPool
<1>5. QED
  BY <1>1, <1>2, <1>3, <1>4 DEF Apart

LEMMA ApartKeeps ==
    ASSUME FollowsInv, Apart
    PROVE  Phases' /\ Refusal' /\ AllFollow'
<1>1. \A d \in Devices : {Address(d), Variable(d)} \subseteq Owners \ {Controller}
  BY OwnerFacts
<1>2. Controller \in Owners
  BY OwnerFacts
<1>3. Phases'
  <2>1. Unstarted' /\ Asked'
    BY DEF Apart, FollowsInv, Phases, Unstarted, Asked
  <2>2. poll \in {"variable", "value"} => hold'[Address(cur)] = hold[Address(cur)]
    BY <1>1 DEF Apart, FollowsInv, Inv, Managed
  <2>3. NodeDue'
    BY <2>2 DEF Apart, FollowsInv, Phases, NodeDue
  <2>4. QED
    BY <2>1, <2>3 DEF Phases
<1>4. Refusal'
  <2> SUFFICES ASSUME ready', alloc["poll"].at = "failed"
               PROVE  ~Sure(alloc["poll"].for)'
    BY DEF Refusal, Apart, Sure
  <2>1. PICK p \in Owners \ {Controller} : p = alloc["poll"].for
    BY DEF FollowsInv, Inv, TypeOK, Callers, Shapes, CallersApart
  <2>2. Undisturbed(p)
    BY <1>2, CommandsApart DEF Apart, FollowsInv
  <2>3. ~Sure(p)
    BY <2>1 DEF Apart, FollowsInv, Refusal
  <2>4. hold'[p] \notin Pool \ refused'
    BY <2>2, <2>3 DEF Undisturbed, Sure
  <2>5. alloc'["poll"] = alloc["poll"]
    BY DEF Apart
  <2>6. QED
    BY <2>1, <2>4, <2>5 DEF Sure
<1>5. AllFollow'
  <2> SUFFICES ASSUME ready', NEW d \in Devices PROVE Follows(d)'
    BY DEF AllFollow
  <2>1. Undisturbed(Address(d)) /\ Undisturbed(Variable(d))
    BY <1>1, <1>2, CommandsApart DEF Apart, FollowsInv
  <2>2. /\ Pending(Address(d)) => Pending(Address(d))'
        /\ Pending(Variable(d)) => Pending(Variable(d))'
    BY DEF Apart, Pending
  <2>3. AddressDue(d)' = AddressDue(d) /\ VariableDue(d)' = VariableDue(d)
    BY DEF Apart, AddressDue, VariableDue
  <2>4. Follows(d)
    BY DEF Apart, FollowsInv, AllFollow
  <2>5. QED
    BY <2>1, <2>2, <2>3, <2>4, DeviceStays
<1>6. QED
  BY <1>3, <1>4, <1>5

(* Steps with no device in the poller's hands before or after.             *)
Idly ==
    /\ ready' => ready
    /\ UNCHANGED <<interface, hold, node>> /\ alloc'["poll"] = alloc["poll"]
    /\ \/ UNCHANGED <<poll, cur>>
       \/ poll \in Quiet /\ poll' \in Quiet

LEMMA IdlyKeeps ==
    ASSUME FollowsInv, Idly, Unstarted'
    PROVE  Phases' /\ Refusal' /\ AllFollow'
<1>1. /\ UNCHANGED <<nic, refused, hold, node>> /\ alloc'["poll"] = alloc["poll"]
      /\ ready' => ready
  BY DEF Idly, interface
<1>2. Asked'
  BY <1>1 DEF Idly, Quiet, FollowsInv, Phases, Asked
<1>3. NodeDue'
  BY <1>1 DEF Idly, Quiet, FollowsInv, Phases, NodeDue
<1>4. Refusal'
  BY <1>1 DEF FollowsInv, Refusal, Sure
<1>5. AllFollow'
  <2> SUFFICES ASSUME ready', NEW d \in Devices PROVE Follows(d)'
    BY DEF AllFollow
  <2>1. Undisturbed(Address(d)) /\ Undisturbed(Variable(d))
    BY <1>1 DEF Undisturbed
  <2>2. /\ Pending(Address(d)) => Pending(Address(d))'
        /\ Pending(Variable(d)) => Pending(Variable(d))'
    BY <1>1 DEF Pending
  <2>3. AddressDue(d)' = AddressDue(d) /\ VariableDue(d)' = VariableDue(d)
    BY <1>1 DEF Idly, Quiet, AddressDue, VariableDue
  <2>4. Follows(d)
    BY <1>1 DEF FollowsInv, AllFollow
  <2>5. QED
    BY <2>1, <2>2, <2>3, <2>4, DeviceStays
<1>6. QED
  BY <1>2, <1>3, <1>4, <1>5 DEF Phases

LEMMA OthersFollowOn ==
    ASSUME FollowsInv, ServerStep \/ RunEnds \/ PrintMappings \/ EndPrinting \/ Stop
    PROVE  Phases' /\ Refusal' /\ AllFollow'
<1>1. CASE StartThreads
  <2>1. poll = "none" /\ poll' \in {"top", "done"} /\ ua' = "run"
    BY <1>1 DEF StartThreads, ServerGoes, FollowsInv, Phases, Unstarted
  <2>2. Idly /\ Unstarted'
    BY <1>1, <2>1 DEF StartThreads, ServerOnly, Idly, Unstarted, Quiet, interface, pool, cycle
  <2>3. QED
    BY <2>2, IdlyKeeps
<1>2. CASE ~StartThreads
  <2>1. /\ UNCHANGED <<poll, ready, interface, hold, alloc, node, cur>>
        /\ ua' \in {"new", "setup"} => ua \in {"new", "setup"}
    BY <1>2 DEF ServerStep, RunEnds, PrintMappings, EndPrinting, Stop, TakeSignals,
       SetupFails, JoinPolling, CancelPrinting, ServerOnly, PrintOnly, ServerGoes,
       threads, pool, cycle
  <2>2. Idly /\ Unstarted'
    BY <2>1 DEF Idly, FollowsInv, Phases, Unstarted
  <2>3. QED
    BY <2>2, IdlyKeeps
<1>3. QED
  BY <1>1, <1>2

LEMMA RestsFollow ==
    ASSUME FollowsInv, \/ Connect \/ ReadFails \/ ReadAll \/ PollEnds \/ EndManaging
                       \/ KeepDevice
    PROVE  Phases' /\ Refusal' /\ AllFollow'
<1>1. /\ ua' = ua /\ poll # "none" /\ ready' = ready
      /\ UNCHANGED <<interface, hold, node, alloc>>
      /\ poll \in Quiet /\ poll' \in Quiet
  BY DEF Connect, ReadFails, ReadAll, PollEnds, EndManaging, KeepDevice, PollGoes,
         PollOnly, pool, Quiet
<1>2. Idly /\ Unstarted'
  BY <1>1 DEF Idly, FollowsInv, Phases, Unstarted
<1>3. QED
  BY <1>2, IdlyKeeps

(* A process that ends, starts or has no pool yet. *)
LEMMA EndsFollow ==
    ASSUME FollowsInv, End \/ Start \/ Initialise
    PROVE  Phases' /\ Refusal' /\ AllFollow'
<1>1. CASE End
  <2>1. alloc'["poll"] = Idle
    BY <1>1 DEF End, Callers
  <2>2. QED
    BY <1>1, <2>1 DEF End, Idle, Phases, Unstarted, Asked, NodeDue, Refusal, AllFollow
<1>2. CASE Start
  <2>1. /\ poll = "none" /\ ~ready /\ alloc["poll"] = Idle
    BY <1>2 DEF Start, FollowsInv, Inv, Shapes, Fresh, Unborn, Callers
  <2>2. QED
    BY <1>2, <2>1 DEF Start, pool, Idle, Phases, Unstarted, Asked, NodeDue, Refusal, AllFollow
<1>3. CASE Initialise
  <2>1. /\ poll = "none" /\ alloc = [t \in Callers |-> Idle]
        /\ \A o \in Owners : hold[o] \notin Pool
    BY <1>3 DEF Initialise, MainGoes, FollowsInv, Inv, Shapes, Fresh, Unborn
  <2>2. alloc'["poll"] = Idle /\ UNCHANGED <<poll, hold>>
    BY <1>3, <2>1 DEF Initialise, Callers
  <2>3. Phases' /\ Refusal'
    BY <2>1, <2>2 DEF Idle, Phases, Unstarted, Asked, NodeDue, Refusal
  <2>4. \A o \in Owners : ~Sure(o)'
    BY <2>1, <2>2 DEF Sure
  <2>5. AllFollow'
    BY <2>4, OwnerFacts DEF AllFollow, Follows
  <2>6. QED
    BY <2>3, <2>5
<1>4. QED
  BY <1>1, <1>2, <1>3

-----------------------------------------------------------------------------
(* The poller's steps about the device it is at.                           *)
LEMMA AllWithCur ==
    ASSUME FollowsInv, NEW p, At(p), NEW me, me = cur, Follows(me)'
    PROVE  AllFollow'
  BY OthersFollow DEF AllFollow

(* The device's other owner, which the step is not about.                  *)
LEMMA OtherStays ==
    ASSUME FollowsInv, NEW p, At(p), NEW me, me = cur, NEW q,
           q \in {Address(me), Variable(me)} \ {p}
    PROVE  /\ hold'[q] = hold[q]
           /\ Sure(q)' => Sure(q) /\ (Has(q)' <=> Has(q))
<1>1. q \in Owners \ {p}
  BY OwnerFacts DEF At
<1>2. Undisturbed(q)
  BY <1>1, OthersFollow
<1>3. QED
  BY <1>2 DEF Undisturbed, Sure, Has

LEMMA EnsuredThere ==
    ASSUME NEW o, Ensure(o)
    PROVE  /\ UNCHANGED interface \/ (hold[o] \in Pool /\ Command(hold[o]))
           /\ hold' = hold /\ node' = node /\ cur' = cur /\ alloc' = alloc
           /\ Sure(o)' => Has(o)'
  BY DEF Ensure, Command, Put, PutRefused, Sure, Has, cycle

LEMMA RemovedGone ==
    ASSUME NEW o, RemoveFor(o), hold' = hold
    PROVE  /\ UNCHANGED interface \/ (hold[o] \in Pool /\ Command(hold[o]))
           /\ Sure(o)' => ~Has(o)'
  BY DEF RemoveFor, Command, TakeOff, Sure, Has, interface

LEMMA ReuseDeviceFollows ==
    ASSUME FollowsInv, ReuseDevice
    PROVE  Phases' /\ Refusal' /\ AllFollow'
<1>1. PICK me \in Devices : me = cur
  BY DEF ReuseDevice, Changed
<1>2. /\ poll = "manage" /\ poll' = "node" /\ ua' = ua /\ ready' = ready /\ ~node[me]
  BY <1>1 DEF ReuseDevice, Changed, PollGoes, Ensure, PollOnly, pool
<1>3. /\ UNCHANGED interface \/ (hold[Address(me)] \in Pool /\ Command(hold[Address(me)]))
      /\ hold' = hold /\ node' = node /\ cur' = cur /\ alloc' = alloc
      /\ Sure(Address(me))' => Has(Address(me))'
  BY <1>1, EnsuredThere DEF ReuseDevice
<1>4. alloc["poll"].at = "none"
  BY <1>2 DEF FollowsInv, Phases, Asked
<1>5. Phases' /\ Refusal'
  BY <1>1, <1>2, <1>3, <1>4 DEF FollowsInv, Phases, Unstarted, Asked, NodeDue, Refusal
<1>6. AllFollow'
  <2> SUFFICES ASSUME ready PROVE AllFollow'
    BY <1>2 DEF AllFollow
  <2>1. At(Address(me))
    BY <1>1, <1>3 DEF At
  <2>2. Variable(me) \in {Address(me), Variable(me)} \ {Address(me)}
    BY DistinctOwners
  <2>3. Sure(Variable(me))' => Sure(Variable(me)) /\ (Has(Variable(me))' <=> Has(Variable(me)))
    BY <1>1, <2>1, <2>2, OtherStays
  <2>4. VariableDue(me) = node[me] /\ VariableDue(me)' = node[me] /\ AddressDue(me)' = TRUE
    BY <1>1, <1>2, <1>3 DEF AddressDue, VariableDue
  <2>5. Follows(me) /\ ~Pending(Variable(me))
    BY <1>4 DEF FollowsInv, AllFollow, Pending
  <2>6. Follows(me)'
    BY <1>3, <2>3, <2>4, <2>5, Zenon DEF Follows
  <2>7. QED
    BY <1>1, <2>1, <2>6, AllWithCur
<1>7. QED
  BY <1>5, <1>6

LEMMA ReuseVariableFollows ==
    ASSUME FollowsInv, ReuseVariable
    PROVE  Phases' /\ Refusal' /\ AllFollow'
<1>1. PICK me \in Devices : me = cur
  BY DEF ReuseVariable, PollGoes, FollowsInv, Inv, Managed
<1>2. /\ poll = "variable" /\ poll' = "value" /\ ua' = ua /\ ready' = ready
  BY <1>1 DEF ReuseVariable, PollGoes, Ensure, PollOnly, pool
<1>3. /\ UNCHANGED interface \/ (hold[Variable(me)] \in Pool /\ Command(hold[Variable(me)]))
      /\ hold' = hold /\ node' = node /\ cur' = cur /\ alloc' = alloc
      /\ Sure(Variable(me))' => Has(Variable(me))'
  BY <1>1, EnsuredThere DEF ReuseVariable
<1>4. alloc["poll"].at = "none"
  BY <1>2 DEF FollowsInv, Phases, Asked
<1>5. Phases' /\ Refusal'
  BY <1>1, <1>2, <1>3, <1>4 DEF FollowsInv, Phases, Unstarted, Asked, NodeDue, Refusal
<1>6. AllFollow'
  <2> SUFFICES ASSUME ready PROVE AllFollow'
    BY <1>2 DEF AllFollow
  <2>1. At(Variable(me))
    BY <1>1, <1>3 DEF At
  <2>2. Address(me) \in {Address(me), Variable(me)} \ {Variable(me)}
    BY DistinctOwners
  <2>3. Sure(Address(me))' => Sure(Address(me)) /\ (Has(Address(me))' <=> Has(Address(me)))
    BY <1>1, <2>1, <2>2, OtherStays
  <2>4. AddressDue(me) = TRUE /\ AddressDue(me)' = TRUE /\ VariableDue(me)' = TRUE
    BY <1>1, <1>2, <1>3 DEF AddressDue, VariableDue
  <2>5. Follows(me) /\ ~Pending(Address(me))
    BY <1>4 DEF FollowsInv, AllFollow, Pending
  <2>6. Follows(me)'
    BY <1>3, <2>3, <2>4, <2>5, Zenon DEF Follows
  <2>7. QED
    BY <1>1, <2>1, <2>6, AllWithCur
<1>7. QED
  BY <1>5, <1>6

LEMMA RemoveDeviceFollows ==
    ASSUME FollowsInv, RemoveDevice
    PROVE  Phases' /\ Refusal' /\ AllFollow'
<1>1. PICK me \in Devices : me = cur
  BY DEF RemoveDevice, Changed
<1>2. /\ poll = "manage" /\ poll' = "unset" /\ ua' = ua /\ ready' = ready
      /\ node[me] # FALSE
      /\ hold' = hold /\ node' = node /\ cur' = cur /\ alloc' = alloc
  BY <1>1 DEF RemoveDevice, Changed, PollGoes, PollOnly, pool, cycle
<1>3. /\ UNCHANGED interface \/ (hold[Address(me)] \in Pool /\ Command(hold[Address(me)]))
      /\ Sure(Address(me))' => ~Has(Address(me))'
  BY <1>1, <1>2, RemovedGone DEF RemoveDevice
<1>4. alloc["poll"].at = "none"
  BY <1>2 DEF FollowsInv, Phases, Asked
<1>5. node[me] = TRUE
  BY <1>2 DEF FollowsInv, Inv, TypeOK
<1>6. Phases' /\ Refusal'
  BY <1>1, <1>2, <1>4, <1>5 DEF FollowsInv, Phases, Unstarted, Asked, NodeDue, Refusal
<1>7. AllFollow'
  <2> SUFFICES ASSUME ready PROVE AllFollow'
    BY <1>2 DEF AllFollow
  <2>1. At(Address(me))
    BY <1>1, <1>2, <1>3 DEF At
  <2>2. Variable(me) \in {Address(me), Variable(me)} \ {Address(me)}
    BY DistinctOwners
  <2>3. Sure(Variable(me))' => Sure(Variable(me)) /\ (Has(Variable(me))' <=> Has(Variable(me)))
    BY <1>1, <2>1, <2>2, OtherStays
  <2>4. VariableDue(me) = node[me] /\ VariableDue(me)' = node[me] /\ AddressDue(me)' = FALSE
    BY <1>1, <1>2 DEF AddressDue, VariableDue
  <2>5. Follows(me) /\ ~Pending(Variable(me))
    BY <1>4 DEF FollowsInv, AllFollow, Pending
  <2>6. Follows(me)'
    BY <1>2, <1>3, <2>3, <2>4, <2>5, Zenon DEF Follows
  <2>7. QED
    BY <1>1, <2>1, <2>6, AllWithCur
<1>8. QED
  BY <1>6, <1>7

LEMMA RemoveNodesFollows ==
    ASSUME FollowsInv, RemoveNodes
    PROVE  Phases' /\ Refusal' /\ AllFollow'
<1>1. PICK me \in Devices : me = cur
  BY DEF RemoveNodes, PollGoes, FollowsInv, Inv, Managed
<1>2. /\ poll = "unset" /\ poll' = "manage" /\ ua' = ua /\ ready' = ready
      /\ hold' = hold /\ alloc' = alloc
      /\ node'[me] = FALSE /\ \A d \in Devices \ {me} : node'[d] = node[d]
  BY <1>1 DEF RemoveNodes, PollGoes, PollOnly, pool, FollowsInv, Inv, TypeOK
<1>3. /\ UNCHANGED interface \/ (hold[Variable(me)] \in Pool /\ Command(hold[Variable(me)]))
      /\ Sure(Variable(me))' => ~Has(Variable(me))'
  BY <1>1, <1>2, RemovedGone DEF RemoveNodes
<1>4. alloc["poll"].at = "none"
  BY <1>2 DEF FollowsInv, Phases, Asked
<1>5. Phases' /\ Refusal'
  BY <1>1, <1>2, <1>4 DEF FollowsInv, Phases, Unstarted, Asked, NodeDue, Refusal
<1>6. AllFollow'
  <2> SUFFICES ASSUME ready PROVE AllFollow'
    BY <1>2 DEF AllFollow
  <2>1. At(Variable(me))
    BY <1>1, <1>2, <1>3 DEF At, Quiet
  <2>2. Address(me) \in {Address(me), Variable(me)} \ {Variable(me)}
    BY DistinctOwners
  <2>3. Sure(Address(me))' => Sure(Address(me)) /\ (Has(Address(me))' <=> Has(Address(me)))
    BY <1>1, <2>1, <2>2, OtherStays
  <2>4. AddressDue(me) = FALSE /\ AddressDue(me)' = FALSE /\ VariableDue(me)' = FALSE
    BY <1>1, <1>2 DEF AddressDue, VariableDue
  <2>5. Follows(me) /\ ~Pending(Address(me))
    BY <1>4 DEF FollowsInv, AllFollow, Pending
  <2>6. Follows(me)'
    BY <1>2, <1>3, <2>3, <2>4, <2>5, Zenon DEF Follows
  <2>7. QED
    BY <1>1, <2>1, <2>6, AllWithCur
<1>7. QED
  BY <1>5, <1>6

(* A step that touches no address, and after which an owner of the device  *)
(* has none, or is due what it was.                                        *)
LEMMA UntouchedFollows ==
    ASSUME FollowsInv, ready, cur \in Devices, NEW me, me = cur,
           UNCHANGED <<interface, hold>>, cur' = cur \/ poll' \in Quiet,
           \A d \in Devices \ {me} : node'[d] = node[d],
           ~Pending(Address(me)), ~Pending(Variable(me)),
           Sure(Address(me)) /\ hold[Address(me)] # Garbage => AddressDue(me)' = AddressDue(me),
           Sure(Variable(me)) /\ hold[Address(me)] # Garbage => VariableDue(me)' = VariableDue(me)
    PROVE  AllFollow'
<1>1. At(Address(me))
  BY DEF At
<1>2. /\ UNCHANGED <<nic, refused, hold>>
      /\ Sure(Address(me))' = Sure(Address(me)) /\ Has(Address(me))' = Has(Address(me))
      /\ Sure(Variable(me))' = Sure(Variable(me)) /\ Has(Variable(me))' = Has(Variable(me))
  BY DEF interface, Sure, Has
<1>3. Follows(me)
  BY DEF FollowsInv, AllFollow
<1>4. Follows(me)'
  BY <1>2, <1>3, Zenon DEF Follows
<1>5. QED
  BY <1>1, <1>4, AllWithCur

LEMMA AskFollows ==
    ASSUME FollowsInv, AllocateDevice \/ AllocateVariable
    PROVE  Phases' /\ Refusal' /\ AllFollow'
<1>1. PICK me \in Devices : me = cur
  BY DEF AllocateDevice, AllocateVariable, Changed, PollGoes, FollowsInv, Inv, Managed
<1>2. PICK p \in {Address(me), Variable(me)} :
        /\ \/ poll = "manage" /\ poll' = "device" /\ p = Address(me) /\ ~node[me]
           \/ poll = "variable" /\ poll' = "value" /\ p = Variable(me)
        /\ hold[p] = None
        /\ alloc' = [alloc EXCEPT !["poll"] = [for |-> p, at |-> "parse"]]
        /\ ua' = ua /\ ready' = ready /\ UNCHANGED <<interface, hold, node, cur>>
  BY <1>1 DEF AllocateDevice, AllocateVariable, AllocateFor, Changed, PollGoes, PollOnly,
              pool, cycle
<1>3. alloc'["poll"] = [for |-> p, at |-> "parse"]
  BY <1>2 DEF FollowsInv, Inv, TypeOK, Callers
<1>4. alloc["poll"].at = "none"
  BY <1>2 DEF FollowsInv, Phases, Asked
<1>5. Phases' /\ Refusal'
  <2>1. Unstarted' /\ Asked' /\ Refusal'
    BY <1>1, <1>2, <1>3 DEF FollowsInv, Phases, Unstarted, Asked, Refusal
  <2>2. NodeDue'
    BY <1>1, <1>2 DEF FollowsInv, Phases, NodeDue
  <2>3. QED
    BY <2>1, <2>2 DEF Phases
<1>6. ~Sure(p)
  BY <1>2, PoolFacts DEF Sure
<1>7. AllFollow'
  <2> SUFFICES ASSUME ready PROVE AllFollow'
    BY <1>2 DEF AllFollow
  <2>1. ~Pending(Address(me)) /\ ~Pending(Variable(me))
    BY <1>4 DEF Pending
  <2>2. Address(me) # Variable(me)
    BY DistinctOwners
  <2>3. /\ Sure(Address(me)) => AddressDue(me)' = AddressDue(me)
        /\ Sure(Variable(me)) => VariableDue(me)' = VariableDue(me)
    BY <1>1, <1>2, <1>6, <2>2 DEF AddressDue, VariableDue
  <2>4. UNCHANGED <<interface, hold>> /\ cur' = cur /\ node' = node
    BY <1>2
  <2>5. QED
    BY <1>1, <2>1, <2>3, <2>4, UntouchedFollows
<1>8. QED
  BY <1>5, <1>7

LEMMA AnsweredFollows ==
    ASSUME FollowsInv, DeviceAllocated \/ DeviceNotAllocated
    PROVE  Phases' /\ Refusal' /\ AllFollow'
<1>1. PICK me \in Devices : me = cur
  BY DEF DeviceAllocated, DeviceNotAllocated, PollGoes, FollowsInv, Inv, Managed
<1>2. /\ poll = "device"
      /\ \/ poll' = "node" /\ cur' = cur /\ alloc["poll"].at = "ok"
         \/ poll' = "manage" /\ alloc["poll"].at = "failed"
      /\ alloc' = [alloc EXCEPT !["poll"] = Idle]
      /\ ua' = ua /\ ready' = ready /\ UNCHANGED <<interface, hold, node>>
  BY <1>1 DEF DeviceAllocated, DeviceNotAllocated, PollGoes, PollOnly, CallGoes, pool, cycle
<1>3. alloc'["poll"].at = "none"
  BY <1>2 DEF FollowsInv, Inv, TypeOK, Callers, Idle
<1>4. alloc["poll"].for = Address(me)
  BY <1>1, <1>2 DEF FollowsInv, Phases, Asked
<1>5. Phases' /\ Refusal'
  <2>1. Unstarted' /\ Asked' /\ Refusal'
    BY <1>1, <1>2, <1>3 DEF FollowsInv, Phases, Unstarted, Asked, Refusal
  <2>2. NodeDue'
    BY <1>1, <1>2 DEF FollowsInv, Phases, NodeDue
  <2>3. QED
    BY <2>1, <2>2 DEF Phases
<1>6. AllFollow'
  <2> SUFFICES ASSUME ready PROVE AllFollow'
    BY <1>2 DEF AllFollow
  <2>1. ~Pending(Address(me)) /\ ~Pending(Variable(me))
    BY <1>2 DEF Pending
  <2>2. poll' = "manage" => ~Sure(Address(me))
    BY <1>2, <1>4 DEF FollowsInv, Refusal
  <2>3. /\ Sure(Address(me)) => AddressDue(me)' = AddressDue(me)
        /\ Sure(Variable(me)) => VariableDue(me)' = VariableDue(me)
    BY <1>1, <1>2, <2>2 DEF AddressDue, VariableDue
  <2>4. UNCHANGED <<interface, hold>> /\ (cur' = cur \/ poll' \in Quiet) /\ node' = node
    BY <1>2 DEF Quiet
  <2>5. QED
    BY <1>1, <2>1, <2>3, <2>4, UntouchedFollows
<1>7. QED
  BY <1>5, <1>6

LEMMA CreateNodeFollows ==
    ASSUME FollowsInv, CreateNode
    PROVE  Phases' /\ Refusal' /\ AllFollow'
<1>1. PICK me \in Devices : me = cur
  BY DEF CreateNode, PollGoes, FollowsInv, Inv, Managed
<1>2. /\ poll = "node" /\ poll' = "variable"
      /\ hold[Address(me)] # Garbage => node'[me] = TRUE
      /\ \A d \in Devices \ {me} : node'[d] = node[d]
      /\ ua' = ua /\ ready' = ready /\ UNCHANGED <<interface, hold, alloc, cur>>
  BY <1>1 DEF CreateNode, PollGoes, PollOnly, pool, cycle, FollowsInv, Inv, TypeOK
<1>3. alloc["poll"].at = "none"
  BY <1>2 DEF FollowsInv, Phases, Asked
<1>4. ~node[me]
  BY <1>1, <1>2 DEF FollowsInv, Phases, NodeDue
<1>5. Phases' /\ Refusal'
  BY <1>1, <1>2, <1>3 DEF FollowsInv, Phases, Unstarted, Asked, NodeDue, Refusal
<1>6. AllFollow'
  <2> SUFFICES ASSUME ready PROVE AllFollow'
    BY <1>2 DEF AllFollow
  <2>1. ~Pending(Address(me)) /\ ~Pending(Variable(me))
    BY <1>3 DEF Pending
  <2>2. node[me] = FALSE
    BY <1>4 DEF FollowsInv, Inv, TypeOK
  <2>3. AddressDue(me)' = AddressDue(me) /\ VariableDue(me)' = VariableDue(me)
    BY <1>1, <1>2, <2>2 DEF AddressDue, VariableDue
  <2>4. UNCHANGED <<interface, hold>> /\ cur' = cur
    BY <1>2
  <2>5. QED
    BY <1>1, <1>2, <2>1, <2>3, <2>4, UntouchedFollows
<1>7. QED
  BY <1>5, <1>6

(* What was refused for a variable is forgotten. *)
LEMMA EndAddingFollows ==
    ASSUME FollowsInv, EndAdding
    PROVE  Phases' /\ Refusal' /\ AllFollow'
<1>1. PICK me \in Devices : me = cur
  BY DEF EndAdding, PollGoes, FollowsInv, Inv, Managed
<1>2. /\ poll = "value" /\ poll' = "manage" /\ alloc["poll"].at # "add"
      /\ alloc' = [alloc EXCEPT !["poll"] = Idle]
      /\ ua' = ua /\ ready' = ready /\ UNCHANGED <<interface, node>>
  BY <1>1 DEF EndAdding, PollGoes, PollOnly, pool, cycle
<1>3. alloc'["poll"].at = "none"
  BY <1>2 DEF FollowsInv, Inv, TypeOK, Callers, Idle
<1>4. Phases' /\ Refusal'
  BY <1>2, <1>3 DEF FollowsInv, Phases, Unstarted, Asked, NodeDue, Refusal
<1>5. /\ \A o \in Owners \ {Variable(me)} : hold'[o] = hold[o]
      /\ hold'[Variable(me)] \in {hold[Variable(me)], None}
  <2>1. hold \in [Owners -> Pool \cup {None, Garbage}]
    BY DEF FollowsInv, Inv, TypeOK
  <2>2. hold' = hold \/ hold' = [hold EXCEPT ![Variable(me)] = None]
    BY <1>1 DEF EndAdding
  <2>3. QED
    BY <1>1, <2>1, <2>2, OwnerFacts
<1>6. AllFollow'
  <2> SUFFICES ASSUME ready PROVE AllFollow'
    BY <1>2 DEF AllFollow
  <2>1. At(Variable(me))
    BY <1>1, <1>2, <1>5 DEF At, Quiet
  <2>2. Address(me) \in {Address(me), Variable(me)} \ {Variable(me)}
    BY DistinctOwners
  <2>3. /\ hold'[Address(me)] = hold[Address(me)]
        /\ Sure(Address(me))' => Sure(Address(me)) /\ (Has(Address(me))' <=> Has(Address(me)))
    BY <1>1, <2>1, <2>2, OtherStays
  <2>4. Sure(Variable(me))' => Sure(Variable(me)) /\ (Has(Variable(me))' <=> Has(Variable(me)))
    BY <1>2, <1>5, PoolFacts DEF Sure, Has, interface
  <2>5. /\ AddressDue(me) = TRUE /\ VariableDue(me) = TRUE
        /\ AddressDue(me)' = node[me] /\ VariableDue(me)' = node[me]
    BY <1>1, <1>2 DEF AddressDue, VariableDue
  <2>6. node[me] \/ hold[Address(me)] = Garbage
    BY <1>1, <1>2 DEF FollowsInv, Phases, NodeDue
  <2>7. Follows(me) /\ ~Pending(Address(me)) /\ ~Pending(Variable(me))
    BY <1>2 DEF FollowsInv, AllFollow, Pending
  <2>8. Follows(me)'
    BY <2>3, <2>4, <2>5, <2>6, <2>7, Zenon DEF Follows
  <2>9. QED
    BY <1>1, <2>1, <2>8, AllWithCur
<1>7. QED
  BY <1>4, <1>6

-----------------------------------------------------------------------------
(* The poller's call of ipv6_allocate_address.  It is for an owner of the  *)
(* device the poller is at, which is due its address.                      *)
LEMMA PollCallFacts ==
    ASSUME FollowsInv, AllocateStep("poll")
    PROVE  \E p \in {Address(cur), Variable(cur)} :
              /\ cur \in Devices /\ alloc["poll"].for = p /\ alloc'["poll"].for = p
              /\ \/ poll = "device" /\ p = Address(cur)
                 \/ poll = "value" /\ p = Variable(cur)
              /\ alloc'["poll"].at # "none"
              /\ alloc["poll"].at = "add" => alloc'["poll"].at \in {"map", "failed"}
              /\ ua' = ua /\ ready' = ready /\ UNCHANGED <<poll, node, cur>>
              /\ alloc["poll"].at # "none"
<1>1. /\ alloc["poll"].at # "none"
      /\ ready' = ready /\ UNCHANGED <<ua, poll, node, cur>>
  BY DEF AllocateStep, ParsePool, Generate, Exhausted, AddAddress, AddRefused, MapAddress,
         CallOnly, CallGoes, threads, cycle, pool
<1>2. /\ alloc'["poll"].for = alloc["poll"].for /\ alloc'["poll"].at # "none"
      /\ alloc["poll"].at = "add" => alloc'["poll"].at \in {"map", "failed"}
  <2>1. \E from \in Steps, to \in Steps \ {"none"} :
          /\ CallGoes("poll", from, to)
          /\ from = "add" => to \in {"map", "failed"}
    BY DEF AllocateStep, ParsePool, Generate, Exhausted, AddAddress, AddRefused, MapAddress,
           Steps
  <2>2. PICK from \in Steps, to \in Steps \ {"none"} :
          /\ CallGoes("poll", from, to)
          /\ from = "add" => to \in {"map", "failed"}
    BY <2>1
  <2>3. alloc["poll"] \in [for : Owners, at : Steps] /\ "poll" \in DOMAIN alloc
    BY DEF FollowsInv, Inv, TypeOK, Callers
  <2>4. /\ alloc["poll"].at = from
        /\ alloc' = [alloc EXCEPT !["poll"] = [@ EXCEPT !.at = to]]
    BY <2>2 DEF CallGoes
  <2>5. alloc'["poll"] = [alloc["poll"] EXCEPT !.at = to]
    BY <2>3, <2>4
  <2>6. alloc'["poll"].for = alloc["poll"].for /\ alloc'["poll"].at = to
    BY <2>3, <2>5
  <2>7. QED
    BY <2>2, <2>4, <2>6
<1>3. \/ poll = "device" /\ alloc["poll"].for = Address(cur)
      \/ poll = "value" /\ alloc["poll"].for = Variable(cur)
  BY <1>1 DEF FollowsInv, Phases, Asked
<1>4. cur \in Devices
  BY <1>3 DEF FollowsInv, Inv, Managed
<1>5. QED
  BY <1>1, <1>2, <1>3, <1>4

LEMMA PollCallTouches ==
    ASSUME FollowsInv, AllocateStep("poll"), NEW p, p = alloc["poll"].for
    PROVE  /\ p \in Owners
           /\ \A o \in Owners \ {p} : hold'[o] = hold[o]
           /\ UNCHANGED interface \/ (hold[p] \in Pool /\ Command(hold[p]))
           /\ alloc["poll"].at = "add" /\ Sure(p)' => Has(p)'
           /\ alloc["poll"].at = "generate" => alloc'["poll"].at = "add" \/ ~Sure(p)'
           /\ alloc["poll"].at \notin {"generate", "add"} => UNCHANGED <<interface, hold>>
           /\ alloc'["poll"].at = "failed" => ~Sure(p)'
           /\ hold[p] = Garbage => hold'[p] = Garbage
<1>1. "poll" \in Callers /\ p \in Owners
  BY DEF Callers, FollowsInv, Inv, TypeOK
<1>2. alloc["poll"] \in [for : Owners, at : Steps] /\ "poll" \in DOMAIN alloc
  BY <1>1 DEF FollowsInv, Inv, TypeOK
<1>3. /\ alloc["poll"].at \in {"parse", "generate"} => hold[p] = None
      /\ alloc["poll"].at \in {"add", "map", "ok"} => hold[p] \in Pool
  BY <1>1 DEF FollowsInv, Inv, Shapes, CallShape
<1>4. CASE ParsePool("poll") \/ Exhausted("poll")
  <2>1. /\ alloc["poll"].at \in {"parse", "generate"} /\ UNCHANGED <<interface, hold>>
        /\ alloc'["poll"].at \in {"failed", "generate"}
    BY <1>2, <1>4 DEF ParsePool, Exhausted, CallGoes
  <2>2. ~Sure(p)'
    BY <1>3, <2>1, PoolFacts DEF Sure
  <2>3. QED
    BY <1>1, <2>1, <2>2
<1>5. CASE MapAddress("poll")
  <2>1. /\ alloc["poll"].at = "map" /\ UNCHANGED <<interface, hold>>
        /\ alloc'["poll"].at = "ok"
    BY <1>2, <1>5 DEF MapAddress, CallGoes
  <2>2. QED
    BY <1>1, <2>1
<1>6. CASE Generate("poll")
  <2>1. /\ alloc["poll"].at = "generate" /\ UNCHANGED interface
        /\ alloc'["poll"].at = "add"
    BY <1>2, <1>6 DEF Generate, CallGoes
  <2>2. hold[p] = None /\ \A o \in Owners \ {p} : hold'[o] = hold[o]
    BY <1>1, <1>6, GenerateFacts DEF FollowsInv
  <2>3. QED
    BY <1>1, <2>1, <2>2, MarkAssumption
<1>7. CASE AddAddress("poll")
  <2>1. /\ alloc["poll"].at = "add" /\ hold' = hold /\ alloc'["poll"].at = "map"
        /\ Put(hold[p])
    BY <1>2, <1>7 DEF AddAddress, CallGoes
  <2>2. Has(p)'
    BY <2>1 DEF Put, Has
  <2>3. QED
    BY <1>1, <1>3, <2>1, <2>2 DEF Command
<1>8. CASE AddRefused("poll")
  <2>1. /\ alloc["poll"].at = "add" /\ hold' = hold /\ alloc'["poll"].at = "failed"
        /\ PutRefused(hold[p])
    BY <1>2, <1>8 DEF AddRefused, CallGoes
  <2>2. ~Sure(p)'
    BY <2>1 DEF PutRefused, Sure
  <2>3. QED
    BY <1>1, <1>3, <2>1, <2>2 DEF Command
<1>9. QED
  BY <1>4, <1>5, <1>6, <1>7, <1>8 DEF AllocateStep

LEMMA PollCallFollows ==
    ASSUME FollowsInv, AllocateStep("poll")
    PROVE  Phases' /\ Refusal' /\ AllFollow'
<1>1. PICK me \in Devices : me = cur
  BY PollCallFacts
<1>2. PICK p \in {Address(me), Variable(me)} :
        /\ alloc["poll"].for = p /\ alloc'["poll"].for = p
        /\ \/ poll = "device" /\ p = Address(me)
           \/ poll = "value" /\ p = Variable(me)
        /\ alloc["poll"].at = "add" => alloc'["poll"].at \in {"map", "failed"}
        /\ ua' = ua /\ ready' = ready /\ UNCHANGED <<poll, node, cur>>
        /\ alloc["poll"].at # "none"
  BY <1>1, PollCallFacts
<1>3. /\ p \in Owners
      /\ \A o \in Owners \ {p} : hold'[o] = hold[o]
      /\ UNCHANGED interface \/ (hold[p] \in Pool /\ Command(hold[p]))
      /\ alloc["poll"].at = "add" /\ Sure(p)' => Has(p)'
      /\ alloc["poll"].at = "generate" => alloc'["poll"].at = "add" \/ ~Sure(p)'
      /\ alloc["poll"].at \notin {"generate", "add"} => UNCHANGED <<interface, hold>>
      /\ alloc'["poll"].at = "failed" => ~Sure(p)'
      /\ hold[p] = Garbage => hold'[p] = Garbage
  BY <1>2, PollCallTouches
<1>4. hold[Address(me)] = Garbage => hold'[Address(me)] = Garbage
  BY <1>3, OwnerFacts
<1>5. Phases'
  <2>1. Unstarted' /\ Asked'
    BY <1>1, <1>2 DEF FollowsInv, Phases, Unstarted, Asked
  <2>2. NodeDue'
    BY <1>1, <1>2, <1>4 DEF FollowsInv, Phases, NodeDue
  <2>3. QED
    BY <2>1, <2>2 DEF Phases
<1>6. Refusal'
  BY <1>2, <1>3 DEF Refusal, Sure
<1>7. AllFollow'
  <2> SUFFICES ASSUME ready PROVE AllFollow'
    BY <1>2 DEF AllFollow
  <2>1. At(p)
    BY <1>1, <1>2, <1>3 DEF At
  <2>2. /\ AddressDue(me)' = AddressDue(me) /\ VariableDue(me)' = VariableDue(me)
        /\ p = Address(me) => AddressDue(me) = TRUE
        /\ p = Variable(me) => VariableDue(me) = TRUE
    BY <1>1, <1>2, DistinctOwners DEF AddressDue, VariableDue
  <2>3. Follows(me)
    BY DEF FollowsInv, AllFollow
  <2>4. Sure(p)' /\ ~Pending(p)' => \/ Has(p)'
                                   \/ /\ UNCHANGED <<interface, hold>> /\ ~Pending(p)
    BY <1>2, <1>3 DEF Pending
  <2>5. UNCHANGED <<interface, hold>> => /\ Sure(p)' => Sure(p)
                                         /\ Has(p)' <=> Has(p)
    BY DEF Sure, Has, interface
  <2>6. \A q \in {Address(me), Variable(me)} \ {p} :
          /\ hold'[q] = hold[q] /\ ~Pending(q)
          /\ Sure(q)' => Sure(q) /\ (Has(q)' <=> Has(q))
    BY <1>1, <1>2, <2>1, OtherStays DEF Pending
  <2>7. Address(me) # Variable(me)
    BY DistinctOwners
  <2>8. hold'[Address(me)] # Garbage =>
          hold[Address(me)] # Garbage
    BY <1>4
  <2>9. CASE p = Address(me)
    <3>1. Sure(p)' /\ ~Pending(p)' /\ hold'[p] # Garbage => Has(p)'
      BY <2>2, <2>3, <2>4, <2>5, <2>8, <2>9, Zenon DEF Follows
    <3>2. /\ ~Pending(Variable(me))
          /\ Sure(Variable(me))' => Sure(Variable(me)) /\ (Has(Variable(me))' <=> Has(Variable(me)))
      BY <2>6, <2>7, <2>9
    <3>3. Follows(me)'
      BY <2>2, <2>3, <2>8, <2>9, <3>1, <3>2, Zenon DEF Follows
    <3>4. QED
      BY <1>1, <2>1, <3>3, AllWithCur
  <2>10. CASE p = Variable(me)
    <3>1. Sure(p)' /\ ~Pending(p)' /\ hold'[Address(me)] # Garbage => Has(p)'
      BY <2>2, <2>3, <2>4, <2>5, <2>8, <2>10, Zenon DEF Follows
    <3>2. /\ ~Pending(Address(me))
          /\ Sure(Address(me))' => Sure(Address(me)) /\ (Has(Address(me))' <=> Has(Address(me)))
      BY <2>6, <2>7, <2>10
    <3>3. Follows(me)'
      BY <2>2, <2>3, <2>8, <2>10, <3>1, <3>2, Zenon DEF Follows
    <3>4. QED
      BY <1>1, <2>1, <3>3, AllWithCur
  <2>11. QED
    BY <2>9, <2>10
<1>8. QED
  BY <1>5, <1>6, <1>7

-----------------------------------------------------------------------------
LEMMA NextFollows == FollowsInv /\ [Next]_vars => FollowsInv'
<1> SUFFICES ASSUME FollowsInv, [Next]_vars PROVE FollowsInv'
  OBVIOUS
<1>1. Inv'
  BY NextInv DEF FollowsInv
<1>2. CASE MainStep
  <2>1. InitialiseFails \/ Return => End
    BY DEF InitialiseFails, Return
  <2>2. Apart \/ End \/ Initialise
    BY <1>2, <2>1, MainApart, MainCallApart DEF MainStep, FollowsInv
  <2>3. QED
    BY <1>1, <2>2, ApartKeeps, EndsFollow DEF FollowsInv
<1>3. CASE ServerStep \/ RunEnds \/ PrintMappings \/ EndPrinting \/ Stop
  BY <1>1, <1>3, OthersFollowOn DEF FollowsInv
<1>4. CASE PollStep
  BY <1>1, <1>4, RestsFollow, ReuseDeviceFollows, ReuseVariableFollows, RemoveDeviceFollows,
     RemoveNodesFollows, AskFollows, AnsweredFollows, CreateNodeFollows, EndAddingFollows,
     PollCallFollows
  DEF PollStep, FollowsInv
<1>5. CASE Kill \/ Start
  BY <1>1, <1>5, EndsFollow DEF Kill, FollowsInv
<1>6. CASE UNCHANGED vars
  <2>1. Idly /\ Unstarted'
    BY <1>6 DEF vars, threads, pool, cycle, Idly, FollowsInv, Phases, Unstarted
  <2>2. QED
    BY <1>1, <2>1, IdlyKeeps DEF FollowsInv
<1>7. QED
  BY <1>2, <1>3, <1>4, <1>5, <1>6 DEF Next

(* Between cycles the interface has the addresses of the devices that have *)
(* their nodes and of their variables, and no other device's: whatever     *)
(* main does meanwhile, whichever commands fail, and for any pool.         *)
THEOREM LinuxInterfaceFollows == Spec => []InterfaceFollowsNodes
<1>1. FollowsInv => InterfaceFollowsNodes
  <2> SUFFICES ASSUME FollowsInv, poll = "top", ready, NEW d \in Devices,
                      hold[Address(d)] # Garbage, NEW o \in {Address(d), Variable(d)},
                      hold[o] \in Pool \ refused
               PROVE  hold[o] \in nic <=> node[d]
    BY DEF InterfaceFollowsNodes
  <2>1. alloc["poll"].at = "none"
    BY DEF FollowsInv, Phases, Asked
  <2>2. ~Pending(o) /\ Sure(o) /\ (Has(o) <=> hold[o] \in nic)
    BY <2>1 DEF Pending, Sure, Has
  <2>3. AddressDue(d) = node[d] /\ VariableDue(d) = node[d]
    BY DueFacts DEF Quiet
  <2>4. Follows(d)
    BY DEF FollowsInv, AllFollow
  <2>5. QED
    BY <2>2, <2>3, <2>4, Zenon DEF Follows
<1>2. Spec => []FollowsInv
  BY InitFollows, NextFollows, PTL DEF Spec
<1>3. QED
  BY <1>1, <1>2, PTL
=============================================================================
