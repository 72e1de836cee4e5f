-------------------------- MODULE DevicePollingProofs --------------------------
(***************************************************************************)
(* Proofs about DevicePolling, for any devices, variables, plan and pool:  *)
(* the interface and the server's nodes follow the devices' handles, an    *)
(* item keeps its address, and a device comes and goes on what was read in *)
(* the same cycle: to the clients, as a whole (DevicePresence).            *)
(***************************************************************************)
EXTENDS DevicePolling, TLAPS

(* Where the poller is among the blocks, the devices and the variables.    *)
Place ==
    /\ pc \in {"add", "delete"} => next \in Devices /\ item \in 1..(VarCount[next] + 1)
    /\ pc = "read" => next \in 1..(BlockCount + 1)
    /\ pc = "manage" => next \in 1..(DeviceCount + 1)

(* An address is given once, in the order of the counter.                  *)
Addresses ==
    /\ \A i \in Items : address[i] # None => address[i] \in 1..counter
    /\ \A i, k \in Items : address[i] # None /\ address[i] = address[k] => i = k

(* A handle is the item's own address or Default, and the server has it;   *)
(* a device's is its address, from the beginning of its addition to the    *)
(* end of its deletion.                                                    *)
Nodes ==
    /\ \A i \in Items : node[i] \in NodeIds =>
           node[i] \in server /\ node[i] \in {Default, address[i]}
    /\ \A i, k \in Items : node[i] = Default /\ node[k] = Default => i = k
    /\ \A a \in server \cap Addrs : \E i \in Items : node[i] = a /\ address[i] = a
DeviceNodes ==
    /\ \A d \in Devices : node[Device(d)] # None =>
           node[Device(d)] \in Addrs /\ node[Device(d)] = address[Device(d)]
    /\ pc \in {"add", "delete"} => node[Device(next)] # None

(* Whether item j of d is among those whose device is there, as far as the *)
(* poller has come with it.                                                *)
On(d, j) == IF pc = "add" /\ next = d THEN j < item
            ELSE IF pc = "delete" /\ next = d THEN j >= item
            ELSE node[Device(d)] # None

AtHome(i) == address[i] # None => node[i] = address[i]
Variables == \A d \in Devices : \A j \in 1..VarCount[d] :
                 IF On(d, j) THEN AtHome(<<d, j>>) ELSE node[<<d, j>>] = None
Right(d, j) == address[<<d, j>>] # None =>
                   \/ address[<<d, j>>] \in failed
                   \/ address[<<d, j>>] \in nic <=> On(d, j)
Interface == \A d \in Devices : \A j \in 0..VarCount[d] : Right(d, j)

(* The statuses are those of this cycle, unless it is cut short by a stop. *)
Statuses ==
    /\ pc = "read" => \A d \in Devices : StatusBlock[d] \in 1..(next - 1) => d \in fresh
    /\ pc \in {"update", "manage", "add", "delete"} =>
           ~running \/ \A d \in Devices : StatusBlock[d] # 0 => d \in fresh
    /\ \A d \in Devices : StatusBlock[d] = 0 => node[Device(d)] = None

PollInv == /\ TypeOK /\ Place /\ Statuses
           /\ Addresses /\ Nodes /\ DeviceNodes /\ Variables /\ Interface

-----------------------------------------------------------------------------
LEMMA ItemFacts ==
    /\ \A d \in Devices : \A j \in 0..VarCount[d] : <<d, j>> \in Items /\ <<d, j>> \in Item(d)
    /\ \A d \in Devices : \A i \in Item(d) : \E j \in 0..VarCount[d] : i = <<d, j>>
    /\ \A i \in Items : \E d \in Devices : \E j \in 0..VarCount[d] : i = <<d, j>>
    /\ \A d \in Devices : /\ Device(d) \in Items /\ Device(d) = <<d, 0>>
                          /\ VarCount[d] \in Nat /\ 0 \in 0..VarCount[d]
                          /\ \A j \in 1..VarCount[d] : j \in 0..VarCount[d]
<1>1. \A d \in Devices : /\ VarCount[d] \in Nat /\ 0 \in 0..VarCount[d]
                         /\ \A j \in 1..VarCount[d] : j \in 0..VarCount[d]
  BY DeviceAssumption
<1>2. \A d \in Devices : \A j \in 0..VarCount[d] : <<d, j>> \in Items /\ <<d, j>> \in Item(d)
  BY DEF Items, Item
<1>3. \A d \in Devices : \A i \in Item(d) : \E j \in 0..VarCount[d] : i = <<d, j>>
  BY DEF Item
<1>4. \A i \in Items : \E d \in Devices : i \in Item(d)
  BY DEF Items
<1>5. QED
  BY <1>1, <1>2, <1>3, <1>4 DEF Device

LEMMA InitPollInv == Init => PollInv
<1> SUFFICES ASSUME Init PROVE PollInv
  OBVIOUS
<1> USE DEF Init
<1>1. TypeOK
  <2>1. /\ 0 \in 0..(1 + IF BlockCount > DeviceCount THEN BlockCount ELSE DeviceCount)
        /\ 0 \in 0..Capacity /\ item \in Nat
    BY DeviceAssumption
  <2>2. server \subseteq NodeIds
    BY DEF NodeIds
  <2>3. /\ address \in [Items -> Addrs \cup {None}]
        /\ node \in [Items -> NodeIds \cup {None, Wild}]
        /\ cached \in [Devices -> {"online", "offline"}]
    OBVIOUS
  <2>4. QED
    BY <2>1, <2>2, <2>3 DEF TypeOK
<1>2. \A i \in Items : node[i] = None /\ address[i] = None
  OBVIOUS
<1>3. Place /\ Statuses
  BY <1>2, ItemFacts DEF Place, Statuses
<1>4. Addresses /\ Nodes /\ DeviceNodes
  BY <1>2, ItemFacts, NullAssumption DEF Addresses, Nodes, DeviceNodes, NodeIds, Addrs, Default
<1>5. Variables /\ Interface
  <2>1. \A d \in Devices : \A j \in 0..VarCount[d] : <<d, j>> \in Items
    BY ItemFacts
  <2>2. \A d \in Devices : \A j \in 1..VarCount[d] : <<d, j>> \in Items
    BY <2>1, ItemFacts
  <2>3. QED
    BY <1>2, <2>1, <2>2 DEF Variables, AtHome, Interface, Right
<1>6. QED
  BY <1>1, <1>3, <1>4, <1>5 DEF PollInv

-----------------------------------------------------------------------------
(* Steps that leave the items alone, and no device half added or deleted.  *)
Resting == {"top", "wait", "read", "update", "manage", "sleep", "done"}

LEMMA ItemsRest ==
    ASSUME PollInv, UNCHANGED itemVars,
           \/ pc' = pc /\ next' = next /\ item' = item
           \/ pc \in Resting /\ pc' \in Resting
    PROVE  Addresses' /\ Nodes' /\ DeviceNodes' /\ Variables' /\ Interface'
<1>1. UNCHANGED <<address, node, server, nic, counter, failed>>
  BY DEF itemVars
<1>2. \/ pc' = pc /\ next' = next /\ item' = item
      \/ pc \in Resting /\ pc' \in Resting
  OBVIOUS
<1>3. \A d \in Devices, j \in Nat : On(d, j)' <=> On(d, j)
  BY <1>1, <1>2 DEF On, Resting
<1>4. Addresses' /\ Nodes'
  BY <1>1 DEF PollInv, Addresses, Nodes
<1>5. DeviceNodes'
  BY <1>1, <1>2 DEF PollInv, DeviceNodes, Resting
<1>6. Variables'
  <2>1. \A d \in Devices : \A j \in 1..VarCount[d] : On(d, j)' <=> On(d, j)
    BY <1>3
  <2>2. QED
    BY <1>1, <2>1 DEF PollInv, Variables, AtHome
<1>7. Interface'
  <2>1. \A d \in Devices : \A j \in 0..VarCount[d] : On(d, j)' <=> On(d, j)
    BY <1>3
  <2>2. QED
    BY <1>1, <2>1 DEF PollInv, Interface, Right
<1>8. QED
  BY <1>4, <1>5, <1>6, <1>7

LEMMA NextRange ==
    ASSUME NEW n, n = 0 \/ n \in 1..(BlockCount + 1) \/ n \in 1..(DeviceCount + 1)
    PROVE  n \in 0..(1 + IF BlockCount > DeviceCount THEN BlockCount ELSE DeviceCount)
<1>1. BlockCount \in Nat /\ DeviceCount \in Nat
  BY DeviceAssumption
<1>2. CASE BlockCount > DeviceCount
  BY <1>1, <1>2
<1>3. CASE ~(BlockCount > DeviceCount)
  BY <1>1, <1>3
<1>4. QED
  BY <1>2, <1>3

LEMMA EnvironmentKeeps ==
    ASSUME PollInv, Environment
    PROVE  PollInv'
<1> USE DEF Environment, SlaveChanges, DeviceChanges, Stop, slaveVars
<1>1. /\ UNCHANGED <<pc, next, item, connected, cached, fresh>>
      /\ UNCHANGED itemVars
      /\ running' = running \/ running' = FALSE
  OBVIOUS
<1>2. TypeOK'
  <2>1. /\ slave' \in {"down", "faulty", "up"} /\ running' \in BOOLEAN
        /\ reported' \in [Devices -> {"online", "offline"}]
    BY DEF PollInv, TypeOK
  <2>2. QED
    BY <1>1, <2>1 DEF PollInv, TypeOK, itemVars
<1>3. Place' /\ Statuses'
  BY <1>1 DEF PollInv, Place, Statuses, itemVars
<1>4. QED
  BY <1>1, <1>2, <1>3, ItemsRest DEF PollInv

LEMMA ReadStepKeeps ==
    ASSUME PollInv, ReadStep \/ KeepDevice \/ EndManaging \/ Sleep
    PROVE  PollInv'
<1> USE DEF ReadStep, KeepDevice, EndManaging, Sleep, LeaveLoop, AlreadyConnected, Connect,
            ConnectFails, WaitReconnect, ReadBlock, ReadFails, EndReading, Update,
            StartReading, NextDevice
<1>1. /\ UNCHANGED itemVars /\ UNCHANGED slaveVars /\ UNCHANGED running
      /\ pc \in Resting /\ pc' \in Resting
      /\ item' \in {item, 0}
  BY DEF Resting
<1>2. /\ BlockCount \in Nat /\ DeviceCount \in Nat
      /\ \A d \in Devices : StatusBlock[d] \in 0..BlockCount
  BY DeviceAssumption
<1>3. \/ next' = next \/ next' \in {0, 1}
      \/ next \in Blocks /\ next' = next + 1
      \/ next \in Devices /\ next' = next + 1
  OBVIOUS
<1>4. next' \in 0..(1 + IF BlockCount > DeviceCount THEN BlockCount ELSE DeviceCount)
  <2>1. next' = next \/ next' = 0 \/ next' \in 1..(BlockCount + 1)
        \/ next' \in 1..(DeviceCount + 1)
    BY <1>2, <1>3 DEF Blocks, Devices
  <2>2. QED
    BY <2>1, NextRange DEF PollInv, TypeOK
<1>5. TypeOK'
  <2>1. /\ connected' \in BOOLEAN /\ fresh' \subseteq Devices
        /\ item' \in Nat
    <3>1. connected' \in BOOLEAN
      BY DEF PollInv, TypeOK
    <3>2. fresh' \subseteq Devices
      BY DEF PollInv, TypeOK
    <3>3. item' \in Nat
      BY <1>1 DEF PollInv, TypeOK
    <3>4. QED
      BY <3>1, <3>2, <3>3
  <2>2. cached' \in [Devices -> {"online", "offline"}]
    BY DEF PollInv, TypeOK
  <2>3. QED
    BY <1>1, <1>4, <2>1, <2>2 DEF PollInv, TypeOK, itemVars, slaveVars, Resting
<1>6. Place'
  <2>1. pc' = "read" => next' \in 1..(BlockCount + 1)
    <3>1. pc' = "read" => next' = 1 \/ (next \in Blocks /\ next' = next + 1)
      OBVIOUS
    <3>2. QED
      BY <1>2, <3>1 DEF Blocks
  <2>2. pc' = "manage" => next' \in 1..(DeviceCount + 1)
    <3>1. pc' = "manage" => next' = 1 \/ (next \in Devices /\ next' = next + 1)
      OBVIOUS
    <3>2. QED
      BY <1>2, <3>1 DEF Devices
  <2>3. QED
    BY <1>1, <2>1, <2>2 DEF Place, Resting
<1>7. Statuses'
  <2>1. pc' = "read" => \A d \in Devices : StatusBlock[d] \in 1..(next' - 1) => d \in fresh'
    <3>1. CASE pc # "read"
      BY <3>1
    <3>2. CASE pc = "read"
      <4>1. pc' = "read" => /\ next \in Blocks /\ next' = next + 1
                            /\ fresh' = fresh \cup {d \in Devices : StatusBlock[d] = next}
        BY <3>2
      <4>2. \A d \in Devices : StatusBlock[d] \in 1..(next - 1) => d \in fresh
        BY <3>2 DEF PollInv, Statuses
      <4>3. next \in Blocks => \A b \in 1..next : b = next \/ b \in 1..(next - 1)
        BY DEF Blocks
      <4>4. next \in Blocks => (next + 1) - 1 = next
        BY DEF Blocks
      <4>5. QED
        BY <4>1, <4>2, <4>3, <4>4
    <3>3. QED
      BY <3>1, <3>2
  <2>2. pc' \in {"update", "manage"} =>
            ~running \/ \A d \in Devices : StatusBlock[d] # 0 => d \in fresh'
    <3>1. CASE pc \in {"update", "manage"}
      BY <3>1 DEF PollInv, Statuses
    <3>2. CASE pc = "read"
      <4>1. pc' \in {"update", "manage"} => fresh' = fresh /\ (next \notin Blocks \/ ~running)
        BY <3>2
      <4>2. next \in 1..(BlockCount + 1)
        BY <3>2 DEF PollInv, Place
      <4>3. next \notin Blocks => \A b \in 0..BlockCount : b = 0 \/ b \in 1..(next - 1)
        BY <4>2, <1>2 DEF Blocks
      <4>4. \A d \in Devices : StatusBlock[d] \in 1..(next - 1) => d \in fresh
        BY <3>2 DEF PollInv, Statuses
      <4>5. QED
        BY <4>1, <4>3, <4>4, <1>2
    <3>3. CASE pc \notin {"read", "update", "manage"}
      BY <3>3
    <3>4. QED
      BY <3>1, <3>2, <3>3
  <2>3. \A d \in Devices : StatusBlock[d] = 0 => node'[Device(d)] = None
    BY <1>1 DEF PollInv, Statuses, itemVars
  <2>4. QED
    BY <1>1, <2>1, <2>2, <2>3 DEF Statuses, Resting
<1>8. QED
  BY <1>1, <1>5, <1>6, <1>7, ItemsRest DEF PollInv

-----------------------------------------------------------------------------
(* An item gets its address, or has it put on the interface again.         *)
Elsewhere(i) == \A k \in Items : k # i =>
    /\ address'[k] = address[k]
    /\ address[k] # None => /\ address[k] \in nic' <=> address[k] \in nic
                            /\ address[k] \in failed' <=> address[k] \in failed

LEMMA AddressFacts ==
    ASSUME PollInv
    PROVE  /\ counter \in Nat /\ Capacity \in Nat /\ counter <= Capacity
           /\ \A a \in 1..counter : a \in Addrs /\ a # None /\ a \in NodeIds
           /\ None \notin Addrs /\ Wild \notin Addrs /\ Default \notin Addrs
           /\ address \in [Items -> Addrs \cup {None}]
           /\ node \in [Items -> NodeIds \cup {None, Wild}]
<1>1. counter \in Nat /\ Capacity \in Nat /\ counter <= Capacity
  BY DeviceAssumption DEF PollInv, TypeOK
<1>2. \A a \in 1..counter : a \in Addrs
  BY <1>1 DEF Addrs
<1>3. None \notin Addrs /\ Wild \notin Addrs /\ Default \notin Addrs
  BY NullAssumption DEF NodeIds, Addrs, Default
<1>4. QED
  BY <1>1, <1>2, <1>3 DEF NodeIds, PollInv, TypeOK

LEMMA EnsureGives ==
    ASSUME PollInv, NEW i \in Items, EnsureOn(i)
    PROVE  /\ address' = address /\ counter' = counter /\ address[i] \in Addrs
           /\ Addresses' /\ Elsewhere(i)
           /\ nic' \subseteq Addrs /\ failed' \subseteq Addrs
           /\ address[i] \in failed' \/ address[i] \in nic'
<1> USE DEF EnsureOn, AddToInterface
<1>1. address' = address /\ counter' = counter /\ address[i] # None
  OBVIOUS
<1>2. address[i] \in Addrs
  BY <1>1 DEF PollInv, TypeOK
<1>3. \A k \in Items : k # i => address[k] # address[i]
  BY <1>1 DEF PollInv, Addresses
<1>4. Elsewhere(i)
  BY <1>1, <1>3 DEF Elsewhere
<1>5. Addresses'
  BY <1>1 DEF PollInv, Addresses
<1>6. nic' \subseteq Addrs /\ failed' \subseteq Addrs
  BY <1>2 DEF PollInv, TypeOK
<1>7. QED
  BY <1>1, <1>2, <1>4, <1>5, <1>6

LEMMA AllocateGives ==
    ASSUME PollInv, NEW i \in Items, address[i] = None, counter < Capacity,
           counter' = counter + 1, address' = [address EXCEPT ![i] = counter + 1],
           \/ nic' = nic \cup {counter + 1} /\ failed' = failed
           \/ nic' = nic /\ failed' = failed \cup {counter + 1}
    PROVE  /\ address' \in [Items -> Addrs \cup {None}]
           /\ counter' \in 0..Capacity
           /\ address'[i] \in Addrs
           /\ Addresses' /\ Elsewhere(i)
           /\ nic' \subseteq Addrs /\ failed' \subseteq Addrs
           /\ address'[i] \in failed' \/ address'[i] \in nic'
<1>1. counter \in Nat /\ Capacity \in Nat /\ counter + 1 \in Addrs
  BY AddressFacts DEF Addrs
<1>2. address \in [Items -> Addrs \cup {None}]
  BY DEF PollInv, TypeOK
<1>3. /\ address' \in [Items -> Addrs \cup {None}] /\ address'[i] = counter + 1
      /\ \A k \in Items : k # i => address'[k] = address[k]
  BY <1>1, <1>2
<1>4. \A k \in Items : address[k] # None => address[k] \in 1..counter
  BY DEF PollInv, Addresses
<1>5. \A k \in Items : address[k] # None =>
        address[k] \in 1..(counter + 1) /\ address[k] # counter + 1
  BY <1>1, <1>4
<1>6. counter + 1 \in 1..(counter + 1)
  BY <1>1
<1>7. Addresses'
  <2>1. \A k \in Items : address'[k] # None => address'[k] \in 1..counter'
    BY <1>3, <1>5, <1>6
  <2>2. ASSUME NEW k \in Items, NEW l \in Items, address'[k] # None, address'[k] = address'[l]
        PROVE  k = l
    <3>1. CASE k # i /\ l # i
      BY <1>3, <2>2, <3>1 DEF PollInv, Addresses
    <3>2. CASE k = i \/ l = i
      <4>1. counter + 1 # None
        BY <1>1, AddressFacts
      <4>2. QED
        BY <1>3, <1>5, <2>2, <3>2, <4>1
    <3>3. QED
      BY <3>1, <3>2
  <2>3. QED
    BY <2>1, <2>2 DEF Addresses
<1>8. Elsewhere(i)
  BY <1>3, <1>5 DEF Elsewhere
<1>9. nic' \subseteq Addrs /\ failed' \subseteq Addrs
  BY <1>1 DEF PollInv, TypeOK
<1>10. counter' \in 0..Capacity
  BY <1>1
<1>11. QED
  BY <1>1, <1>3, <1>7, <1>8, <1>9, <1>10

LEMMA GetsAddress ==
    ASSUME PollInv, NEW i \in Items, EnsureOn(i) \/ AllocateTo(i)
    PROVE  /\ address' \in [Items -> Addrs \cup {None}]
           /\ counter' \in 0..Capacity
           /\ address'[i] \in Addrs
           /\ Addresses' /\ Elsewhere(i)
           /\ nic' \subseteq Addrs /\ failed' \subseteq Addrs
           /\ address'[i] \in failed' \/ address'[i] \in nic'
<1>1. CASE EnsureOn(i)
  BY <1>1, EnsureGives DEF PollInv, TypeOK
<1>2. CASE AllocateTo(i)
  BY <1>2, AllocateGives DEF AllocateTo
<1>3. QED
  BY <1>1, <1>2

-----------------------------------------------------------------------------
(* An item without a node gets one, under its own address or Default.      *)
LEMMA MakesNode ==
    ASSUME PollInv, NEW i \in Items, node[i] = None, Addresses', Elsewhere(i),
           NEW id, CreateNode(i, id),
           id = Default \/ (id \in Addrs /\ id = address'[i])
    PROVE  /\ node' \in [Items -> NodeIds \cup {None, Wild}]
           /\ server' \subseteq NodeIds
           /\ Nodes'
           /\ \A k \in Items : k # i => node'[k] = node[k]
           /\ id # Default => node'[i] = id
<1> USE DEF CreateNode
<1>1. /\ node \in [Items -> NodeIds \cup {None, Wild}] /\ server \subseteq NodeIds
      /\ id \in NodeIds /\ None \notin NodeIds /\ Wild \notin NodeIds
  BY NullAssumption DEF PollInv, TypeOK, NodeIds
<1>2. Nodes
  BY DEF PollInv
<1>3. id # Default => id \notin server
  <2> SUFFICES ASSUME id # Default, id \in server PROVE FALSE
    OBVIOUS
  <2>1. PICK k \in Items : node[k] = id /\ address[k] = id
    BY <1>2 DEF Nodes
  <2>2. k # i /\ address'[k] = id /\ id # None
    BY <1>1, <2>1, AddressFacts DEF Elsewhere
  <2>3. QED
    BY <2>2 DEF Addresses
<1>4. /\ node' \in [Items -> NodeIds \cup {None, Wild}]
      /\ \A k \in Items : k # i => node'[k] = node[k]
      /\ \/ node'[i] \in {None, Wild} /\ server' = server /\ id = Default
         \/ node'[i] = id /\ server' = server \cup {id} /\ id \notin server
  <2>1. CASE id \in server
    BY <1>1, <1>3, <2>1
  <2>2. CASE id \notin server
    BY <1>1, <2>2
  <2>3. QED
    BY <2>1, <2>2
<1>5. server' \subseteq NodeIds
  BY <1>1, <1>4
<1>6. \A k \in Items : node'[k] \in NodeIds =>
         node'[k] \in server' /\ node'[k] \in {Default, address'[k]}
  BY <1>1, <1>2, <1>4 DEF Nodes, Elsewhere
<1>7. \A k, l \in Items : node'[k] = Default /\ node'[l] = Default => k = l
  <2>1. \A k \in Items : node[k] = Default => Default \in server
    BY <1>2 DEF Nodes, NodeIds
  <2>2. Default # None /\ Default # Wild
    BY <1>1 DEF NodeIds
  <2>3. QED
    BY <1>2, <1>4, <2>1, <2>2 DEF Nodes
<1>8. \A a \in server' \cap Addrs : \E k \in Items : node'[k] = a /\ address'[k] = a
  <2> SUFFICES ASSUME NEW a \in server' \cap Addrs
               PROVE  \E k \in Items : node'[k] = a /\ address'[k] = a
    OBVIOUS
  <2>1. CASE a \in server
    <3>1. PICK k \in Items : node[k] = a /\ address[k] = a
      BY <1>2, <2>1 DEF Nodes
    <3>2. k # i
      BY <3>1, AddressFacts
    <3>3. QED
      BY <1>4, <3>1, <3>2 DEF Elsewhere
  <2>2. CASE a \notin server
    <3>1. a = id /\ id # Default /\ node'[i] = id
      BY <1>4, <2>2, AddressFacts
    <3>2. QED
      BY <3>1
  <2>3. QED
    BY <2>1, <2>2
<1>9. QED
  BY <1>3, <1>4, <1>5, <1>6, <1>7, <1>8 DEF Nodes

(* An item's node goes from the server, and the handle with it.            *)
LEMMA DropsNode ==
    ASSUME PollInv, NEW i \in Items, node' = [node EXCEPT ![i] = None],
           server' = server \ {node[i]}, address' = address
    PROVE  /\ node' \in [Items -> NodeIds \cup {None, Wild}]
           /\ server' \subseteq NodeIds
           /\ Nodes'
           /\ node'[i] = None /\ \A k \in Items : k # i => node'[k] = node[k]
<1>1. node \in [Items -> NodeIds \cup {None, Wild}] /\ server \subseteq NodeIds
  BY DEF PollInv, TypeOK
<1>2. /\ node' \in [Items -> NodeIds \cup {None, Wild}]
      /\ node'[i] = None /\ \A k \in Items : k # i => node'[k] = node[k]
      /\ None \notin NodeIds
  BY <1>1, NullAssumption
<1>3. Nodes /\ Addresses
  BY DEF PollInv
<1>4. \A k \in Items : k # i /\ node[k] \in NodeIds => node[k] # node[i]
  <2> SUFFICES ASSUME NEW k \in Items, k # i, node[k] \in NodeIds, node[k] = node[i]
               PROVE  FALSE
    OBVIOUS
  <2>1. node[k] \in {Default, address[k]} /\ node[i] \in {Default, address[i]}
    BY <1>3 DEF Nodes
  <2>2. node[k] # Default
    BY <1>3 DEF Nodes
  <2>3. address[k] = address[i] /\ address[k] # None
    BY <1>2, <2>1, <2>2
  <2>4. QED
    BY <1>3, <2>3 DEF Addresses
<1>5. \A k \in Items : node'[k] \in NodeIds =>
         node'[k] \in server' /\ node'[k] \in {Default, address'[k]}
  BY <1>2, <1>3, <1>4 DEF Nodes
<1>6. \A k, l \in Items : node'[k] = Default /\ node'[l] = Default => k = l
  <2>1. Default # None
    BY <1>2 DEF NodeIds
  <2>2. QED
    BY <1>2, <1>3, <2>1 DEF Nodes
<1>7. \A a \in server' \cap Addrs : \E k \in Items : node'[k] = a /\ address'[k] = a
  <2> SUFFICES ASSUME NEW a \in server' \cap Addrs
               PROVE  \E k \in Items : node'[k] = a /\ address'[k] = a
    OBVIOUS
  <2>1. PICK k \in Items : node[k] = a /\ address[k] = a
    BY <1>3 DEF Nodes
  <2>2. k # i
    BY <2>1
  <2>3. QED
    BY <1>2, <2>1, <2>2
<1>8. QED
  BY <1>1, <1>2, <1>5, <1>6, <1>7 DEF Nodes

-----------------------------------------------------------------------------
(* A step with device d is none with another; it concerns one item.        *)
With(d) == /\ pc \in {"manage", "add", "delete"} /\ next = d
           /\ pc' = "manage" \/ (pc' \in {"add", "delete"} /\ next' = d)

LEMMA OtherDevices ==
    ASSUME NEW d \in Devices, With(d), NEW e \in Devices, e # d,
           node'[Device(e)] = node[Device(e)], NEW j
    PROVE  On(e, j)' <=> On(e, j)
  BY DEF With, On

LEMMA InterfaceMoves ==
    ASSUME PollInv, NEW d \in Devices, NEW j \in 0..VarCount[d], Elsewhere(<<d, j>>),
           \A e \in Devices : \A k \in 0..VarCount[e] :
               <<e, k>> # <<d, j>> => (On(e, k)' <=> On(e, k)),
           Right(d, j)'
    PROVE  Interface'
<1> SUFFICES ASSUME NEW e \in Devices, NEW k \in 0..VarCount[e]
             PROVE  Right(e, k)'
  BY DEF Interface
<1>1. CASE <<e, k>> = <<d, j>>
  BY <1>1
<1>2. CASE <<e, k>> # <<d, j>>
  <2>1. <<e, k>> \in Items /\ Right(e, k) /\ (On(e, k)' <=> On(e, k))
    BY <1>2, ItemFacts DEF PollInv, Interface
  <2>2. /\ address'[<<e, k>>] = address[<<e, k>>]
        /\ address[<<e, k>>] # None =>
              /\ address[<<e, k>>] \in nic' <=> address[<<e, k>>] \in nic
              /\ address[<<e, k>>] \in failed' <=> address[<<e, k>>] \in failed
    BY <1>2, <2>1 DEF Elsewhere
  <2>3. QED
    BY <2>1, <2>2 DEF Right
<1>3. QED
  BY <1>1, <1>2

LEMMA AddDeviceKeeps ==
    ASSUME PollInv, NEW d \in Devices, AddDevice(d)
    PROVE  PollInv'
<1> DEFINE i == Device(d)
<1>1. /\ i = <<d, 0>> /\ i \in Items /\ 0 \in 0..VarCount[d] /\ VarCount[d] \in Nat
      /\ \A e \in Devices : Device(e) = i <=> e = d
      /\ \A e \in Devices : Device(e) \in Items
  BY ItemFacts DEF Device
<1>2. /\ pc = "manage" /\ next = d /\ Online(d) /\ node[i] = None
      /\ EnsureOn(i) \/ AllocateTo(i)
      /\ CreateNode(i, address'[i])
      /\ pc' = "add" /\ item' = 1
      /\ UNCHANGED <<slaveVars, running, next, connected, cached, fresh>>
  BY DEF AddDevice, Adding
<1>3. /\ address' \in [Items -> Addrs \cup {None}]
      /\ counter' \in 0..Capacity
      /\ address'[i] \in Addrs
      /\ Addresses' /\ Elsewhere(i)
      /\ nic' \subseteq Addrs /\ failed' \subseteq Addrs
      /\ address'[i] \in failed' \/ address'[i] \in nic'
  BY <1>1, <1>2, GetsAddress
<1>4. /\ node' \in [Items -> NodeIds \cup {None, Wild}]
      /\ server' \subseteq NodeIds
      /\ Nodes'
      /\ \A k \in Items : k # i => node'[k] = node[k]
      /\ node'[i] = address'[i]
  <2>1. address'[i] # Default
    BY <1>3, AddressFacts
  <2>2. QED
    BY <1>1, <1>2, <1>3, <2>1, MakesNode
<1>5. With(d)
  BY <1>2 DEF With
<1>6. TypeOK'
  BY <1>2, <1>3, <1>4 DEF PollInv, TypeOK, slaveVars
<1>7. Place'
  BY <1>1, <1>2 DEF Place
<1>8. Statuses'
  <2>1. StatusBlock[d] # 0
    BY <1>2 DEF Online
  <2>2. \A e \in Devices : StatusBlock[e] = 0 => node'[Device(e)] = None
    BY <1>1, <1>4, <2>1 DEF PollInv, Statuses
  <2>3. QED
    BY <1>2, <2>2 DEF PollInv, Statuses
<1>9. DeviceNodes'
  <2>1. \A e \in Devices : e # d =>
           node'[Device(e)] = node[Device(e)] /\ address'[Device(e)] = address[Device(e)]
    BY <1>1, <1>3, <1>4 DEF Elsewhere
  <2>2. address'[i] # None
    BY <1>3, AddressFacts
  <2>3. QED
    BY <1>2, <1>3, <1>4, <2>1, <2>2 DEF PollInv, DeviceNodes
<1> HIDE DEF i
<1>10. \A e \in Devices : \A k \in 0..VarCount[e] :
         <<e, k>> # i => (On(e, k)' <=> On(e, k))
  <2> SUFFICES ASSUME NEW e \in Devices, NEW k \in 0..VarCount[e], <<e, k>> # i
               PROVE  On(e, k)' <=> On(e, k)
    OBVIOUS
  <2>1. CASE e # d
    BY <1>1, <1>4, <1>5, <2>1, OtherDevices
  <2>2. CASE e = d
    <3>1. ~On(d, k)
      BY <1>2 DEF On, i
    <3>2. ~(k < 1)
      BY <1>1, <2>2
    <3>3. ~On(d, k)'
      BY <1>2, <3>2 DEF On
    <3>4. QED
      BY <2>2, <3>1, <3>3
  <2>3. QED
    BY <2>1, <2>2
<1>11. Interface'
  <2>1. On(d, 0)'
    BY <1>2 DEF On
  <2>2. Right(d, 0)'
    BY <1>1, <1>3, <2>1 DEF Right
  <2>3. QED
    BY <1>1, <1>3, <1>10, <2>2, InterfaceMoves
<1>12. Variables'
  <2> SUFFICES ASSUME NEW e \in Devices, NEW k \in 1..VarCount[e]
               PROVE  IF On(e, k)' THEN AtHome(<<e, k>>)' ELSE node'[<<e, k>>] = None
    BY DEF Variables
  <2>1. k \in 0..VarCount[e] /\ <<e, k>> # i /\ <<e, k>> \in Items
    BY <1>1, ItemFacts
  <2>2. /\ On(e, k)' <=> On(e, k)
        /\ node'[<<e, k>>] = node[<<e, k>>] /\ address'[<<e, k>>] = address[<<e, k>>]
    BY <1>3, <1>4, <1>10, <2>1 DEF Elsewhere
  <2>3. QED
    BY <2>2 DEF PollInv, Variables, AtHome
<1>13. QED
  BY <1>3, <1>4, <1>6, <1>7, <1>8, <1>9, <1>11, <1>12 DEF PollInv

(* The next device's turn, with the handles of the devices left alone.     *)
LEMMA NextDeviceGoes ==
    ASSUME PollInv, next \in Devices, NextDevice,
           pc \in {"manage", "add", "delete"}
    PROVE  /\ next' \in 0..(1 + IF BlockCount > DeviceCount THEN BlockCount ELSE DeviceCount)
           /\ pc' = "manage" /\ item' = 0 /\ Place'
           /\ (\A d \in Devices : StatusBlock[d] = 0 => node'[Device(d)] = None) => Statuses'
           /\ UNCHANGED <<slave, reported, running, connected, cached, fresh>>
<1>1. /\ pc' = "manage" /\ item' = 0 /\ next' = next + 1
      /\ UNCHANGED <<slave, reported, running, connected, cached, fresh>>
  BY DEF NextDevice, slaveVars
<1>2. next' \in 1..(DeviceCount + 1)
  BY <1>1, DeviceAssumption DEF Devices
<1>3. Place'
  BY <1>1, <1>2 DEF Place
<1>4. (\A d \in Devices : StatusBlock[d] = 0 => node'[Device(d)] = None) => Statuses'
  BY <1>1 DEF PollInv, Statuses
<1>5. QED
  BY <1>1, <1>2, <1>3, <1>4, NextRange

LEMMA AddDeviceFailsKeeps ==
    ASSUME PollInv, NEW d \in Devices, AddDeviceFails(d)
    PROVE  PollInv'
<1> DEFINE i == Device(d)
<1>1. /\ i = <<d, 0>> /\ i \in Items /\ 0 \in 0..VarCount[d]
  BY ItemFacts
<1>2. /\ pc = "manage" /\ next = d /\ address[i] = None /\ node[i] = None /\ NextDevice
      /\ UNCHANGED <<node, server, nic>>
      /\ \/ counter = Capacity /\ UNCHANGED <<address, counter, failed>>
         \/ /\ counter # Capacity
            /\ counter' = counter + 1
            /\ address' = [address EXCEPT ![i] = counter + 1]
            /\ failed' = failed \cup {counter + 1}
  BY DEF AddDeviceFails, Adding
<1>3. /\ address' \in [Items -> Addrs \cup {None}]
      /\ counter' \in 0..Capacity
      /\ Addresses' /\ Elsewhere(i)
      /\ failed' \subseteq Addrs
      /\ address'[i] # None => address'[i] \in failed'
  <2>1. CASE counter = Capacity
    BY <1>2, <2>1 DEF PollInv, TypeOK, Addresses, Elsewhere
  <2>2. CASE counter # Capacity
    <3>1. counter < Capacity
      BY <2>2, AddressFacts
    <3>2. address'[i] \in failed'
      <4>1. address'[i] = counter + 1
        BY <1>1, <1>2, <2>2, AddressFacts
      <4>2. QED
        BY <1>2, <2>2, <4>1
    <3>3. QED
      BY <1>1, <1>2, <2>2, <3>1, <3>2, AllocateGives
  <2>3. QED
    BY <2>1, <2>2
<1>4. /\ next' \in 0..(1 + IF BlockCount > DeviceCount THEN BlockCount ELSE DeviceCount)
      /\ pc' = "manage" /\ item' = 0 /\ Place' /\ Statuses'
      /\ UNCHANGED <<slave, reported, running, connected, cached, fresh>>
  <2>1. \A e \in Devices : StatusBlock[e] = 0 => node'[Device(e)] = None
    BY <1>2 DEF PollInv, Statuses
  <2>2. QED
    BY <1>2, <2>1, NextDeviceGoes
<1>5. TypeOK'
  <2>1. item' \in Nat
    BY <1>4
  <2>2. QED
    BY <1>2, <1>3, <1>4, <2>1 DEF PollInv, TypeOK
<1>6. Nodes'
  <2>1. \A k \in Items : node'[k] \in NodeIds =>
           node'[k] \in server' /\ node'[k] \in {Default, address'[k]}
    BY <1>2, <1>3, NullAssumption DEF PollInv, Nodes, Elsewhere
  <2>2. ASSUME NEW a \in server' \cap Addrs
        PROVE  \E k \in Items : node'[k] = a /\ address'[k] = a
    <3>1. PICK k \in Items : node[k] = a /\ address[k] = a
      BY <1>2 DEF PollInv, Nodes
    <3>2. k # i
      BY <1>2, <3>1, AddressFacts
    <3>3. QED
      BY <1>2, <1>3, <3>1, <3>2 DEF Elsewhere
  <2>3. QED
    BY <1>2, <2>1, <2>2 DEF PollInv, Nodes
<1>7. DeviceNodes'
  <2>1. \A e \in Devices : node[Device(e)] # None =>
           Device(e) \in Items /\ Device(e) # i
    BY <1>2, ItemFacts
  <2>2. QED
    BY <1>2, <1>3, <1>4, <2>1 DEF PollInv, DeviceNodes, Elsewhere
<1> HIDE DEF i
<1>8. \A e \in Devices, k \in Int : On(e, k)' <=> On(e, k)
  BY <1>2, <1>4 DEF On
<1>9. Variables'
  <2>1. \A e \in Devices : \A k \in 1..VarCount[e] :
           /\ On(e, k)' <=> On(e, k)
           /\ node'[<<e, k>>] = node[<<e, k>>] /\ address'[<<e, k>>] = address[<<e, k>>]
    <3> SUFFICES ASSUME NEW e \in Devices, NEW k \in 1..VarCount[e]
                 PROVE  /\ On(e, k)' <=> On(e, k)
                        /\ node'[<<e, k>>] = node[<<e, k>>]
                        /\ address'[<<e, k>>] = address[<<e, k>>]
      OBVIOUS
    <3>1. k \in 0..VarCount[e] /\ k # 0 /\ k \in Int
      BY ItemFacts
    <3>2. <<e, k>> \in Items /\ <<e, k>> # i
      BY <1>1, <3>1, ItemFacts
    <3>3. node'[<<e, k>>] = node[<<e, k>>] /\ address'[<<e, k>>] = address[<<e, k>>]
      BY <1>2, <1>3, <3>2 DEF Elsewhere
    <3>4. QED
      BY <1>8, <3>1, <3>3
  <2>2. QED
    BY <2>1 DEF PollInv, Variables, AtHome
<1>10. Interface'
  <2>1. Right(d, 0)'
    BY <1>1, <1>3 DEF Right
  <2>2. \A e \in Devices : \A k \in 0..VarCount[e] :
           <<e, k>> # <<d, 0>> => (On(e, k)' <=> On(e, k))
    BY <1>8
  <2>3. QED
    BY <1>1, <1>3, <2>1, <2>2, InterfaceMoves
<1>11. QED
  BY <1>3, <1>4, <1>5, <1>6, <1>7, <1>9, <1>10 DEF PollInv

-----------------------------------------------------------------------------
(* A variable's turn: On moves past it, and the others stay.               *)
LEMMA VariableTurn ==
    ASSUME PollInv, NEW d \in Devices, pc \in {"add", "delete"}, next = d,
           NEW j, j = item, item <= VarCount[d], pc' = pc, next' = next, item' = item + 1,
           \A k \in Items : k # <<d, j>> => node'[k] = node[k]
    PROVE  /\ j \in 1..VarCount[d] /\ j \in 0..VarCount[d]
           /\ <<d, j>> \in Items
           /\ \A e \in Devices : Device(e) # <<d, j>> /\ Device(e) \in Items
           /\ item' \in Nat /\ Place'
           /\ \A e \in Devices : \A k \in 0..VarCount[e] :
                 <<e, k>> # <<d, j>> => (On(e, k)' <=> On(e, k))
           /\ pc = "add" => ~On(d, j) /\ On(d, j)'
           /\ pc = "delete" => On(d, j) /\ ~On(d, j)'
<1>1. item \in 1..(VarCount[d] + 1) /\ VarCount[d] \in Nat
  BY ItemFacts DEF PollInv, Place
<1>2. j \in 1..VarCount[d] /\ j \in 0..VarCount[d] /\ j # 0 /\ j \in Int
  BY <1>1
<1>3. <<d, j>> \in Items
  BY <1>2, ItemFacts
<1>4. \A e \in Devices : Device(e) # <<d, j>> /\ Device(e) \in Items
  BY <1>2, ItemFacts
<1>5. item' \in 1..(VarCount[d] + 1) /\ item' \in Nat
  BY <1>1, <1>2
<1>6. Place'
  BY <1>5 DEF Place
<1>7. \A e \in Devices : \A k \in 0..VarCount[e] :
         <<e, k>> # <<d, j>> => (On(e, k)' <=> On(e, k))
  <2> SUFFICES ASSUME NEW e \in Devices, NEW k \in 0..VarCount[e], <<e, k>> # <<d, j>>
               PROVE  On(e, k)' <=> On(e, k)
    OBVIOUS
  <2>1. CASE e # d
    BY <1>4, <2>1 DEF On
  <2>2. CASE e = d
    <3>1. k # j /\ k \in Int
      BY <2>2
    <3>2. (k < j + 1 <=> k < j) /\ (k >= j + 1 <=> k >= j)
      BY <1>2, <3>1
    <3>3. QED
      BY <2>2, <3>2 DEF On
  <2>3. QED
    BY <2>1, <2>2
<1>8. ~(j < j) /\ j < j + 1 /\ j >= j /\ ~(j >= j + 1)
  BY <1>2
<1>9. pc = "add" => ~On(d, j) /\ On(d, j)'
  BY <1>8 DEF On
<1>10. pc = "delete" => On(d, j) /\ ~On(d, j)'
  BY <1>8 DEF On
<1>11. QED
  BY <1>2, <1>3, <1>4, <1>5, <1>6, <1>7, <1>9, <1>10

LEMMA AddVariableKeeps ==
    ASSUME PollInv, NEW d \in Devices, AddVariable(d)
    PROVE  PollInv'
<1> PICK j : j = item
  OBVIOUS
<1> DEFINE i == <<d, j>>
<1>1. /\ pc = "add" /\ next = d /\ item <= VarCount[d] /\ item' = item + 1
      /\ UNCHANGED <<slave, reported, running, pc, next, connected, cached, fresh>>
      /\ \/ /\ EnsureOn(i) \/ AllocateTo(i)
            /\ CreateNode(i, address'[i])
         \/ /\ address[i] = None
            /\ counter' = IF counter < Capacity THEN counter + 1 ELSE counter
            /\ CreateNode(i, Default)
            /\ UNCHANGED <<address, nic, failed>>
  BY DEF AddVariable, slaveVars
<1>2. i \in Items /\ j \in 1..VarCount[d] /\ node[i] = None
  <2>1. j \in 1..VarCount[d] /\ ~On(d, j)
    <3>1. j \in 1..(VarCount[d] + 1) /\ VarCount[d] \in Nat
      BY <1>1, ItemFacts DEF PollInv, Place
    <3>2. j \in 1..VarCount[d] /\ ~(j < j)
      BY <1>1, <3>1
    <3>3. QED
      BY <1>1, <3>2 DEF On
  <2>2. QED
    BY <2>1, ItemFacts DEF PollInv, Variables
<1> DEFINE Given ==
      /\ address' \in [Items -> Addrs \cup {None}]
      /\ counter' \in 0..Capacity
      /\ Addresses' /\ Elsewhere(i)
      /\ nic' \subseteq Addrs /\ failed' \subseteq Addrs
      /\ address'[i] # None => address'[i] \in failed' \/ address'[i] \in nic'
      /\ \E id : /\ CreateNode(i, id)
                 /\ \/ id = Default /\ address'[i] = None
                    \/ id \in Addrs /\ id = address'[i]
<1>3. Given
  <2>1. ASSUME EnsureOn(i) \/ AllocateTo(i), CreateNode(i, address'[i])
        PROVE  Given
    BY <1>2, <2>1, GetsAddress
  <2>2. ASSUME address[i] = None,
               counter' = IF counter < Capacity THEN counter + 1 ELSE counter,
               CreateNode(i, Default), UNCHANGED <<address, nic, failed>>
        PROVE  Given
    <3>1. counter' \in 0..Capacity /\ \A a \in 1..counter : a \in 1..counter'
      BY <2>2, AddressFacts
    <3>2. Addresses'
      BY <2>2, <3>1 DEF PollInv, Addresses
    <3>3. Elsewhere(i)
      BY <2>2 DEF Elsewhere
    <3>4. QED
      BY <2>2, <3>1, <3>2, <3>3 DEF PollInv, TypeOK
  <2>3. QED
    BY <1>1, <2>1, <2>2
<1>4. /\ node' \in [Items -> NodeIds \cup {None, Wild}]
      /\ server' \subseteq NodeIds
      /\ Nodes'
      /\ \A k \in Items : k # i => node'[k] = node[k]
      /\ AtHome(i)'
  <2>1. PICK id : /\ CreateNode(i, id)
                  /\ \/ id = Default /\ address'[i] = None
                     \/ id \in Addrs /\ id = address'[i]
    BY <1>3
  <2>2. id \in Addrs => id # Default
    BY AddressFacts
  <2>3. QED
    BY <1>2, <1>3, <2>1, <2>2, MakesNode DEF AtHome
<1> HIDE DEF i
<1>5. /\ j \in 0..VarCount[d]
      /\ \A e \in Devices : Device(e) # i /\ Device(e) \in Items
      /\ item' \in Nat /\ Place'
      /\ \A e \in Devices : \A k \in 0..VarCount[e] :
            <<e, k>> # i => (On(e, k)' <=> On(e, k))
      /\ On(d, j)'
  BY <1>1, <1>4, VariableTurn DEF i
<1>6. TypeOK'
  BY <1>1, <1>3, <1>4, <1>5 DEF PollInv, TypeOK
<1>7. \A e \in Devices : /\ node'[Device(e)] = node[Device(e)]
                         /\ address'[Device(e)] = address[Device(e)]
  BY <1>3, <1>4, <1>5 DEF Elsewhere
<1>8. Statuses' /\ DeviceNodes'
  BY <1>1, <1>7 DEF PollInv, Statuses, DeviceNodes
<1>9. Interface'
  <2>1. Right(d, j)'
    BY <1>3, <1>5 DEF Right, i
  <2>2. QED
    BY <1>3, <1>5, <2>1, InterfaceMoves DEF i
<1>10. Variables'
  <2> SUFFICES ASSUME NEW e \in Devices, NEW k \in 1..VarCount[e]
               PROVE  IF On(e, k)' THEN AtHome(<<e, k>>)' ELSE node'[<<e, k>>] = None
    BY DEF Variables
  <2>1. k \in 0..VarCount[e] /\ <<e, k>> \in Items
    BY ItemFacts
  <2>2. CASE <<e, k>> = i
    <3>1. On(e, k)'
      BY <1>5, <2>2 DEF i
    <3>2. AtHome(<<e, k>>)'
      BY <1>4, <2>2 DEF AtHome
    <3>3. QED
      BY <3>1, <3>2
  <2>3. CASE <<e, k>> # i
    <3>1. /\ On(e, k)' <=> On(e, k)
          /\ node'[<<e, k>>] = node[<<e, k>>] /\ address'[<<e, k>>] = address[<<e, k>>]
      BY <1>3, <1>4, <1>5, <2>1, <2>3 DEF Elsewhere
    <3>2. QED
      BY <3>1 DEF PollInv, Variables, AtHome
  <2>4. QED
    BY <2>2, <2>3
<1>11. QED
  BY <1>3, <1>4, <1>5, <1>6, <1>8, <1>9, <1>10 DEF PollInv

LEMMA EndAddingKeeps ==
    ASSUME PollInv, NEW d \in Devices, EndAdding(d)
    PROVE  PollInv'
<1>1. /\ pc = "add" /\ next = d /\ item > VarCount[d] /\ NextDevice
      /\ UNCHANGED <<address, node, server, nic, counter, failed>>
  BY DEF EndAdding, itemVars
<1>2. /\ next' \in 0..(1 + IF BlockCount > DeviceCount THEN BlockCount ELSE DeviceCount)
      /\ pc' = "manage" /\ item' = 0 /\ Place' /\ Statuses'
      /\ UNCHANGED <<slave, reported, running, connected, cached, fresh>>
  <2>1. \A e \in Devices : StatusBlock[e] = 0 => node'[Device(e)] = None
    BY <1>1 DEF PollInv, Statuses
  <2>2. QED
    BY <1>1, <2>1, NextDeviceGoes
<1>3. TypeOK'
  <2>1. item' \in Nat
    BY <1>2
  <2>2. QED
    BY <1>1, <1>2, <2>1 DEF PollInv, TypeOK
<1>4. Addresses' /\ Nodes' /\ DeviceNodes'
  BY <1>1, <1>2 DEF PollInv, Addresses, Nodes, DeviceNodes
<1>5. \A e \in Devices : \A k \in 0..VarCount[e] : On(e, k)' <=> On(e, k)
  <2> SUFFICES ASSUME NEW e \in Devices, NEW k \in 0..VarCount[e]
               PROVE  On(e, k)' <=> On(e, k)
    OBVIOUS
  <2>1. CASE e # d
    BY <1>1, <1>2, <2>1 DEF On
  <2>2. CASE e = d
    <3>1. k < item
      <4>1. VarCount[d] \in Nat /\ item \in Nat /\ k \in 0..VarCount[d]
        BY <2>2, ItemFacts DEF PollInv, TypeOK
      <4>2. QED
        BY <1>1, <4>1
    <3>2. node[Device(d)] # None
      BY <1>1 DEF PollInv, DeviceNodes
    <3>3. QED
      BY <1>1, <1>2, <2>2, <3>1, <3>2 DEF On
  <2>3. QED
    BY <2>1, <2>2
<1>6. Variables'
  <2>1. \A e \in Devices : \A k \in 1..VarCount[e] : On(e, k)' <=> On(e, k)
    BY <1>5, ItemFacts
  <2>2. QED
    BY <1>1, <2>1 DEF PollInv, Variables, AtHome
<1>7. Interface'
  BY <1>1, <1>5 DEF PollInv, Interface, Right
<1>8. QED
  BY <1>2, <1>3, <1>4, <1>6, <1>7 DEF PollInv

-----------------------------------------------------------------------------
LEMMA RemoveGives ==
    ASSUME PollInv, NEW i \in Items, address[i] # None,
           RemoveFromInterface(address[i]), address' = address
    PROVE  /\ nic' \subseteq Addrs /\ failed' \subseteq Addrs
           /\ Elsewhere(i)
           /\ address'[i] \in failed' \/ address'[i] \notin nic'
<1> USE DEF RemoveFromInterface
<1>1. address[i] \in Addrs
  BY DEF PollInv, TypeOK
<1>2. \A k \in Items : k # i => address[k] # address[i]
  BY DEF PollInv, Addresses
<1>3. Elsewhere(i)
  BY <1>2 DEF Elsewhere
<1>4. nic' \subseteq Addrs /\ failed' \subseteq Addrs
  BY <1>1 DEF PollInv, TypeOK
<1>5. QED
  BY <1>3, <1>4

LEMMA DeleteDeviceKeeps ==
    ASSUME PollInv, NEW d \in Devices, DeleteDevice(d)
    PROVE  PollInv'
<1>1. /\ Device(d) = <<d, 0>> /\ Device(d) \in Items
      /\ 0 \in 0..VarCount[d] /\ VarCount[d] \in Nat
  BY ItemFacts
<1>2. /\ pc = "manage" /\ next = d /\ node[Device(d)] # None
      /\ RemoveFromInterface(address[Device(d)])
      /\ pc' = "delete" /\ item' = 1
      /\ UNCHANGED <<slave, reported, running, next, connected, cached, address, node,
                     server, counter, fresh>>
  BY DEF DeleteDevice, slaveVars
<1>3. address[Device(d)] # None
  BY <1>2, AddressFacts DEF PollInv, DeviceNodes
<1>4. /\ nic' \subseteq Addrs /\ failed' \subseteq Addrs
      /\ Elsewhere(Device(d))
      /\ address'[Device(d)] \in failed' \/ address'[Device(d)] \notin nic'
  BY <1>1, <1>2, <1>3, RemoveGives
<1>5. TypeOK'
  BY <1>2, <1>4 DEF PollInv, TypeOK
<1>6. Place'
  BY <1>1, <1>2 DEF Place
<1>7. Statuses'
  BY <1>2 DEF PollInv, Statuses
<1>8. Addresses' /\ Nodes' /\ DeviceNodes'
  BY <1>2 DEF PollInv, Addresses, Nodes, DeviceNodes
<1>9. \A e \in Devices : \A k \in 0..VarCount[e] :
         <<e, k>> # <<d, 0>> => (On(e, k)' <=> On(e, k))
  <2> SUFFICES ASSUME NEW e \in Devices, NEW k \in 0..VarCount[e], <<e, k>> # <<d, 0>>
               PROVE  On(e, k)' <=> On(e, k)
    OBVIOUS
  <2>1. CASE e # d
    BY <1>2, <2>1 DEF On
  <2>2. CASE e = d
    <3>1. k >= 1
      BY <1>1, <2>2
    <3>2. QED
      BY <1>2, <2>2, <3>1 DEF On
  <2>3. QED
    BY <2>1, <2>2
<1>10. Variables'
  <2>1. \A e \in Devices : \A k \in 1..VarCount[e] :
           k \in 0..VarCount[e] /\ <<e, k>> # <<d, 0>>
    BY ItemFacts
  <2>2. QED
    BY <1>2, <1>9, <2>1 DEF PollInv, Variables, AtHome
<1>11. Interface'
  <2>1. ~On(d, 0)'
    BY <1>2 DEF On
  <2>2. Right(d, 0)'
    BY <1>1, <1>4, <2>1 DEF Right
  <2>3. QED
    BY <1>1, <1>4, <1>9, <2>2, InterfaceMoves
<1>12. QED
  BY <1>5, <1>6, <1>7, <1>8, <1>10, <1>11 DEF PollInv

LEMMA DeleteVariableKeeps ==
    ASSUME PollInv, NEW d \in Devices, DeleteVariable(d)
    PROVE  PollInv'
<1> PICK j : j = item
  OBVIOUS
<1> DEFINE i == <<d, j>>
<1>1. /\ pc = "delete" /\ next = d /\ item <= VarCount[d] /\ item' = item + 1
      /\ UNCHANGED <<slave, reported, running, pc, next, connected, cached, address,
                     counter, fresh>>
      /\ node' = [node EXCEPT ![i] = None] /\ server' = server \ {node[i]}
      /\ IF address[i] # None THEN RemoveFromInterface(address[i])
                              ELSE UNCHANGED <<nic, failed>>
  BY DEF DeleteVariable, slaveVars
<1>2. i \in Items
  <2>1. item \in 1..(VarCount[d] + 1) /\ VarCount[d] \in Nat
    BY <1>1, ItemFacts DEF PollInv, Place
  <2>2. j \in 0..VarCount[d]
    BY <1>1, <2>1
  <2>3. QED
    BY <2>2, ItemFacts
<1>3. /\ node' \in [Items -> NodeIds \cup {None, Wild}]
      /\ server' \subseteq NodeIds
      /\ Nodes'
      /\ node'[i] = None /\ \A k \in Items : k # i => node'[k] = node[k]
  BY <1>1, <1>2, DropsNode
<1>4. /\ nic' \subseteq Addrs /\ failed' \subseteq Addrs
      /\ Elsewhere(i)
      /\ address'[i] # None => address'[i] \in failed' \/ address'[i] \notin nic'
  <2>1. CASE address[i] # None
    BY <1>1, <1>2, <2>1, RemoveGives
  <2>2. CASE address[i] = None
    BY <1>1, <2>2 DEF Elsewhere, PollInv, TypeOK
  <2>3. QED
    BY <2>1, <2>2
<1> HIDE DEF i
<1>5. /\ j \in 0..VarCount[d]
      /\ \A e \in Devices : Device(e) # i /\ Device(e) \in Items
      /\ item' \in Nat /\ Place'
      /\ \A e \in Devices : \A k \in 0..VarCount[e] :
            <<e, k>> # i => (On(e, k)' <=> On(e, k))
      /\ ~On(d, j)'
  BY <1>1, <1>3, VariableTurn DEF i
<1>6. TypeOK'
  BY <1>1, <1>3, <1>4, <1>5 DEF PollInv, TypeOK
<1>7. \A e \in Devices : node'[Device(e)] = node[Device(e)]
  BY <1>3, <1>5
<1>8. Statuses' /\ DeviceNodes' /\ Addresses'
  BY <1>1, <1>7 DEF PollInv, Statuses, DeviceNodes, Addresses
<1>9. Interface'
  <2>1. Right(d, j)'
    BY <1>4, <1>5 DEF Right, i
  <2>2. QED
    BY <1>4, <1>5, <2>1, InterfaceMoves DEF i
<1>10. Variables'
  <2> SUFFICES ASSUME NEW e \in Devices, NEW k \in 1..VarCount[e]
               PROVE  IF On(e, k)' THEN AtHome(<<e, k>>)' ELSE node'[<<e, k>>] = None
    BY DEF Variables
  <2>1. k \in 0..VarCount[e] /\ <<e, k>> \in Items
    BY ItemFacts
  <2>2. CASE <<e, k>> = i
    BY <1>3, <1>5, <2>2 DEF i
  <2>3. CASE <<e, k>> # i
    <3>1. /\ On(e, k)' <=> On(e, k)
          /\ node'[<<e, k>>] = node[<<e, k>>] /\ address'[<<e, k>>] = address[<<e, k>>]
      BY <1>1, <1>3, <1>5, <2>1, <2>3
    <3>2. QED
      BY <3>1 DEF PollInv, Variables, AtHome
  <2>4. QED
    BY <2>2, <2>3
<1>11. QED
  BY <1>3, <1>4, <1>5, <1>6, <1>8, <1>9, <1>10 DEF PollInv

LEMMA EndDeletingKeeps ==
    ASSUME PollInv, NEW d \in Devices, EndDeleting(d)
    PROVE  PollInv'
<1> DEFINE i == Device(d)
<1>1. /\ pc = "delete" /\ next = d /\ item > VarCount[d] /\ NextDevice
      /\ node' = [node EXCEPT ![i] = None] /\ server' = server \ {node[i]}
      /\ UNCHANGED <<address, nic, counter, failed>>
  BY DEF EndDeleting
<1>2. /\ i \in Items /\ i = <<d, 0>> /\ VarCount[d] \in Nat
      /\ \A e \in Devices : Device(e) \in Items /\ (Device(e) = i <=> e = d)
  BY ItemFacts DEF Device
<1>3. /\ node' \in [Items -> NodeIds \cup {None, Wild}]
      /\ server' \subseteq NodeIds
      /\ Nodes'
      /\ node'[i] = None /\ \A k \in Items : k # i => node'[k] = node[k]
  BY <1>1, <1>2, DropsNode
<1> HIDE DEF i
<1>4. /\ next' \in 0..(1 + IF BlockCount > DeviceCount THEN BlockCount ELSE DeviceCount)
      /\ pc' = "manage" /\ item' = 0 /\ Place' /\ Statuses'
      /\ UNCHANGED <<slave, reported, running, connected, cached, fresh>>
  <2>1. \A e \in Devices : StatusBlock[e] = 0 => node'[Device(e)] = None
    BY <1>2, <1>3 DEF PollInv, Statuses
  <2>2. QED
    BY <1>1, <2>1, NextDeviceGoes
<1>5. TypeOK'
  <2>1. item' \in Nat
    BY <1>4
  <2>2. QED
    BY <1>1, <1>3, <1>4, <2>1 DEF PollInv, TypeOK
<1>6. Addresses' /\ DeviceNodes'
  BY <1>1, <1>2, <1>3, <1>4 DEF PollInv, Addresses, DeviceNodes
<1>7. \A e \in Devices : \A k \in 0..VarCount[e] : On(e, k)' <=> On(e, k)
  <2> SUFFICES ASSUME NEW e \in Devices, NEW k \in 0..VarCount[e]
               PROVE  On(e, k)' <=> On(e, k)
    OBVIOUS
  <2>1. CASE e # d
    BY <1>1, <1>2, <1>3, <1>4, <2>1 DEF On
  <2>2. CASE e = d
    <3>1. ~(k >= item)
      <4>1. VarCount[d] \in Nat /\ item \in Nat /\ k \in 0..VarCount[d]
        BY <1>2, <2>2 DEF PollInv, TypeOK
      <4>2. QED
        BY <1>1, <4>1
    <3>2. ~On(e, k)
      BY <1>1, <2>2, <3>1 DEF On
    <3>3. ~On(e, k)'
      BY <1>2, <1>3, <1>4, <2>2 DEF On
    <3>4. QED
      BY <3>2, <3>3
  <2>3. QED
    BY <2>1, <2>2
<1>8. Variables'
  <2> SUFFICES ASSUME NEW e \in Devices, NEW k \in 1..VarCount[e]
               PROVE  IF On(e, k)' THEN AtHome(<<e, k>>)' ELSE node'[<<e, k>>] = None
    BY DEF Variables
  <2>1. k \in 0..VarCount[e] /\ <<e, k>> \in Items /\ <<e, k>> # i
    BY <1>2, ItemFacts
  <2>2. /\ On(e, k)' <=> On(e, k)
        /\ node'[<<e, k>>] = node[<<e, k>>] /\ address'[<<e, k>>] = address[<<e, k>>]
    BY <1>1, <1>3, <1>7, <2>1
  <2>3. QED
    BY <2>2 DEF PollInv, Variables, AtHome
<1>9. Interface'
  BY <1>1, <1>7 DEF PollInv, Interface, Right
<1>10. QED
  BY <1>3, <1>4, <1>5, <1>6, <1>8, <1>9 DEF PollInv

-----------------------------------------------------------------------------
LEMMA NextPollInv == PollInv /\ [Next]_vars => PollInv'
<1> SUFFICES ASSUME PollInv, [Next]_vars PROVE PollInv'
  OBVIOUS
<1>1. CASE ReadStep \/ KeepDevice \/ EndManaging \/ Sleep
  BY <1>1, ReadStepKeeps
<1>2. ASSUME NEW d \in Devices, DeviceStep(d) PROVE PollInv'
  <2>1. CASE AddDevice(d)
    BY <2>1, AddDeviceKeeps
  <2>2. CASE AddDeviceFails(d)
    BY <2>2, AddDeviceFailsKeeps
  <2>3. CASE AddVariable(d)
    BY <2>3, AddVariableKeeps
  <2>4. CASE EndAdding(d)
    BY <2>4, EndAddingKeeps
  <2>5. CASE DeleteDevice(d)
    BY <2>5, DeleteDeviceKeeps
  <2>6. CASE DeleteVariable(d)
    BY <2>6, DeleteVariableKeeps
  <2>7. CASE EndDeleting(d)
    BY <2>7, EndDeletingKeeps
  <2>8. QED
    BY <1>2, <2>1, <2>2, <2>3, <2>4, <2>5, <2>6, <2>7 DEF DeviceStep
<1>3. CASE Environment
  BY <1>3, EnvironmentKeeps
<1>4. CASE UNCHANGED vars
  BY <1>4 DEF vars, PollInv, TypeOK, Place, Statuses, Addresses, Nodes, DeviceNodes,
              Variables, AtHome, Interface, Right, On
<1>5. QED
  BY <1>1, <1>2, <1>3, <1>4 DEF Next, Poll

LEMMA SpecPollInv == Spec => []PollInv
<1>1. Init => PollInv
  BY InitPollInv
<1>2. PollInv /\ [Next]_vars => PollInv'
  BY NextPollInv
<1>3. QED
  BY <1>1, <1>2, PTL DEF Spec

-----------------------------------------------------------------------------
(* Every variable of the poller has its type, whatever the slave does.     *)
THEOREM PollTypeCorrect == Spec => []TypeOK
<1>1. PollInv => TypeOK
  BY DEF PollInv
<1>2. QED
  BY <1>1, SpecPollInv, PTL

(* The addresses on the interface are those of the devices that have a     *)
(* node, but for what the interface refused.                               *)
THEOREM InterfaceFollows == Spec => []InterfaceFollowsNodes
<1>1. PollInv => InterfaceFollowsNodes
  <2> SUFFICES ASSUME PollInv, NEW d \in Devices, ~Busy(d), NEW i \in Item(d),
                      address[i] # None
               PROVE  \/ address[i] \in failed
                      \/ address[i] \in nic <=> node[Device(d)] # None
    BY DEF InterfaceFollowsNodes
  <2>1. PICK j \in 0..VarCount[d] : i = <<d, j>>
    BY ItemFacts
  <2>2. Right(d, j) /\ (On(d, j) <=> node[Device(d)] # None)
    BY DEF PollInv, Interface, On, Busy
  <2>3. QED
    BY <2>1, <2>2 DEF Right
<1>2. QED
  BY <1>1, SpecPollInv, PTL

(* The server's nodes are those the handles name, each item its own.       *)
THEOREM ServerFollows == Spec => []ServerFollowsHandles
<1>1. PollInv => ServerFollowsHandles
  <2> SUFFICES ASSUME PollInv PROVE ServerFollowsHandles
    OBVIOUS
  <2>1. Nodes /\ Addresses /\ None \notin NodeIds
    BY NullAssumption DEF PollInv
  <2>2. ASSUME NEW i \in Items, NEW k \in Items, node[i] \in NodeIds, node[i] = node[k]
        PROVE  i = k
    <3>1. node[i] \in {Default, address[i]} /\ node[k] \in {Default, address[k]}
      BY <2>1, <2>2 DEF Nodes
    <3>2. CASE node[i] = Default
      BY <2>1, <2>2, <3>2 DEF Nodes
    <3>3. CASE node[i] # Default
      BY <2>1, <2>2, <3>1, <3>3 DEF Addresses
    <3>4. QED
      BY <3>2, <3>3
  <2>3. ASSUME NEW d \in Devices, ~Busy(d), node[Device(d)] = None, NEW i \in Item(d)
        PROVE  node[i] = None
    <3>1. PICK j \in 0..VarCount[d] : i = <<d, j>>
      BY ItemFacts
    <3>2. CASE j = 0
      BY <2>3, <3>1, <3>2 DEF Device
    <3>3. CASE j # 0
      <4>1. ~On(d, j)
        BY <2>3 DEF On, Busy
      <4>2. j \in 1..VarCount[d]
        BY <3>3, ItemFacts
      <4>3. QED
        BY <3>1, <4>1, <4>2 DEF PollInv, Variables
    <3>4. QED
      BY <3>2, <3>3
  <2>4. /\ \A i \in Items : node[i] \in NodeIds => node[i] \in server
        /\ \A a \in server \cap Addrs : \E i \in Items : node[i] = a /\ address[i] = a
    BY <2>1 DEF Nodes
  <2>5. QED
    BY <2>2, <2>3, <2>4 DEF ServerFollowsHandles
<1>2. QED
  BY <1>1, SpecPollInv, PTL

(* A device that is there has its nodes at the addresses of its items.     *)
THEOREM NodesHaveAddresses == Spec => []NodesAtAddresses
<1>1. PollInv => NodesAtAddresses
  <2> SUFFICES ASSUME PollInv, NEW d \in Devices, ~Busy(d), node[Device(d)] # None,
                      NEW i \in Item(d), address[i] # None
               PROVE  node[i] = address[i]
    BY DEF NodesAtAddresses
  <2>1. PICK j \in 0..VarCount[d] : i = <<d, j>>
    BY ItemFacts
  <2>2. CASE j = 0
    BY <2>1, <2>2 DEF PollInv, DeviceNodes, Device
  <2>3. CASE j # 0
    <3>1. j \in 1..VarCount[d]
      BY <2>3, ItemFacts
    <3>2. On(d, j)
      BY DEF On, Busy
    <3>3. QED
      BY <2>1, <3>1, <3>2 DEF PollInv, Variables, AtHome
  <2>4. QED
    BY <2>2, <2>3
<1>2. QED
  BY <1>1, SpecPollInv, PTL

-----------------------------------------------------------------------------
(* An item keeps its address while devices come and go.                    *)
THEOREM AddressesKept == Spec => AddressKept
<1>1. PollInv /\ [Next]_vars =>
        [\A i \in Items : address[i] # None => address'[i] = address[i]]_vars
  <2> SUFFICES ASSUME PollInv, Next, NEW i \in Items, address[i] # None
               PROVE  address'[i] = address[i]
    OBVIOUS
  <2>1. \/ address' = address
        \/ \E k \in Items : /\ address[k] = None
                            /\ address' = [address EXCEPT ![k] = counter + 1]
    <3>1. CASE ReadStep \/ KeepDevice \/ EndManaging \/ Sleep
      BY <3>1 DEF ReadStep, KeepDevice, EndManaging, Sleep, LeaveLoop, AlreadyConnected,
                  Connect, ConnectFails, WaitReconnect, ReadBlock, ReadFails, EndReading,
                  Update, StartReading, itemVars
    <3>2. CASE Environment
      BY <3>2 DEF Environment, SlaveChanges, DeviceChanges, Stop, itemVars
    <3>3. ASSUME NEW d \in Devices, DeviceStep(d)
          PROVE  \/ address' = address
                 \/ \E k \in Items : /\ address[k] = None
                                     /\ address' = [address EXCEPT ![k] = counter + 1]
      <4>1. CASE AddDevice(d) \/ AddDeviceFails(d)
        BY <4>1, ItemFacts DEF AddDevice, AddDeviceFails, EnsureOn, AllocateTo
      <4>2. CASE AddVariable(d)
        <5>1. <<d, item>> \in Items
          <6>1. item \in 1..(VarCount[d] + 1) /\ item <= VarCount[d] /\ VarCount[d] \in Nat
            BY <4>2, ItemFacts DEF AddVariable, PollInv, Place
          <6>2. item \in 0..VarCount[d]
            BY <6>1
          <6>3. QED
            BY <6>2, ItemFacts
        <5>2. QED
          BY <4>2, <5>1 DEF AddVariable, EnsureOn, AllocateTo
      <4>3. CASE EndAdding(d) \/ DeleteDevice(d) \/ DeleteVariable(d) \/ EndDeleting(d)
        BY <4>3 DEF EndAdding, DeleteDevice, DeleteVariable, EndDeleting, itemVars
      <4>4. QED
        BY <3>3, <4>1, <4>2, <4>3 DEF DeviceStep
    <3>4. QED
      BY <3>1, <3>2, <3>3 DEF Next, Poll
  <2>2. QED
    BY <2>1 DEF PollInv, TypeOK
<1>2. QED
  BY <1>1, SpecPollInv, PTL DEF Spec, AddressKept

(* A device comes and goes on a status read in the same cycle, but for the *)
(* one cycle a stop cuts short.                                            *)
THEOREM StatusIsFresh == Spec => StatusActsFresh
<1>1. PollInv /\ [Next]_vars =>
        [\A d \in Devices : node'[Device(d)] # node[Device(d)] => d \in fresh \/ ~running]_vars
  <2> SUFFICES ASSUME PollInv, Next, NEW d \in Devices, node'[Device(d)] # node[Device(d)]
               PROVE  d \in fresh \/ ~running
    OBVIOUS
  <2>1. CASE ReadStep \/ KeepDevice \/ EndManaging \/ Sleep
    BY <2>1 DEF ReadStep, KeepDevice, EndManaging, Sleep, LeaveLoop, AlreadyConnected,
                Connect, ConnectFails, WaitReconnect, ReadBlock, ReadFails, EndReading,
                Update, StartReading, itemVars
  <2>2. CASE Environment
    BY <2>2 DEF Environment, SlaveChanges, DeviceChanges, Stop, itemVars
  <2>3. ASSUME NEW e \in Devices, DeviceStep(e)
        PROVE  d \in fresh \/ ~running
    <3>1. pc \in {"manage", "add", "delete"} /\ next = e
      BY <2>3 DEF DeviceStep, AddDevice, AddDeviceFails, Adding, AddVariable, EndAdding,
                  DeleteDevice, DeleteVariable, EndDeleting
    <3>2. ~running \/ (StatusBlock[d] # 0 => d \in fresh)
      BY <3>1 DEF PollInv, Statuses
    <3>3. StatusBlock[d] # 0
      <4> SUFFICES ASSUME StatusBlock[d] = 0 PROVE FALSE
        OBVIOUS
      <4>1. PollInv'
        BY NextPollInv
      <4>2. node[Device(d)] = None /\ node'[Device(d)] = None
        BY <4>1 DEF PollInv, Statuses
      <4>3. QED
        BY <4>2
    <3>4. QED
      BY <3>2, <3>3
  <2>4. QED
    BY <2>1, <2>2, <2>3 DEF Next, Poll
<1>2. QED
  BY <1>1, SpecPollInv, PTL DEF Spec, StatusActsFresh

-----------------------------------------------------------------------------
(* The refinement.  What the clients have of the devices that are present; *)
(* a device is being added only on its status.                             *)
Adds == pc = "add" => Online(next)
PresenceInv == PollInv /\ Adds

LEMMA AddsKeep == PresenceInv /\ [Next]_vars => PresenceInv'
<1> SUFFICES ASSUME PresenceInv, [Next]_vars PROVE PresenceInv'
  OBVIOUS
<1>1. PollInv'
  BY NextPollInv DEF PresenceInv
<1>2. Adds'
  <2>1. CASE ReadStep \/ KeepDevice \/ EndManaging \/ Sleep
    BY <2>1 DEF Adds, ReadStep, KeepDevice, EndManaging, Sleep, LeaveLoop, AlreadyConnected,
                Connect, ConnectFails, WaitReconnect, ReadBlock, ReadFails, EndReading,
                Update, StartReading, NextDevice
  <2>2. ASSUME NEW d \in Devices, DeviceStep(d) PROVE Adds'
    BY <2>2 DEF PresenceInv, Adds, Online, DeviceStep, AddDevice, Adding, AddDeviceFails,
                AddVariable, EndAdding, DeleteDevice, DeleteVariable, EndDeleting, NextDevice
  <2>3. CASE Environment
    BY <2>3 DEF PresenceInv, Adds, Online, Environment, SlaveChanges, DeviceChanges, Stop
  <2>4. CASE UNCHANGED vars
    BY <2>4 DEF PresenceInv, Adds, Online, vars
  <2>5. QED
    BY <2>1, <2>2, <2>3, <2>4 DEF Next, Poll
<1>3. QED
  BY <1>1, <1>2 DEF PresenceInv

LEMMA PartFacts ==
    /\ \A d \in Devices : \A i \in Item(d) : i \in Items /\ i[1] = d
    /\ \A i \in Items : i[1] \in Devices /\ i \in Item(i[1])
    /\ \A d \in Devices : Device(d) \in Item(d)
    /\ Presence!Items = Items
<1>1. \A d \in Devices : \A i \in Item(d) : i \in Items /\ i[1] = d
  BY DEF Items, Item
<1>2. \A i \in Items : i[1] \in Devices /\ i \in Item(i[1])
  BY <1>1 DEF Items
<1>3. \A d \in Devices : Device(d) \in Item(d)
  BY ItemFacts
<1>4. Presence!Items = Items
  BY DEF Presence!Items, Items
<1>5. QED
  BY <1>1, <1>2, <1>3, <1>4

(* A device that is present has its own node, and each at its home.        *)
Shown ==
    /\ Whole \in [Items -> Addrs \cup {Default, None}]
    /\ \A d \in Devices \ Present : \A i \in Item(d) : Whole[i] = None
    /\ \A d \in Present : Whole[Device(d)] # None
    /\ \A i \in Items : i[1] \in Present =>
          Whole[i] \in IF address[i] # None THEN {address[i]} ELSE {Default, None}
    /\ \A i, k \in Items : Whole[i] # None /\ Whole[i] = Whole[k] => i = k

LEMMA WholeFacts == PollInv => Shown
<1> SUFFICES ASSUME PollInv PROVE Shown
  OBVIOUS
<1>1. /\ server \subseteq NodeIds /\ None \notin NodeIds
      /\ Nodes /\ Addresses /\ DeviceNodes
  BY NullAssumption DEF PollInv, TypeOK
<1>2. \A i \in Items : Whole[i] = IF i[1] \in Present /\ node[i] \in server
                                  THEN node[i] ELSE None
  BY DEF Whole
<1>3. Whole \in [Items -> Addrs \cup {Default, None}]
  BY <1>1 DEF Whole, NodeIds
<1>4. ASSUME NEW d \in Devices \ Present, NEW i \in Item(d) PROVE Whole[i] = None
  BY <1>2, PartFacts
<1>5. ASSUME NEW i \in Items, i[1] \in Present, address[i] # None
      PROVE  Whole[i] = address[i]
  <2>1. PICK d \in Devices : \E j \in 0..VarCount[d] : i = <<d, j>>
    BY ItemFacts
  <2>0. PICK j \in 0..VarCount[d] : i = <<d, j>>
    BY <2>1
  <2>2. d \in Present /\ ~Busy(d) /\ node[Device(d)] # None
    BY <1>5, <2>1 DEF Present
  <2>3. node[i] = address[i]
    <3>1. CASE j = 0
      BY <1>1, <2>0, <2>2, <3>1 DEF DeviceNodes, Device
    <3>2. CASE j # 0
      <4>1. j \in 1..VarCount[d]
        BY <3>2, ItemFacts
      <4>2. On(d, j)
        BY <2>2 DEF On, Busy
      <4>3. QED
        BY <1>5, <2>0, <4>1, <4>2 DEF PollInv, Variables, AtHome
    <3>3. QED
      BY <3>1, <3>2
  <2>4. address[i] \in NodeIds
    BY <1>5 DEF PollInv, TypeOK, NodeIds
  <2>5. node[i] \in server
    BY <1>1, <2>3, <2>4 DEF Nodes
  <2>6. QED
    BY <1>2, <1>5, <2>3, <2>5
<1>6. ASSUME NEW i \in Items, i[1] \in Present, address[i] = None
      PROVE  Whole[i] \in {Default, None}
  BY <1>1, <1>2, <1>6 DEF Nodes
<1>7. ASSUME NEW d \in Present PROVE Whole[Device(d)] # None
  <2>1. Device(d) \in Items /\ Device(d)[1] = d /\ d \in Devices
    BY PartFacts DEF Present
  <2>2. address[Device(d)] # None
    BY <1>1, <2>1, NullAssumption DEF DeviceNodes, Present, NodeIds
  <2>3. QED
    BY <1>5, <2>1, <2>2
<1>8. ASSUME NEW i \in Items, NEW k \in Items, Whole[i] # None, Whole[i] = Whole[k]
      PROVE  i = k
  <2>1. /\ node[i] = Whole[i] /\ node[k] = Whole[i]
        /\ node[i] \in NodeIds
    BY <1>1, <1>2, <1>8
  <2>2. node[i] \in {Default, address[i]} /\ node[k] \in {Default, address[k]}
    BY <1>1, <2>1 DEF Nodes
  <2>3. CASE node[i] = Default
    BY <1>1, <2>1, <2>3 DEF Nodes
  <2>4. CASE node[i] # Default
    BY <1>1, <1>8, <2>1, <2>2, <2>4 DEF Addresses
  <2>5. QED
    BY <2>3, <2>4
<1>9. QED
  BY <1>3, <1>4, <1>5, <1>6, <1>7, <1>8 DEF Shown

(* No device comes or goes by what is done to an item of a device that is  *)
(* not present: a node is created under a new id, or its own is deleted.   *)
LEMMA WholeStays ==
    ASSUME PollInv, Present' = Present, NEW x \in Items, x[1] \notin Present,
           \A i \in Items \ {x} : node'[i] = node[i],
           \/ server' = server
           \/ \E a : a \notin server /\ a \in NodeIds /\ server' = server \cup {a}
           \/ server' = server \ {node[x]}
    PROVE  Whole' = Whole
<1>1. /\ server \subseteq NodeIds
      /\ \A i \in Items : node[i] \in NodeIds => node[i] \in server
      /\ \A i \in Items : node[i] \in NodeIds /\ node[i] = node[x] => i = x
  <2>1. server \subseteq NodeIds /\ Nodes /\ Addresses
    BY DEF PollInv, TypeOK
  <2>2. ASSUME NEW i \in Items, node[i] \in NodeIds, node[i] = node[x] PROVE i = x
    <3>1. node[i] \in {Default, address[i]} /\ node[x] \in {Default, address[x]}
      BY <2>1, <2>2 DEF Nodes
    <3>2. CASE node[i] = Default
      BY <2>1, <2>2, <3>2 DEF Nodes
    <3>3. CASE node[i] # Default
      <4>1. None \notin NodeIds
        BY NullAssumption
      <4>2. QED
        BY <2>1, <2>2, <3>1, <3>3, <4>1 DEF Addresses
    <3>4. QED
      BY <3>2, <3>3
  <2>3. QED
    BY <2>1, <2>2 DEF Nodes
<1>2. ASSUME NEW i \in Items, i[1] \in Present
      PROVE  node'[i] = node[i] /\ (node[i] \in server' <=> node[i] \in server)
  <2>1. i # x /\ node'[i] = node[i]
    BY <1>2
  <2>2. QED
    BY <1>1, <2>1
<1>3. QED
  BY <1>2 DEF Whole

(* What the poller hears and forgets. *)
LEMMA Hears ==
    ASSUME PollInv, PollInv', UNCHANGED <<address, node, server>>, Present' = Present,
           running' \in {running, FALSE}
    PROVE  [Presence!PresenceNext]_Presence!presenceVars
<1>1. Whole' = Whole
  BY DEF Whole
<1>2. Told' \in [Devices -> {"unknown", "online", "offline"}]
  BY DEF PollInv, TypeOK, Told
<1>3. (~running)' \in {~running, TRUE}
  BY DEF PollInv, TypeOK
<1>4. Presence!Hear
  BY <1>1, <1>2, <1>3 DEF Presence!Hear
<1>5. QED
  BY <1>4 DEF Presence!PresenceNext

(* An item gets its address, or nothing happens to the clients.            *)
LEMMA Settles ==
    ASSUME PollInv, Whole' = Whole, UNCHANGED <<running, cached, fresh>>,
           NEW x \in Items,
           \/ address' = address
           \/ /\ address[x] = None /\ counter < Capacity
              /\ address' = [address EXCEPT ![x] = counter + 1]
    PROVE  [Presence!PresenceNext]_Presence!presenceVars
<1>1. Told' = Told
  BY DEF Told
<1>2. CASE address' = address
  BY <1>1, <1>2 DEF Presence!presenceVars
<1>3. CASE address' # address
  <2>1. counter + 1 \in Addrs
    BY <1>3, DeviceAssumption DEF PollInv, TypeOK, Addrs
  <2>2. \A k \in Items : address[k] # counter + 1
    BY <1>3, DeviceAssumption, NullAssumption
    DEF PollInv, TypeOK, Addresses, NodeIds, Addrs
  <2>3. PICK a \in Addrs : a = counter + 1
    BY <2>1
  <2>4. Presence!Settle(x, a)
    BY <1>1, <1>3, <2>2, <2>3, PartFacts DEF Presence!Settle
  <2>5. QED
    BY <2>4, PartFacts DEF Presence!PresenceNext
<1>4. QED
  BY <1>2, <1>3

LEMMA WholeFactsNext == PollInv' => Shown'
  BY WholeFacts, PTL

(* A device is what its parts are. *)
LEMMA ThereFacts ==
    ASSUME PollInv, NEW d \in Devices
    PROVE  Presence!There(d) <=> d \in Present
<1>1. Presence!There(d) <=> \E i \in Item(d) : Whole[i] # None
  BY DEF Presence!There
<1>2. Shown
  BY WholeFacts
<1>3. QED
  BY <1>1, <1>2, PartFacts DEF Shown

(* When the last variable is added, the device is there with all of them.  *)
LEMMA ComesAsAWhole ==
    ASSUME PresenceInv, PollInv', NEW d \in Devices, EndAdding(d)
    PROVE  Presence!Come(d)
<1>1. /\ pc = "add" /\ next = d /\ pc' = "manage"
      /\ UNCHANGED <<address, node, server, running, cached, fresh>>
  BY DEF EndAdding, NextDevice, itemVars
<1>2. /\ d \notin Present /\ d \in Present'
      /\ \A e \in Devices \ {d} : e \in Present' <=> e \in Present
  <2>1. node[Device(d)] # None
    BY <1>1 DEF PresenceInv, PollInv, DeviceNodes
  <2>2. QED
    BY <1>1, <2>1 DEF Present, Busy
<1>3. Shown /\ Shown'
  BY WholeFacts, WholeFactsNext DEF PresenceInv
<1>4. ~Presence!There(d) /\ Presence!There(d)'
  <2>1. ~Presence!There(d)
    BY <1>2, ThereFacts DEF PresenceInv
  <2>2. Whole'[Device(d)] # None /\ Device(d) \in Item(d)
    BY <1>2, <1>3, PartFacts DEF Shown
  <2>3. QED
    BY <2>1, <2>2 DEF Presence!There
<1>5. Presence!MayMove(d, "online")
  <2>1. running => d \in fresh
    BY <1>1 DEF PresenceInv, PollInv, Statuses, Adds, Online
  <2>2. cached[d] = "online"
    BY <1>1 DEF PresenceInv, Adds, Online
  <2>3. Told[d] = "online" \/ ~running
    BY <2>1, <2>2 DEF Told
  <2>4. QED
    BY <2>3 DEF Presence!MayMove
<1>6. \A i \in Items \ Item(d) : Whole'[i] = Whole[i]
  <2> SUFFICES ASSUME NEW i \in Items \ Item(d) PROVE Whole'[i] = Whole[i]
    OBVIOUS
  <2>1. i[1] \in Devices \ {d}
    BY PartFacts
  <2>2. QED
    BY <1>1, <1>2, <2>1 DEF Whole
<1>7. \A i \in Item(d) :
         Whole'[i] \in IF address[i] # None THEN {address[i]} ELSE {Default, None}
  BY <1>1, <1>2, <1>3, PartFacts DEF Shown
<1>8. /\ Whole' \in [Items -> Addrs \cup {Default, None}]
      /\ \A i, k \in Items : Whole'[i] # None /\ Whole'[i] = Whole'[k] => i = k
  BY <1>3 DEF Shown
<1>9. Told' = Told
  BY <1>1 DEF Told
<1>10. QED
  BY <1>1, <1>4, <1>5, <1>6, <1>7, <1>8, <1>9, PartFacts DEF Presence!Come

(* With the beginning of its deletion it is gone.                          *)
LEMMA GoesAsAWhole ==
    ASSUME PresenceInv, NEW d \in Devices, DeleteDevice(d)
    PROVE  Presence!Go(d)
<1>1. /\ pc = "manage" /\ next = d /\ pc' = "delete" /\ next' = next
      /\ ~Online(d) /\ node[Device(d)] # None
      /\ UNCHANGED <<address, node, server, running, cached, fresh>>
  BY DEF DeleteDevice
<1>2. Present' = Present \ {d} /\ d \in Present
  BY <1>1 DEF Present, Busy
<1>3. Presence!There(d)
  BY <1>2, ThereFacts DEF PresenceInv
<1>4. Presence!MayMove(d, "offline")
  <2>1. StatusBlock[d] # 0
    BY <1>1 DEF PresenceInv, PollInv, Statuses
  <2>2. cached[d] = "offline"
    BY <1>1, <2>1 DEF Online, PresenceInv, PollInv, TypeOK
  <2>3. running => d \in fresh
    BY <1>1, <2>1 DEF PresenceInv, PollInv, Statuses
  <2>4. Told[d] = "offline" \/ ~running
    BY <2>2, <2>3 DEF Told
  <2>5. QED
    BY <2>4 DEF Presence!MayMove
<1>5. Whole' = [i \in Items |-> IF i \in Item(d) THEN None ELSE Whole[i]]
  <2>1. ASSUME NEW i \in Items
        PROVE  /\ i \in Item(d) => i[1] \notin Present'
               /\ i \notin Item(d) => (i[1] \in Present' <=> i[1] \in Present)
    BY <1>2, PartFacts
  <2>2. QED
    BY <1>1, <2>1 DEF Whole
<1>6. Told' = Told
  BY <1>1 DEF Told
<1>7. QED
  BY <1>1, <1>3, <1>4, <1>5, <1>6, PartFacts DEF Presence!Go

(* Between the two, what is done to the items of the device at hand.       *)
LEMMA AddsUnseen ==
    ASSUME PollInv, PollInv', NEW d \in Devices,
           AddDevice(d) \/ AddDeviceFails(d) \/ AddVariable(d)
    PROVE  [Presence!PresenceNext]_Presence!presenceVars
<1>1. PICK x \in Item(d) :
         \/ AddDevice(d) /\ x = Device(d)
         \/ AddDeviceFails(d) /\ x = Device(d)
         \/ AddVariable(d) /\ x = <<d, item>>
  <2>1. AddVariable(d) => <<d, item>> \in Item(d)
    <3>1. AddVariable(d) => item \in 1..(VarCount[d] + 1) /\ item <= VarCount[d]
      BY DEF AddVariable, PollInv, Place
    <3>2. AddVariable(d) => item \in 0..VarCount[d]
      BY <3>1, ItemFacts
    <3>3. QED
      BY <3>2, ItemFacts
  <2>2. QED
    BY <2>1, PartFacts
<1>2. x \in Items /\ x[1] = d
  BY PartFacts
<1>3. /\ UNCHANGED <<running, cached, fresh>> /\ next = d
      /\ \/ pc = "manage" /\ node[Device(d)] = None
         \/ pc = "add"
      /\ \/ pc' = "add" /\ next' = d
         \/ pc' = "manage" /\ UNCHANGED <<node, server>>
      /\ pc = "add" => pc' = "add"
  BY DEF AddDevice, AddDeviceFails, AddVariable, Adding, NextDevice
<1>4. \/ UNCHANGED <<node, server>>
      \/ \E id \in NodeIds : CreateNode(x, id)
  <2>1. address' \in [Items -> Addrs \cup {None}] /\ Default \in NodeIds
    BY DEF PollInv, TypeOK, NodeIds
  <2>2. ASSUME EnsureOn(x) \/ AllocateTo(x) PROVE address'[x] \in NodeIds
    <3>1. address'[x] # None
      <4>1. EnsureOn(x) => address'[x] # None
        BY DEF EnsureOn
      <4>2. AllocateTo(x) => address'[x] = counter + 1 /\ counter + 1 \in Addrs
        BY <1>2, DeviceAssumption DEF AllocateTo, PollInv, TypeOK, Addrs
      <4>3. QED
        BY <2>2, <4>1, <4>2, NullAssumption DEF NodeIds
    <3>2. QED
      BY <1>2, <2>1, <3>1 DEF NodeIds
  <2>3. CASE AddDeviceFails(d)
    BY <2>3 DEF AddDeviceFails
  <2>4. CASE AddDevice(d) /\ x = Device(d)
    BY <2>2, <2>4 DEF AddDevice
  <2>5. CASE AddVariable(d) /\ x = <<d, item>>
    BY <2>1, <2>2, <2>5 DEF AddVariable
  <2>6. QED
    BY <1>1, <2>3, <2>4, <2>5
<1>5. /\ \A i \in Items \ {x} : node'[i] = node[i]
      /\ \/ server' = server
         \/ \E a : a \notin server /\ a \in NodeIds /\ server' = server \cup {a}
  BY <1>2, <1>4 DEF CreateNode, PollInv, TypeOK
<1>6. Present' = Present /\ d \notin Present
  <2>1. d \notin Present /\ d \notin Present'
    BY <1>3 DEF Present, Busy
  <2>2. ASSUME NEW e \in Devices \ {d} PROVE e \in Present' <=> e \in Present
    <3>1. node'[Device(e)] = node[Device(e)]
      BY <1>2, <1>5, PartFacts
    <3>2. ~Busy(e) /\ ~Busy(e)'
      BY <1>3 DEF Busy
    <3>3. QED
      BY <3>1, <3>2 DEF Present
  <2>3. QED
    BY <2>1, <2>2 DEF Present
<1>7. Whole' = Whole
  BY <1>2, <1>5, <1>6, WholeStays
<1>8. \/ address' = address
      \/ /\ address[x] = None /\ counter < Capacity
         /\ address' = [address EXCEPT ![x] = counter + 1]
  <2>1. counter \in 0..Capacity
    BY DEF PollInv, TypeOK
  <2>2. CASE AddDevice(d) /\ x = Device(d)
    BY <2>2 DEF AddDevice, EnsureOn, AllocateTo
  <2>3. CASE AddDeviceFails(d) /\ x = Device(d)
    BY <2>1, <2>3, DeviceAssumption DEF AddDeviceFails
  <2>4. CASE AddVariable(d) /\ x = <<d, item>>
    BY <2>4 DEF AddVariable, EnsureOn, AllocateTo
  <2>5. QED
    BY <1>1, <2>2, <2>3, <2>4
<1>9. QED
  BY <1>2, <1>3, <1>7, <1>8, Settles

LEMMA DeletesUnseen ==
    ASSUME PollInv, NEW d \in Devices, DeleteVariable(d) \/ EndDeleting(d)
    PROVE  [Presence!PresenceNext]_Presence!presenceVars
<1>1. PICK x \in Item(d) :
         /\ node' = [node EXCEPT ![x] = None]
         /\ server' = server \ {node[x]}
  <2>1. CASE DeleteVariable(d)
    <3>1. item \in 1..(VarCount[d] + 1) /\ item <= VarCount[d]
      BY <2>1 DEF DeleteVariable, PollInv, Place
    <3>2. item \in 0..VarCount[d]
      BY <3>1, ItemFacts
    <3>3. <<d, item>> \in Item(d)
      BY <3>2, ItemFacts
    <3>4. QED
      BY <2>1, <3>3 DEF DeleteVariable
  <2>2. CASE EndDeleting(d)
    BY <2>2, PartFacts DEF EndDeleting
  <2>3. QED
    BY <2>1, <2>2
<1>2. /\ pc = "delete" /\ next = d
      /\ UNCHANGED <<address, running, cached, fresh>>
      /\ \/ pc' = "delete" /\ next' = d
         \/ pc' = "manage" /\ node'[Device(d)] = None
  <2>1. Device(d) \in Items
    BY PartFacts
  <2>2. QED
    BY <2>1 DEF DeleteVariable, EndDeleting, NextDevice, PollInv, TypeOK
<1>3. x \in Items /\ x[1] = d
  BY PartFacts
<1>4. \A i \in Items \ {x} : node'[i] = node[i]
  BY <1>1 DEF PollInv, TypeOK
<1>5. Present' = Present /\ d \notin Present
  <2>1. d \notin Present /\ d \notin Present'
    BY <1>2 DEF Present, Busy
  <2>2. ASSUME NEW e \in Devices \ {d} PROVE e \in Present' <=> e \in Present
    <3>1. node'[Device(e)] = node[Device(e)]
      BY <1>3, <1>4, PartFacts
    <3>2. ~Busy(e) /\ ~Busy(e)'
      BY <1>2 DEF Busy
    <3>3. QED
      BY <3>1, <3>2 DEF Present
  <2>3. QED
    BY <2>1, <2>2 DEF Present
<1>6. Whole' = Whole
  BY <1>1, <1>3, <1>4, <1>5, WholeStays
<1>7. QED
  BY <1>2, <1>3, <1>6, Settles

LEMMA StepPresents ==
    ASSUME PresenceInv, PollInv', [Next]_vars
    PROVE  [Presence!PresenceNext]_Presence!presenceVars
<1>1. CASE ReadStep \/ KeepDevice \/ EndManaging \/ Sleep
  <2>1. /\ UNCHANGED <<address, node, server, running>>
        /\ pc \in Resting /\ pc' \in Resting
    BY <1>1 DEF ReadStep, KeepDevice, EndManaging, Sleep, LeaveLoop, AlreadyConnected,
                Connect, ConnectFails, WaitReconnect, ReadBlock, ReadFails, EndReading,
                Update, StartReading, NextDevice, itemVars, Resting
  <2>2. Present' = Present
    BY <2>1 DEF Present, Busy, Resting
  <2>3. QED
    BY <2>1, <2>2, Hears DEF PresenceInv
<1>2. CASE Environment
  <2>1. /\ UNCHANGED <<address, node, server, pc, next>>
        /\ running' \in {running, FALSE}
    BY <1>2 DEF Environment, SlaveChanges, DeviceChanges, Stop, itemVars
  <2>2. Present' = Present
    BY <2>1 DEF Present, Busy
  <2>3. UNCHANGED <<address, node, server>> /\ running' \in {running, FALSE}
    BY <2>1
  <2>4. PollInv
    BY DEF PresenceInv
  <2>5. QED
    BY <2>2, <2>3, <2>4, Hears
<1>3. ASSUME NEW d \in Devices, DeviceStep(d)
      PROVE  [Presence!PresenceNext]_Presence!presenceVars
  <2>1. Presence!Come(d) \/ Presence!Go(d) => Presence!PresenceNext
    BY DEF Presence!PresenceNext
  <2>2. QED
    BY <1>3, <2>1, AddsUnseen, ComesAsAWhole, GoesAsAWhole, DeletesUnseen
    DEF DeviceStep, PresenceInv
<1>4. CASE UNCHANGED vars
  <2>1. UNCHANGED <<address, node, server, running, pc, next, cached, fresh>>
    BY <1>4 DEF vars
  <2>2. Present' = Present /\ Told' = Told
    BY <2>1 DEF Present, Busy, Told
  <2>3. Whole' = Whole
    BY <2>1, <2>2 DEF Whole
  <2>4. QED
    BY <2>1, <2>2, <2>3 DEF Presence!presenceVars
<1>5. QED
  BY <1>1, <1>2, <1>3, <1>4 DEF Next, Poll

LEMMA InitPresents == Init => PresenceInv /\ Presence!PresenceInit
<1> SUFFICES ASSUME Init PROVE PresenceInv /\ Presence!PresenceInit
  OBVIOUS
<1>1. PresenceInv
  BY InitPollInv DEF Init, PresenceInv, Adds
<1>2. /\ address = [i \in Items |-> None] /\ running = TRUE /\ fresh = {}
      /\ \A i \in Items : node[i] = None
  BY DEF Init
<1>3. Present = {}
  BY <1>2, PartFacts DEF Present
<1>4. Told = [d \in Devices |-> "unknown"] /\ Whole = [i \in Items |-> None]
  BY <1>2, <1>3 DEF Told, Whole
<1>5. QED
  BY <1>1, <1>2, <1>4, PartFacts DEF Presence!PresenceInit

(* What the poller does node by node is to the clients DevicePresence: a   *)
(* device is there with all that has an address or not at all, it comes    *)
(* and goes on its status, and its nodes stay where they are until it goes.*)
THEOREM DevicesPresented == Spec => Presents
<1>1. Spec => []PresenceInv /\ []PollInv
  BY InitPresents, AddsKeep, SpecPollInv, PTL DEF Spec
<1>2. PresenceInv /\ PollInv' /\ [Next]_vars
      => [Presence!PresenceNext]_Presence!presenceVars
  BY StepPresents
<1>3. Init => Presence!PresenceInit
  BY InitPresents
<1>4. QED
  BY <1>1, <1>2, <1>3, PTL DEF Spec, Presents, Presence!PresenceSpec
=============================================================================
