# Verification of the AUTBUS controller gateway

The program is a Windows gateway between Modbus/TCP slaves and OPC UA clients.
It reads a table of variables (`uploadtable.csv`), polls them over Modbus,
shows each as an OPC UA node, gives each node an IPv6 address of its own on a
network interface, and answers discovery requests (ADDP) over UDP.  This
directory holds TLA+ models of it, the TLC runs that check them on small
instances, and proofs, checked by TLAPS, that hold for every instance.

Paths below are relative to the root of the repository; `opcua_server.c`,
`ipv6_manager.c` and so on are in `src/`.

## 1. The system

### 1.1 Parts, state, operations

| part | where | state | operations |
|---|---|---|---|
| IPv6 address manager | `ipv6_manager.c` | pool (`start_addr`, `end_addr`, `next_addr_counter`, `allocated_addrs`), `interface_addrs`, device map, batch counter and its pending delay | allocate, release, add to / remove from the interface, look up, delay before the next device, remove everything at exit |
| polling thread | `modbusPollingThread`, `addDeviceNodes`, `deleteDeviceNodes`, `updateOPCUAVariables` in `opcua_server.c` | connection, cached values, addresses and node ids of devices and variables | connect, read the blocks, push the values, add and remove devices, wait |
| callbacks of the OPC UA server | `readVariableCallback`, `writeVariableCallback` | `is_modbus_updating`, `var_update_mutex`, the cached value | answer a read from the cache, write a value to the slave and to the cache |
| Modbus read plan | `build_modbus_read_plan` | ranges, blocks | build once, before the poller starts |
| device table | `csv_parser.c`, `createDeviceNodes` | records, devices with their variables | parse once, count, allocate, fill |
| process lifecycle | `main` (`ipv6_server.cpp`), `main_loop` (`main_loop.cpp`), `opcua_server_main` | stop flags, socket, threads, what each part has initialised | start up, serve, stop on a signal or a failure, clean up |
| ADDP discovery | `main_loop.cpp` | the controller's description | parse a scan request, build and send an answer |
| log manager | `log_manager.c` | log file, limits | print, rotate, delete old logs |
| configuration | `read_ipv6_config`, `loadConfig` | settings from `config.json` | read once each, with defaults |
| Modbus wrapper | `modbus_client.c` | the `modbus_t` context | connect, disconnect, read, write, free |
| printing thread | `printNodeVariablesThread` | - | its start is compiled out |
| Linux controller | `linux_func/src/` | its own pool, map lock, flags and signal handlers, devices and variables | the same service in a variant of its own: three threads and a printing thread, addresses by `ip` commands |

Not part of the running program, or not its own: `addp_protocol.cpp`,
`network.cpp`, `device.cpp` (built, but nothing calls them: `main_loop.cpp` has
functions of its own for the same purposes), their copies under `linux_func/`,
the cJSON, open62541 and libmodbus sources and headers,
`build/`, `lib/`, `si/` and the archives.

### 1.2 How they interact

Three threads run.  `main` initialises the log, Winsock and the address
manager, opens the socket, starts the thread of `opcua_server_main`, and enters
`main_loop`, which allocates an address for the controller and then answers
ADDP.  The OPC UA thread reads its configuration, creates the fixed nodes
(allocating addresses), parses the table, builds the read plan, starts the
polling thread and runs the server, in whose iterations the callbacks are
called.  The polling thread calls the address manager and the server, and the
server calls `writeVariableCallback` back when the poller writes a node.  They
share the address manager (three locks), the values and node ids (a mutex the
callbacks take and the poller does not), the Modbus context (no lock), and the
flags `running`, `is_modbus_updating` and `g_main_loop_running`.  All of them
log, under a mutex of the log's own.  Outside are the slave, OPC UA clients,
ADDP clients with the network between, and the operating system's list of
interface addresses and log files, both of which survive the process.

The Linux program has the same three threads, a printing thread that is
cancelled at the end, and a signal handler in `main` that the OPC UA thread
replaces by its own.

### 1.3 What is hard

- *Concurrency*: allocation and release by several threads, in several critical
  sections each, with a system call between them; the poller and the callbacks
  on the same values; the flag that makes a write a no-op.
- *Failure*: every addition to the interface, every Modbus request, every
  allocation of memory can fail in the middle of an operation of many steps.
- *Crash*: a killed process leaves addresses on the interface; later runs must
  collect them, and must not touch anybody else's.  It leaves its log files in
  the middle of a rotation.
- *Network*: scan requests and answers are lost, repeated and reordered, and one
  buffer takes all of them.
- *Ordering*: who frees what while who still uses it, when the program stops.
- *Timeouts*: reconnection, the receive timeout that lets `main_loop` see a stop.
- *Limits*: the pool, request sizes, batches of additions, two passes over one
  table that must agree on a size.

The hazards that matter most are listed in `PROJECT.json`, each with its line and
the properties that would catch it; smaller ones are named in sections 3 and 6.

### 1.4 What makes each part correct

- Address manager: an address is never held twice; what the program put on the
  interface it removes at exit, also after a crash, and nothing else.
- Polling: nodes and addresses follow the status the slave reports, only on
  fresh evidence, and in the end always; an address stays with its owner.
- Writes: a write reported successful is at the slave; words of one value stay
  together; the cache catches up; every write is answered.
- Read plan: every variable is read whole, within the limits, with the fewest
  requests.
- Device table: each row belongs to the device the documents say; the passes
  agree; each record becomes a variable of its device.
- Lifecycle: no thread outlives what it works with; an exit is orderly; a stop
  ends the program.
- Discovery: an answer goes to who asked, with an address that is there; who
  keeps asking is answered.
- Log: no line is lost but with the oldest files, their number is bounded, and
  logging never blocks a thread for good or uses a closed stream.
- Linux controller: owners have different addresses, the interface follows the
  nodes, and a signal ends what it reaches.

## 2. Modules

| module | models | abstract or composed |
|---|---|---|
| `AddressDispenser` | what callers may rely on: a never-repeated address | abstract specification |
| `Ipv6Manager` | `ipv6_manager.c`, one action per critical section or system call | implements `AddressDispenser` |
| `DevicePresence` | what clients may rely on: a device with all its nodes or none | abstract specification |
| `DevicePolling` | the polling thread with the slave and the interface | implements `DevicePresence`; keeps of the address manager what the poller sees |
| `VariableWrite` | one variable between clients, poller and slave | |
| `ReadPlan` | `build_modbus_read_plan` | |
| `DeviceTable` | `parseCSV`, `createDeviceNodes` | its result is what `ReadPlan` and `DevicePolling` take as constants |
| `ControllerLifecycle` | `main`, `main_loop`, the OPC UA thread, the poller, signals | composes the parts by what they hold and need |
| `Discovery` | ADDP: clients, network, receiving, parsing, answering | extends `ControllerLifecycle`: every step of the process together with what it does to the datagrams |
| `LogManager` | `log_manager.c`: printing, rotation, removal of old files, kill and restart | |
| `LinuxController` | `linux_func/src`: its pool, threads and signals | its pool implements `AddressDispenser` too |
| `*Proofs` | theorems about the module of that name (`DiscoveryProofs` also about `ControllerLifecycle`) | |
| `MC*` | small instances for TLC | |

Definitions have the names of the code where TLA+ allows it; `PROJECT.json`
maps each to its lines.  Definitions marked `mutant` are plausible mistakes,
used to show that a property notices them; no specification uses them.

**Ipv6Manager.**  A call of the manager is a sequence of steps (`call[t].at`),
one per critical section or system call, so that threads interleave wherever
the code can: generate, create the interface entry, remember it, note it for
the batch, map it, or roll it back; delete, forget, unallocate, unmap.
`AllocatesFor` says who asks for whose address, `ChecksFirst` who looks the
owner up before.  `EndProcess`, `Crash` and `Boot` end and begin runs;
`nic` survives.  An address is a number; padded and canonical texts of it are
identified, as every comparison that matters does.  A creation that finds the
entry there, one that fails, and a deletion that fails are all possible at any
time.

**DevicePolling.**  One action per step of the loop: connect (or fail and
wait), read a block (or fail and disconnect), push the values, then a device at
a time: keep, add, delete, each of the last two variable by variable.  `slave`
may be down, answer, or answer in part; the devices' statuses change at any
time.  A status never read is zero, which the code takes as online.
`DevicePresence` has a device come in one step (the end of its addition) and go
in one (the beginning of its deletion), on its status of this cycle or in the
cycle a stop cuts short; in between, its nodes stay at the addresses its items
have, whatever happens to other devices.  The mapping (`Present`, `Told`,
`Whole`) shows a device half added or half deleted as absent, and a node only
if the server has it; what a client sees during those steps is not promised.

**VariableWrite.**  A variable of `Width` registers.  The callback's steps are
the check of `is_modbus_updating`, the mutex, the lookup, one request per
register, and the caching; the poller reads, stores without the mutex, pushes
under the flag, and may delete or recreate the node, which runs the callback in
the poller's thread for the cached value.  A failed write may or may not have
reached the slave.

**ReadPlan.**  Collecting, sorting, merging and flushing of ranges, with
allocation failures.  References are translated as the code does, in three
forms per register type.

**DeviceTable.**  Four passes: parse the rows, count the devices, enter their
names, fill each with its variables.  Of a row is kept whose name it has (a
device's, none, inherited, or missing) and whether the rest of it is there.

**ControllerLifecycle.**  Each initialisation and each release of the three
threads is an action, the failing ones too; signals arrive at any time, the
second of a kind kills.  `held`, `owned`, `ctx` and `nic` are what exists, and
the property is that whoever needs one of them is not alive without it.

**Discovery.**  `DiscoveryNext` is every step of `ControllerLifecycle` joined to
`DiscoveryStep`, which says what `main`'s receiving (`Receive`) and handling
(`Answer`, `AnswerLost`, `Ignore`) do to `buffer` and `wire`; `Elsewhere` is any
other step.  A datagram is who sent it, whether it is as long as a request, its
head, and the sequence number and client address at its end; a short one leaves
the end of the buffer as it was.  `wire` is a set: datagrams that are lost are
never put there, and one received may stay there to come again.

**LogManager.**  A file is its lines and its time of modification, a line its
number.  `Call`, `Lock`, `PrintOnly`, `SizeWithin` and `CloseFull`, `Rename`,
`Reopen`, `Scan`, `Remove`, `Write` are the steps of one call; `RenameRefused`
is a target name that is taken (two rotations within a second), `ReopenFails`
and `ScanFails` the failures of the C library, `Exit` a kill at any point with
the files as they are.  `lines`, `dropped` and `tidied` are history.

**LinuxController.**  Positions in the pool are the addresses.  A call of
`ipv6_allocate_address` (by main or by the poller) is parse, generate, add,
map; each `ip` command fails or not.  `handler` is whose handler a signal
reaches; `mapLock` may be lost with the printing thread that is cancelled while
it holds it.  `Start` leaves in the devices' address fields what `malloc` does.

## 3. Runs

Passing runs:

| run | bounds | states | what it shows |
|---|---|---|---|
| `ipv6_manager` | 2 threads, 2 owners, pool of 2 of 4 addresses, batch of 2 | 1,132,916 | `GrantsUnique`, `MapBacked`, `NicTracked`, `CleanExit`, `BatchPaced`, `ForeignUntouched`, and `Dispenses`: the manager implements the dispenser |
| `device_polling` | 2 devices, one with a variable, 2 blocks, 2 addresses for 3 items | 277,776 | `InterfaceFollowsNodes`, `ServerFollowsHandles`, `NodesAtAddresses`, `StatusActsFresh`, `Presents`: the poller implements `DevicePresence`; `StatusPrevails`, `StopEnds` |
| `variable_write` | 2 registers, 2 values | 9,172 | `WordsTogether`, `SuccessIsStored`, `CacheCatchesUp`, `WritesAnswered` |
| `read_plan` | up to 4 variables; 5 registers or 3 bits to a request | 90,778 | `PlanCovers`, `BlocksFit`, `FewestBlocks` |
| `device_table` | files of up to 4 rows, 2 devices | 90,504 | `NamesInherited`, `CountsAgree`, `RecordsPlaced` |
| `discovery` | 1 client, 2 requests, 1 stray datagram at a time, 1 kind of signal | 183,247 | `ResourcesLive`, `ExitIsOrderly`, `StraysOnlyAtStop`, `StopEnds` of the process; `AnswersAsked`, `AnnouncesLive`, `ClientsAnswered` of discovery |
| `log_manager` | 2 threads, 9 lines, files of 2 lines, 2 files, 4 seconds | 69,356 | `StreamOpenWhenUsed`, `LinesAccounted`, `FilesBounded`, `OldestGoFirst`, `CallsReturn` |
| `linux_controller` | 1 device with a variable, pool of 2 addresses | 364,206 | `AddressesDistinct`, `InterfaceFollowsNodes`, `Dispenses`, `SignalsServed` |

Type invariants are proved (section 5) rather than run.

Why the bounds are enough.  *Pool of two*: it runs dry, an address rolls back
while the other is in use, and there is an address on either side of the pool.
Two threads are what can interleave within one allocation; the map races need
one owner they share and one they do not.  *Two devices, two blocks*: one
device's status is read before a failure, the other's after it; with an
address less than items the pool fails at a device or at a variable.  *Two
registers* are the widest write the callback does.  *Requests of five
registers*: the widest variable has four, so variables fit together, just fit,
and do not fit, and four of them make up to three blocks.  *Four rows*:
inheritance across a refused row, a device that comes back after another one,
and a record left over.  *Two requests* of a client and a stray datagram: an
old answer, an old request and a short datagram all meet in the buffer; one
kind of signal is enough for a stop and a kill.  *Nine lines* fill a file of two
four times over, with more rotations than files may stay; four seconds
leave room for rotations within one and in different ones.  *One Linux device*:
the poller and main still compete for a pool of two with three owners; that the
steps for one device leave the others alone is the part of
`InterfaceFollowsNodes` which `LinuxInterfaceFollows` shows.  Where a
theorem covers the property (section 5), the bounds do not matter to it.

Runs that refute what a document or comment says (each is a finding of
`PROJECT.json`, which quotes it):

| run | refuted | by the code |
|---|---|---|
| `one_address_per_owner` | an owner without an address gets one | `main_loop` allocates for the controller without looking; the OPC UA thread has looked before: two addresses |
| `every_variable_has_node` | a variable without an address gets a node under the default one | the second such variable is refused by the server |
| `client_write_reaches` | the flag tells the poller's writes from clients' | a client's write during an update is answered with success and dropped |
| `linux_stop_ends` | a stop signal ends the Linux program, which cleans up | the OPC UA thread replaces main's handler, and its own stops only its threads |

Differences that were noted without a run: addresses are never recycled, since
the counter does not come back (`ipv6_manager.c:980`), while
`工程架构与概要设计文档.md:397` has them recycled; after a failed read the poller
connects again at once (`opcua_server.c:2433`), where `概要设计文档.md:281` says that
it waits; the status 0 is online in the code (`opcua_server.c:2607`), while
`工程架构与概要设计文档.md:355` says 1; the table's
name for discrete inputs is "Discretes Input" in the parser; ULINT is four
registers wide in the code and 32 bits in a document; the announced OPC UA port
is configurable, the one listened on is not (`opcua_server.c:1064`); a failed
`setsockopt(SO_RCVTIMEO)` is only a warning (`ipv6_server.cpp:462`), and then a
stop request takes effect only when the next packet arrives, which
`ControllerLifecycle!StopEnds` states as an exception.

## 4. Fairness

- `DevicePolling`: weak fairness of the polling thread as a whole.  It is an
  OS thread whose library calls return (the Modbus calls have timeouts).  The
  slave, the devices and the stop request are under no obligation.
- `VariableWrite`: weak fairness of the poller and of a callback in progress,
  strong fairness of taking the mutex: two threads compete for it, each holds
  it for one callback, and a waiter is not passed over for ever.
- `ControllerLifecycle`: weak fairness of each thread.  Receiving a packet is
  not promised: that is why the receive timeout matters.
- `Discovery`: the same, and for `ClientsAnswered`: a client goes on repeating a
  request it has no answer to, and of a datagram sent again and again one
  arrives and one answer gets through (strong fairness of these two steps).
  This is the least a lossy network must do for anybody to be answered.
- `LogManager`: a thread in a call goes on, and a thread that waits for the
  mutex gets it when it is free again and again.
- `LinuxController`: the threads run; packets keep coming (`recvfrom` has no
  timeout there) and the map's lock is obtained in the end, as long as somebody
  gives it back: strong fairness of main and the poller.
- `Ipv6Manager`, `DeviceTable`, `ReadPlan`: none; they have safety properties
  only.

## 5. Proofs

All theorems are of the form `Spec => []Invariant` or `Spec => [][A]_v`, for
every value of the constants that satisfies the named assumptions.

**`Ipv6ManagerProofs`.**  Assumptions: the pool lies
in the address space and does not end at its last address (incrementing past
it would wrap), callers are owners, the batch limit is a number.  The
invariant comes in layers.  `TypeInv` adds to the types the shape of a call at
each step and `Below`: whatever was handed out lies below the counter, so the
search stops at the counter itself.  From it alone follow `GrantsUnique`
(`ExclusiveAddresses`), the refinement (`ImplementsDispenser`), `BatchPaced`
(`BatchesArePaced`, with `burst <= added` while no delay is due) and
`ForeignUntouched`.  `HoldInv` adds that a call in progress holds the grant of
its address, hence that no two calls work on one address (`OneCallPerAddress`).
On it rest `NicInv`, which follows an address from the interface to the cleanup
list and back (`InterfaceTracked`, `ExitIsClean`), and `MapInv`, which follows
it from the allocated list to the map (`MapIsBacked`).

**`DevicePollingProofs`.**  Assumptions: the numbers are numbers, and the null
and the unassigned node id are no node ids.  `PollInv`: `Place` ties the
position to the loop it is in; `Addresses` (an item's address is one of those
given out so far, and its own); `Nodes` and `DeviceNodes` tie handles, server
and addresses together; `Variables` and `Interface` say where each item's node
and address are in terms of `On`, which says how far the poller has come with a
device half added or half deleted; without it neither would survive those
steps.  `Statuses` follows a status from the block read to the device managed.
From it: `InterfaceFollows`, `ServerFollows`, `NodesHaveAddresses`,
`AddressesKept`, `StatusIsFresh`, `PollTypeCorrect`.  The refinement of
`DevicePresence` (`DevicesPresented`) needs in addition that a device being
added is online (`Adds`): the end of an addition is then a coming on its status,
with the nodes `WholeFacts` describes, and the beginning of a deletion a going;
every other step on nodes is about one item of a device not present, and since
no two handles are equal it moves nobody's node (`WholeStays`).

**`VariableWriteProofs`.**  The shape of a callback at each step, hence that
the mutex admits one (`OneCallback`); with `Written`, the registers a callback
has written so far, a success is at the slave (`SuccessStored`); with `Between`,
how the others look, the registers are of one value (`WordsStayTogether`).

**`ReadPlanProofs`.**  Assumption: a request takes at least four registers (the
widest datatype) and one bit.  `PlanInv`: the current range can be read by one
request, what is left starts no earlier, and each range is left, within the
current one, or held by a block (`EveryVariableRead`, `RequestsFit`).  For the
optimality (`NoPlanSmaller`) the table is assumed finite, as any array is:
`FewestInv` adds that each block was opened by a range none of the earlier
blocks of its type could reach (`Unfit`), as the blocks lie in order (`InOrder`);
one request serves at most one of these openers, so no choice of requests that
serves them all is smaller than the plan (`OneBlockEach`).

**`DeviceTableProofs`.**  `TableInv`: both passes meet a new device at the
records that begin a run of equal names; the first has counted all such runs,
the second has entered those of the records behind it (`TableWithinBounds`,
`EveryDeviceNamed`).  `NamesInv` follows the parser: the name it remembers is
that of the nearest row with one (`Remembered`), and each row behind it has its
record, in order, or none is due (`Inherits`); the later passes write no record
(`RecordsInheritNames`).  `PlacedInv` follows the passes over the records: the
names entered are those of the records behind (`Met`), and where the rows of
each device are together no two of them are equal, so that a record finds one
device (`RecordsFindDevice`).

**`DiscoveryProofs`.**  `LifeInv`: where `main` is fixes what it
holds, where the OPC UA thread is fixes what it owns, and each thread lives
between the start and the join of the thread that started it
(`ThreadsHaveResources`, `OrderlyExit`, `StraysRare`).  Every step of discovery
is a step of the process or none, so these hold in the composition
(`DiscoveryLifecycle`).  On top, `Genuine`: what on the wire or in the buffer
passes for a request is one (`OnlyRequestsAnswered`), and `Addressed`: while it
serves, main has the controller's address (`AnnouncedIsLive`).

**`LogManagerProofs`.**  Assumption: finitely many threads.  `Inside`: who is past
the lock holds it; `Closed` and `Stream`: the stream is closed exactly between
closing and reopening, and an open one has its file (`StreamIsOpen`); `Victims`:
what is to be removed is there and not in use; `Room`: lines written and calls
in progress stay within the bound, so that a number is never used twice
(`NoLineLost`).  `TidyInv` adds two orders.  `Ordered`: of two files the one
modified earlier has only older lines, and the log in use has the newest; so
removing by modification time removes by age (`OldestRemovedFirst`).
`Removing` counts during a cleanup, what is there less the victims left being
within the limit; `Untidied`: too many files are there only while some thread
is rotating (`FilesStayBounded`).

**`LinuxControllerProofs`.**  `Fresh`: before main's initialisation nothing is
allocated; `CallShape` and `CallersApart`: what each call of the allocation has
in hand, and that main and the poller never ask for the same owner; `Below` and
`Handed`: what is allocated or held lies below the counter.  From it
`OwnersDistinct`, and the refinement of `AddressDispenser` (`PoolDispenses`), in
which an address refused by the interface was given and is given up.
`InterfaceFollowsNodes` holds between cycles only; `FollowsInv` states what is
due within one: `AddressDue` and `VariableDue` tell by where the poller stands
whether the interface is ahead of the node or behind it, `Asked` that the
poller's call is for the device it is at, `Refusal` that who was refused an
address has none on the interface to answer for, `NodeDue` that a node is
missing only where the device's address is garbage.  `CommandsApart`, from the
distinctness above, keeps main's commands and those for one device from
touching another's address (`LinuxInterfaceFollows`).

So every invariant and action property a passing run checks is a theorem.
Model-checked only: the seven liveness properties, since TLAPS 1.4.5 does not
handle `ENABLED` and fairness.

## 6. Not modelled

- Values as such: formatting, byte order and conversion of datatypes; a value
  is whole or not, that is all.  The byte layout of ADDP answers.
- What libmodbus does when two threads use one context without a lock.
- The read callback's copying, node attributes, and the server's sessions.
- The failure of `ipv6ToGuidChecked` (`opcua_server.c:721`): an allocated address
  is always written as eight full groups, which it takes.
- In `ControllerLifecycle`, a deletion refused at exit, which is `CleanExit`'s
  subject in `Ipv6Manager`.
- Running out of memory in the address manager (it is in the read plan, the
  device table and, for startup, the lifecycle).
- Of the Linux port: clients' writes, the registers of its fixed reads, its
  datagrams (the parsing and answering of `Discovery`), its table parser, and
  its log, which is rotated without a mutex, so that what happens is undefined.
- Timing: how long the poller waits, and that it does not wait after a failed
  read; no module has a clock but `LogManager`.
- Tables the shipped one is not an instance of: an offset above 65535, which no
  request can carry (`opcua_server.c:415`), a status row of a one-byte type
  (`:2607`), a merged block over registers the slave has not got (`:445`; to
  `DevicePolling` it is a slave that does not answer everything), and, in the
  Linux parser, a name without a dot and an underscore (`csv_parser.c:82`).
- Memory that startup failures leave allocated (`opcua_server.c:1146`), and node
  ids compared by callbacks while the poller changes them (`:1982`): a torn
  comparison can only miss the variable, which `VariableWrite` has as a rejected
  write.
- The sources nothing calls, and the vendored libraries.

The map covers a small share of the repository's lines because four fifths of
them are two copies of the open62541 amalgamation (51,323 lines each) and most
of the rest copies of cJSON and generated headers: about 10,000 lines are the
program's own.

## 7. Plan

Done: `Ipv6Manager`, `DevicePolling`, `VariableWrite`, `ReadPlan`, `DeviceTable`,
`ControllerLifecycle`, `LogManager`, `Discovery` and `LinuxController`, each with
its proofs, and the abstract `AddressDispenser` and `DevicePresence`.  Left, most useful first:

1. `DevicePolling` composed with `Ipv6Manager`'s own steps in place of its
   abstraction of them.
2. The Linux port's client writes and log.
