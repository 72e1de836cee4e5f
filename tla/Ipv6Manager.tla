----------------------------- MODULE Ipv6Manager -----------------------------
(***************************************************************************)
(* The address pool of src/ipv6_manager.c and the network interface it     *)
(* configures.  The threads of the controller call the manager             *)
(* concurrently; each call takes g_ipv6_pool.lock, the option lock and the *)
(* map lock one after the other and talks to the interface between them,   *)
(* so a call is a sequence of steps here, one per critical section or      *)
(* system call.  The process may be killed between any two of them; what   *)
(* is on the interface survives.                                           *)
(*                                                                         *)
(* An address is a natural number; text forms (padded in allocated_addrs,  *)
(* canonical in interface_addrs) are identified with the number they       *)
(* denote, which is how every comparison that matters uses them.  Running  *)
(* out of memory is not modelled.                                          *)
(***************************************************************************)
EXTENDS Integers, FiniteSets

CONSTANTS
    Threads,        \* threads that call the manager
    Owners,         \* device and variable names
    AllocatesFor,   \* the owners each thread asks an address for
    ChecksFirst,    \* threads that consult ipv6_get_device_address first
    Start, End,     \* start_address and end_address of the pool
    TopAddr,        \* the last address there is
    BatchLimit,     \* batch_add_limit; 0 also stands for a delay of 0 ms
    None

Addrs == 0..TopAddr
InPool(a) == Start <= a /\ a <= End
Pool == {a \in Addrs : InPool(a)}
PoolSize == IF Start <= End THEN End - Start + 1 ELSE 0

ASSUME PoolAssumption ==
    /\ TopAddr \in Nat
    /\ Start \in Addrs
    /\ End \in Addrs
    /\ End < TopAddr        \* incrementing past the end never wraps to zero
ASSUME CallerAssumption ==
    /\ AllocatesFor \in [Threads -> SUBSET Owners]
    /\ ChecksFirst \subseteq Threads
    /\ None \notin Owners
    /\ None \notin Addrs
ASSUME BatchAssumption == BatchLimit \in Nat

VARIABLES
    phase,           \* what the process as a whole is doing
    counter,         \* next_addr_counter
    allocated,       \* allocated_addrs
    interfaceAddrs,  \* interface_addrs: what this run added to the interface
    deviceMap,       \* g_device_ipv6_map
    added,           \* added_since_last_delay
    delayPending,    \* delay_pending
    nic,             \* the unicast addresses configured on the interface
    call,            \* the call each thread is in the middle of
    grants,          \* the addresses the callers' buffers hold, and whose
    toRemove,        \* cleanup_addrs of the exit cleanup
    \* history
    burst,           \* additions noted since a delay was last taken
    residue,         \* pool addresses already on the interface at boot
    undeleted,       \* addresses the exit cleanup failed to delete
    lastExit         \* how the previous process ended

poolVars    == <<counter, allocated, interfaceAddrs>>
batchVars   == <<added, delayPending, burst>>
cleanupVars == <<toRemove, residue, undeleted, lastExit>>
vars == <<phase, counter, allocated, interfaceAddrs, deviceMap, added,
          delayPending, nic, call, grants, toRemove, burst, residue,
          undeleted, lastExit>>

Steps == {"idle", "generate", "create", "remember", "note", "map",
          "rollback", "delete", "forget", "unallocate", "unmap"}
Ops == {"none", "allocate", "ensure", "remove", "release"}
Call == [op : Ops, at : Steps, owner : Owners \cup {None},
         addr : Addrs \cup {None}]
Grant == [thread : Threads, owner : Owners, addr : Addrs]

NoCall == [op |-> "none", at |-> "idle", owner |-> None, addr |-> None]
GrantOf(t) == [thread |-> t, owner |-> call[t].owner, addr |-> call[t].addr]

TypeOK ==
    /\ phase \in {"running", "scan", "removing", "stopped"}
    /\ counter \in 0..PoolSize
    /\ allocated \subseteq Pool
    /\ interfaceAddrs \subseteq Pool
    /\ deviceMap \in [Owners -> Pool \cup {None}]
    /\ added \in Nat /\ (added = 0 \/ added < BatchLimit)
    /\ delayPending \in BOOLEAN
    /\ nic \subseteq Addrs
    /\ call \in [Threads -> Call]
    /\ grants \subseteq Grant
    /\ toRemove \subseteq Pool
    /\ burst \in Nat
    /\ residue \subseteq Pool
    /\ undeleted \subseteq Pool
    /\ lastExit \in {"none", "crash", "scanned", "unscanned"}

-----------------------------------------------------------------------------
(* Before its first run: whatever is on the interface was put there by     *)
(* others or by an earlier process that was killed.                        *)
Init ==
    /\ phase = "stopped"
    /\ counter = 0 /\ allocated = {} /\ interfaceAddrs = {}
    /\ deviceMap = [o \in Owners |-> None]
    /\ added = 0 /\ delayPending = FALSE /\ burst = 0
    /\ nic \in SUBSET Addrs
    /\ call = [t \in Threads |-> NoCall]
    /\ grants = {} /\ toRemove = {}
    /\ residue = {} /\ undeleted = {}
    /\ lastExit = "none"

(* The process ends, one way or the other: its memory is gone, and the     *)
(* next ipv6_manager_init starts with empty lists and a zero counter.      *)
EndProcess ==
    /\ phase' = "stopped"
    /\ counter' = 0 /\ allocated' = {} /\ interfaceAddrs' = {}
    /\ deviceMap' = [o \in Owners |-> None]
    /\ added' = 0 /\ delayPending' = FALSE /\ burst' = 0
    /\ call' = [t \in Threads |-> NoCall]
    /\ grants' = {} /\ toRemove' = {}

Boot ==
    /\ phase = "stopped"
    /\ phase' = "running"
    /\ residue' = nic \cap Pool
    /\ undeleted' = {}
    /\ lastExit' = "none"
    /\ UNCHANGED <<poolVars, deviceMap, batchVars, nic, call, grants, toRemove>>

(* The process is killed: only the interface keeps its state.              *)
Crash ==
    /\ phase # "stopped"
    /\ EndProcess
    /\ lastExit' = "crash"
    /\ UNCHANGED <<nic, residue, undeleted>>

-----------------------------------------------------------------------------
(* Calls.  At(t, s): thread t is inside a call, about to do step s.        *)
At(t, s) == phase = "running" /\ call[t].at = s
Goto(t, s) == call' = [call EXCEPT ![t].at = s]
Return(t) == call' = [call EXCEPT ![t] = NoCall]

(* The index at which generate_ipv6_address stops: the first one from the  *)
(* counter on that is past the end of the pool or not allocated.           *)
AddrAt(c) == Start + c
Stops(c) == AddrAt(c) > End \/ AddrAt(c) \notin allocated
FirstFreeFromStart(k) ==      \* mutant: rescans the pool from its start
    CHOOSE c \in 0..PoolSize :
        Stops(c) /\ \A d \in 0..PoolSize : d < c => ~Stops(d)

FirstFreeFrom(k) ==
    CHOOSE c \in k..PoolSize :
        Stops(c) /\ \A d \in k..PoolSize : d < c => ~Stops(d)

(* A caller asks for an address for an owner it has none for yet;          *)
(* createSpsspsDevice looks the owner up in the map first, main_loop does  *)
(* not.  The lookup and the allocation are not one critical section.       *)
Allocate(t, o) ==
    /\ At(t, "idle")
    /\ o \in AllocatesFor[t]
    /\ \A g \in grants : ~(g.thread = t /\ g.owner = o)
    /\ t \in ChecksFirst => deviceMap[o] = None
    /\ call' = [call EXCEPT ![t] = [op |-> "allocate", at |-> "generate",
                                    owner |-> o, addr |-> None]]
    /\ UNCHANGED <<phase, poolVars, deviceMap, batchVars, nic, grants,
                   cleanupVars>>

(* generate_ipv6_address under the pool lock. *)
GenerateExhausted(t) ==
    /\ At(t, "generate")
    /\ LET c == FirstFreeFrom(counter) IN
        /\ AddrAt(c) > End
        /\ counter' = c
    /\ Return(t)
    /\ UNCHANGED <<phase, allocated, interfaceAddrs, deviceMap, batchVars,
                   nic, grants, cleanupVars>>

GenerateKeepsCounter(t) ==    \* mutant: relies on allocated_addrs alone
    /\ At(t, "generate")
    /\ LET c == FirstFreeFrom(counter)
           a == AddrAt(c) IN
        /\ a <= End
        /\ counter' = c
        /\ allocated' = allocated \cup {a}
        /\ grants' = grants \cup
             {[thread |-> t, owner |-> call[t].owner, addr |-> a]}
        /\ call' = [call EXCEPT ![t].at = "create", ![t].addr = a]
    /\ UNCHANGED <<phase, interfaceAddrs, deviceMap, batchVars, nic,
                   cleanupVars>>

Generate(t) ==
    /\ At(t, "generate")
    /\ LET c == FirstFreeFrom(counter)
           a == AddrAt(c) IN
        /\ a <= End
        /\ counter' = c + 1
        /\ allocated' = allocated \cup {a}
        /\ grants' = grants \cup
             {[thread |-> t, owner |-> call[t].owner, addr |-> a]}
        /\ call' = [call EXCEPT ![t].at = "create", ![t].addr = a]
    /\ UNCHANGED <<phase, interfaceAddrs, deviceMap, batchVars, nic,
                   cleanupVars>>

-----------------------------------------------------------------------------
(* ipv6_add_address_to_interface.  CreateUnicastIpAddressEntry creates the *)
(* entry, finds it present, or fails.  An address that was present is not  *)
(* remembered as added by this program.                                    *)
CreateEntry(t) ==
    /\ At(t, "create")
    /\ call[t].addr \notin nic
    /\ nic' = nic \cup {call[t].addr}
    /\ Goto(t, "remember")
    /\ UNCHANGED <<phase, poolVars, deviceMap, batchVars, grants, cleanupVars>>

EntryExists(t) ==
    /\ At(t, "create")
    /\ call[t].addr \in nic
    /\ IF call[t].op = "allocate" THEN Goto(t, "map") ELSE Return(t)
    /\ UNCHANGED <<phase, poolVars, deviceMap, batchVars, nic, grants,
                   cleanupVars>>

(* ipv6_allocate_address takes the address back; the callers of an ensure  *)
(* go on as if it had succeeded.                                           *)
CreateFails(t) ==
    /\ At(t, "create")
    /\ IF call[t].op = "allocate" THEN Goto(t, "rollback") ELSE Return(t)
    /\ UNCHANGED <<phase, poolVars, deviceMap, batchVars, nic, grants,
                   cleanupVars>>

Remember(t) ==
    /\ At(t, "remember")
    /\ interfaceAddrs' = interfaceAddrs \cup {call[t].addr}
    /\ Goto(t, "note")
    /\ UNCHANGED <<phase, counter, allocated, deviceMap, batchVars, nic,
                   grants, cleanupVars>>

(* ipv6_manager_note_address_added under the option lock.                  *)
CountAdditionLate ==          \* mutant: compares before counting
    IF BatchLimit = 0 THEN UNCHANGED <<added, delayPending>>
    ELSE IF added >= BatchLimit
         THEN added' = 0 /\ delayPending' = TRUE
         ELSE added' = added + 1 /\ UNCHANGED delayPending

CountAddition ==
    IF BatchLimit = 0 THEN UNCHANGED <<added, delayPending>>
    ELSE IF added + 1 >= BatchLimit
         THEN added' = 0 /\ delayPending' = TRUE
         ELSE added' = added + 1 /\ UNCHANGED delayPending

NoteAdded(t) ==
    /\ At(t, "note")
    /\ CountAddition
    /\ burst' = IF burst < BatchLimit THEN burst + 1 ELSE burst
    /\ IF call[t].op = "allocate" THEN Goto(t, "map") ELSE Return(t)
    /\ UNCHANGED <<phase, poolVars, deviceMap, nic, grants, cleanupVars>>

(* add_device_ipv6_mapping overwrites an earlier mapping of the owner.     *)
MapOwner(t) ==
    /\ At(t, "map")
    /\ deviceMap' = [deviceMap EXCEPT ![call[t].owner] = call[t].addr]
    /\ Return(t)
    /\ UNCHANGED <<phase, poolVars, batchVars, nic, grants, cleanupVars>>

(* The failed allocation leaves its address in the caller's buffer; some   *)
(* callers clear the buffer, the poller keeps it for the device.           *)
Rollback(t) ==
    /\ At(t, "rollback")
    /\ allocated' = allocated \ {call[t].addr}
    /\ grants' \in {grants, grants \ {GrantOf(t)}}
    /\ Return(t)
    /\ UNCHANGED <<phase, counter, interfaceAddrs, deviceMap, batchVars, nic,
                   cleanupVars>>

-----------------------------------------------------------------------------
(* A caller puts an address it holds back on the interface, takes it off,  *)
(* or releases it for good.                                                *)
Reuse(t, op, step) ==
    /\ At(t, "idle")
    /\ \E g \in grants :
         /\ g.thread = t
         /\ call' = [call EXCEPT ![t] = [op |-> op, at |-> step,
                                         owner |-> g.owner, addr |-> g.addr]]
    /\ UNCHANGED <<phase, poolVars, deviceMap, batchVars, nic, grants,
                   cleanupVars>>

Ensure(t)  == Reuse(t, "ensure", "create")
Remove(t)  == Reuse(t, "remove", "delete")
Release(t) == Reuse(t, "release", "delete")

(* DeleteUnicastIpAddressEntry: done, or the entry was not there.          *)
DeleteEntry(t) ==
    /\ At(t, "delete")
    /\ nic' = nic \ {call[t].addr}
    /\ Goto(t, "forget")
    /\ UNCHANGED <<phase, poolVars, deviceMap, batchVars, grants, cleanupVars>>

DeleteFailsForgets(t) ==      \* mutant: forgets the address all the same
    /\ At(t, "delete")
    /\ call[t].addr \in nic
    /\ Goto(t, "forget")
    /\ UNCHANGED <<phase, poolVars, deviceMap, batchVars, nic, grants,
                   cleanupVars>>

DeleteFails(t) ==
    /\ At(t, "delete")
    /\ call[t].addr \in nic
    /\ Return(t)
    /\ UNCHANGED <<phase, poolVars, deviceMap, batchVars, nic, grants,
                   cleanupVars>>

Forget(t) ==
    /\ At(t, "forget")
    /\ interfaceAddrs' = interfaceAddrs \ {call[t].addr}
    /\ IF call[t].op = "release" THEN Goto(t, "unallocate") ELSE Return(t)
    /\ UNCHANGED <<phase, counter, allocated, deviceMap, batchVars, nic,
                   grants, cleanupVars>>

UnallocateOnly(t) ==          \* mutant: leaves the mapping behind
    /\ At(t, "unallocate")
    /\ allocated' = allocated \ {call[t].addr}
    /\ Return(t)
    /\ UNCHANGED <<phase, counter, interfaceAddrs, deviceMap, batchVars, nic,
                   grants, cleanupVars>>

Unallocate(t) ==
    /\ At(t, "unallocate")
    /\ allocated' = allocated \ {call[t].addr}
    /\ Goto(t, "unmap")
    /\ UNCHANGED <<phase, counter, interfaceAddrs, deviceMap, batchVars, nic,
                   grants, cleanupVars>>

(* remove_device_ipv6_mapping; the caller no longer uses the address.      *)
Unmap(t) ==
    /\ At(t, "unmap")
    /\ deviceMap' = [deviceMap EXCEPT ![call[t].owner] = None]
    /\ grants' = grants \ {GrantOf(t)}
    /\ Return(t)
    /\ UNCHANGED <<phase, poolVars, batchVars, nic, cleanupVars>>

-----------------------------------------------------------------------------
(* ipv6_manager_delay_before_next_device_if_needed. *)
TakeDelay(t) ==
    /\ At(t, "idle")
    /\ delayPending
    /\ delayPending' = FALSE
    /\ burst' = 0
    /\ UNCHANGED <<phase, poolVars, deviceMap, added, nic, call, grants,
                   cleanupVars>>

(* loadConfig of the OPC UA thread sets the options a second time.         *)
SetAddOptions(t) ==
    /\ At(t, "idle")
    /\ added' = 0
    /\ delayPending' = FALSE
    /\ burst' = 0
    /\ UNCHANGED <<phase, poolVars, deviceMap, nic, call, grants, cleanupVars>>

-----------------------------------------------------------------------------
(* ipv6_remove_all_allocated_addresses, then ipv6_manager_cleanup, by main *)
(* once the other threads have been joined.                                *)
SnapshotLists ==
    /\ phase = "running"
    /\ \A t \in Threads : call[t].at = "idle"
    /\ phase' = "scan"
    /\ toRemove' = interfaceAddrs \cup allocated
    /\ UNCHANGED <<poolVars, deviceMap, batchVars, nic, call, grants, residue,
                   undeleted, lastExit>>

ScanIgnoresRange ==           \* mutant: takes every address it finds
    /\ phase = "scan"
    /\ phase' = "removing"
    /\ toRemove' = toRemove \cup nic
    /\ lastExit' = "scanned"
    /\ UNCHANGED <<poolVars, deviceMap, batchVars, nic, call, grants, residue,
                   undeleted>>

ScanIgnoresResidue ==         \* mutant: takes only what this run allocated
    /\ phase = "scan"
    /\ phase' = "removing"
    /\ toRemove' = toRemove
    /\ lastExit' = "scanned"
    /\ UNCHANGED <<poolVars, deviceMap, batchVars, nic, call, grants, residue,
                   undeleted>>

ScanInterface ==
    /\ phase = "scan"
    /\ phase' = "removing"
    /\ toRemove' = toRemove \cup {a \in nic : InPool(a)}
    /\ lastExit' = "scanned"
    /\ UNCHANGED <<poolVars, deviceMap, batchVars, nic, call, grants, residue,
                   undeleted>>

(* refresh_ipv6_interface_cache_locked fails: the lists alone are removed. *)
ScanFails ==
    /\ phase = "scan"
    /\ phase' = "removing"
    /\ lastExit' = "unscanned"
    /\ UNCHANGED <<poolVars, deviceMap, batchVars, nic, call, grants, toRemove,
                   residue, undeleted>>

RemoveOne(a) ==
    /\ phase = "removing"
    /\ a \in toRemove
    /\ nic' = nic \ {a}
    /\ interfaceAddrs' = interfaceAddrs \ {a}
    /\ toRemove' = toRemove \ {a}
    /\ UNCHANGED <<phase, counter, allocated, deviceMap, batchVars, call,
                   grants, residue, undeleted, lastExit>>

RemoveOneFails(a) ==
    /\ phase = "removing"
    /\ a \in toRemove \cap nic
    /\ toRemove' = toRemove \ {a}
    /\ undeleted' = undeleted \cup {a}
    /\ UNCHANGED <<phase, poolVars, deviceMap, batchVars, nic, call, grants,
                   residue, lastExit>>

FinishCleanup ==
    /\ phase = "removing"
    /\ toRemove = {}
    /\ EndProcess
    /\ UNCHANGED <<nic, residue, undeleted, lastExit>>

-----------------------------------------------------------------------------
AllocateStep(t) ==
    \/ \E o \in Owners : Allocate(t, o)
    \/ GenerateExhausted(t) \/ Generate(t)
    \/ CreateEntry(t) \/ EntryExists(t) \/ CreateFails(t)
    \/ Remember(t) \/ NoteAdded(t) \/ MapOwner(t) \/ Rollback(t)

ReuseStep(t) ==
    \/ Ensure(t) \/ Remove(t) \/ Release(t)
    \/ DeleteEntry(t) \/ DeleteFails(t)
    \/ Forget(t) \/ Unallocate(t) \/ Unmap(t)

BatchStep(t) == TakeDelay(t) \/ SetAddOptions(t)

CleanupStep ==
    \/ SnapshotLists \/ ScanInterface \/ ScanFails
    \/ \E a \in Addrs : RemoveOne(a) \/ RemoveOneFails(a)
    \/ FinishCleanup

Next ==
    \/ Boot
    \/ Crash
    \/ \E t \in Threads : AllocateStep(t) \/ ReuseStep(t) \/ BatchStep(t)
    \/ CleanupStep

Spec == Init /\ [][Next]_vars

-----------------------------------------------------------------------------
(* No address is ever in the hands of two callers, not even one whose      *)
(* allocation failed and whose caller kept the text: the counter of        *)
(* generate_ipv6_address is never moved back within a run.                 *)
GrantsUnique == \A g, h \in grants : g.addr = h.addr => g = h

(* A name in the device map leads to an allocated address, except between  *)
(* the two critical sections of a release.                                 *)
MapBacked ==
    \A o \in Owners :
        \/ deviceMap[o] = None
        \/ deviceMap[o] \in allocated
        \/ phase # "running"
        \/ \E t \in Threads : call[t].at = "unmap" /\ call[t].owner = o

(* What this run put on the interface it remembers, so that the exit       *)
(* cleanup finds it even when the interface cannot be scanned.             *)
NicTracked ==
    phase = "running" =>
        \A a \in nic \cap Pool :
            \/ a \in residue
            \/ a \in interfaceAddrs
            \/ \E t \in Threads : call[t].at = "remember" /\ call[t].addr = a

(* After a regular exit the interface carries no pool address but those    *)
(* whose deletion the system refused, nor, when the scan failed, those an  *)
(* earlier process had left: what a killed process leaves is collected by  *)
(* the next regular exit.                                                  *)
CleanExit ==
    phase = "stopped" =>
        /\ lastExit = "scanned" => nic \cap Pool \subseteq undeleted
        /\ lastExit = "unscanned" => nic \cap Pool \subseteq undeleted \cup residue

(* Whatever happens, the addresses outside the pool stay as they are.      *)
ForeignUntouched == [][nic \ Pool = nic' \ Pool]_vars

(* batch_add_limit additions in a row are never left without a delay being *)
(* due before the next device, across the threads that add.                *)
BatchPaced == BatchLimit > 0 /\ burst >= BatchLimit => delayPending

(* The manager implements the dispenser.                                   *)
Dispenser == INSTANCE AddressDispenser WITH
    Holders <- Threads \X Owners,
    used    <- {AddrAt(c) : c \in 0..(counter - 1)},
    given   <- {[addr |-> g.addr, holder |-> <<g.thread, g.owner>>] : g \in grants}
Dispenses == Dispenser!DispenserSpec

-----------------------------------------------------------------------------
(* What the design document says of it. *)

(* "提供唯一的IPv6地址": one owner, one address. *)
OneAddressPerOwner ==
    \A g, h \in grants : g.owner = h.owner => g = h
=============================================================================
