---------------------------- MODULE VariableWrite ----------------------------
(***************************************************************************)
(* One writable variable of src/opcua_server.c between three parties that  *)
(* change it: the slave's own program, OPC UA clients through              *)
(* writeVariableCallback, and the polling thread, which copies what it     *)
(* reads over the cached value and, when it recreates the variable's node, *)
(* writes the cached value to it and so calls the callback as well.        *)
(* Callbacks exclude one another by var_update_mutex; the poller's copying *)
(* and the flag is_modbus_updating are not under any lock.                 *)
(*                                                                         *)
(* The value occupies Width registers, two for a REAL, which is written    *)
(* register by register; of a register's contents only which value it is   *)
(* part of is kept, so that a value is whole when its registers agree. A   *)
(* write can be reported failed whether or not the slave performed it.     *)
(* A failed read changes nothing here and is left out: the slave is one    *)
(* that answers.                                                           *)
(***************************************************************************)
EXTENDS Integers

CONSTANTS
    Width,      \* registers of the variable
    Value,      \* the values the slave's program and the clients write
    Client,     \* the OPC UA server's thread, serving clients
    Poller,     \* the polling thread
    None        \* no value

Free == "free"
Threads == {Client, Poller}
ASSUME WidthAssumption == Width \in Nat \ {0}
ASSUME ThreadAssumption == Client # Poller /\ Free \notin Threads

Places == 1..Width
Words == [Places -> Value]
Whole(v) == [i \in Places |-> v]
IsWhole(w) == \E v \in Value : w = Whole(v)
ASSUME NoneAssumption == None \notin Words

VARIABLES
    regs,       \* the registers, at the slave
    cached,     \* the variable's value in the gateway
    buf,        \* what a block read has returned and is not stored yet
    exists,     \* the variable has a node
    updating,   \* is_modbus_updating
    mutex,      \* var_update_mutex
    pc,         \* where each thread is
    want,       \* the value its callback is to write
    place,      \* the register its callback is at
    reply,      \* the status the client's last write was answered with
    \* history
    moved,      \* the slave changed the value since the last write to it began
    broken,     \* that write failed, the slave came between its registers,
                \* or the poller wrote a value it had read half-written
    reached     \* the client's last write has been at the slave

callVars == <<want, place, reply, reached>>
slaveHistory == <<moved, broken>>
vars == <<regs, cached, buf, exists, updating, mutex, pc, want, place, reply,
          moved, broken, reached>>

CallSteps == {"check", "lock", "find", "word", "cache"}
PollSteps == {"read", "store", "update", "push", "manage"}

TypeOK ==
    /\ regs \in Words /\ cached \in Words /\ buf \in Words \cup {None}
    /\ exists \in BOOLEAN /\ updating \in BOOLEAN
    /\ mutex \in Threads \cup {Free}
    /\ pc \in [Threads -> CallSteps \cup PollSteps \cup {"idle"}]
    /\ want \in [Threads -> Words \cup {None}]
    /\ place \in [Threads -> 0..Width]
    /\ reply \in {"none", "good", "bad"}
    /\ moved \in BOOLEAN /\ broken \in BOOLEAN /\ reached \in BOOLEAN

Init ==
    /\ regs \in {Whole(v) : v \in Value}
    /\ cached \in {Whole(v) : v \in Value}
    /\ buf = None
    /\ exists = FALSE /\ updating = FALSE /\ mutex = Free
    /\ pc = [t \in Threads |-> IF t = Poller THEN "read" ELSE "idle"]
    /\ want = [t \in Threads |-> None]
    /\ place = [t \in Threads |-> 0]
    /\ reply = "none"
    /\ moved = FALSE /\ broken = FALSE /\ reached = FALSE

(* The slave's program changes the value. *)
SlaveChanges(v) ==
    /\ regs' = Whole(v)
    /\ regs' # regs
    /\ moved' = TRUE
    /\ broken' = \E t \in Threads : place[t] > 1
    /\ UNCHANGED <<cached, buf, exists, updating, mutex, pc, callVars>>

-----------------------------------------------------------------------------
(* The polling thread. *)
Poll(from, to) == pc[Poller] = from /\ pc' = [pc EXCEPT ![Poller] = to]

PollRead ==
    /\ Poll("read", "store")
    /\ buf' = regs
    /\ UNCHANGED <<regs, cached, exists, updating, mutex, callVars, slaveHistory>>

PollStoreUnread ==            \* mutant: stores once a node exists
    /\ Poll("store", "update")
    /\ cached' = IF exists THEN cached ELSE buf
    /\ buf' = None
    /\ UNCHANGED <<regs, exists, updating, mutex, callVars, slaveHistory>>

(* update_variable_from_registers, without the mutex. *)
PollStore ==
    /\ Poll("store", "update")
    /\ cached' = buf
    /\ buf' = None
    /\ UNCHANGED <<regs, exists, updating, mutex, callVars, slaveHistory>>

(* updateOPCUAVariables: the callbacks it causes return at once. *)
BeginUpdate ==
    /\ Poll("update", "push")
    /\ updating' = TRUE
    /\ UNCHANGED <<regs, cached, buf, exists, mutex, callVars, slaveHistory>>

EndUpdate ==
    /\ Poll("push", "manage")
    /\ updating' = FALSE
    /\ UNCHANGED <<regs, cached, buf, exists, mutex, callVars, slaveHistory>>

KeepNode ==
    /\ Poll("manage", "read")
    /\ UNCHANGED <<regs, cached, buf, exists, updating, mutex, callVars,
                   slaveHistory>>

DeleteNode ==
    /\ Poll("manage", "read")
    /\ exists
    /\ exists' = FALSE
    /\ UNCHANGED <<regs, cached, buf, updating, mutex, callVars, slaveHistory>>

(* addDeviceNodes, up to writeCachedValueToNode. *)
CreateNode ==
    /\ Poll("manage", "check")
    /\ ~exists
    /\ exists' = TRUE
    /\ UNCHANGED <<regs, cached, buf, updating, mutex, callVars, slaveHistory>>

-----------------------------------------------------------------------------
(* writeVariableCallback, run by the server's thread for a client and by   *)
(* the polling thread for the cached value of a node just created, which   *)
(* does not look at the status.                                            *)
Go(t, from, to) == pc[t] = from /\ pc' = [pc EXCEPT ![t] = to]
After(t) == IF t = Poller THEN "read" ELSE "idle"

Answer(t, status) ==
    /\ want' = [want EXCEPT ![t] = None]
    /\ place' = [place EXCEPT ![t] = 0]
    /\ reply' = IF t = Client THEN status ELSE reply

ClientWrites(v) ==
    /\ Go(Client, "idle", "check")
    /\ exists
    /\ want' = [want EXCEPT ![Client] = Whole(v)]
    /\ reply' = "none"
    /\ reached' = FALSE
    /\ UNCHANGED <<regs, cached, buf, exists, updating, mutex, place, slaveHistory>>

(* While the poller updates, the callback reports success and does nothing. *)
SkipWrite(t) ==
    /\ Go(t, "check", After(t))
    /\ updating
    /\ Answer(t, "good")
    /\ UNCHANGED <<regs, cached, buf, exists, updating, mutex, reached,
                   slaveHistory>>

EnterCallback(t) ==
    /\ Go(t, "check", "lock")
    /\ ~updating
    /\ UNCHANGED <<regs, cached, buf, exists, updating, mutex, callVars,
                   slaveHistory>>

LockNot(t) ==                 \* mutant: goes on whether or not it has the mutex
    /\ Go(t, "lock", "find")
    /\ mutex' = t
    /\ UNCHANGED <<regs, cached, buf, exists, updating, callVars, slaveHistory>>

Lock(t) ==
    /\ Go(t, "lock", "find")
    /\ mutex = Free
    /\ mutex' = t
    /\ UNCHANGED <<regs, cached, buf, exists, updating, callVars, slaveHistory>>

(* The variable is looked up by its node; the value written for the poller *)
(* is the cached one, read only now, through the variant's pointer.        *)
Find(t) ==
    /\ Go(t, "find", "word")
    /\ exists
    /\ place' = [place EXCEPT ![t] = 1]
    /\ want' = IF t = Poller THEN [want EXCEPT ![t] = cached] ELSE want
    /\ moved' = FALSE
    /\ UNCHANGED <<regs, cached, buf, exists, updating, mutex, reply, reached,
                   broken>>

Fail(t) ==
    /\ mutex' = Free
    /\ Answer(t, "bad")
    /\ UNCHANGED <<cached, buf, exists, updating, reached>>

(* The node is gone, or the value's type is not one the callback writes.   *)
Reject(t) ==
    /\ Go(t, "find", After(t))
    /\ Fail(t)
    /\ UNCHANGED <<regs, slaveHistory>>

Put(t) == [regs EXCEPT ![place[t]] = want[t][place[t]]]

WriteWord(t) ==
    /\ Go(t, "word", "word")
    /\ place[t] < Width
    /\ regs' = Put(t)
    /\ place' = [place EXCEPT ![t] = @ + 1]
    /\ broken' = (~IsWhole(want[t]) \/ (place[t] > 1 /\ broken))
    /\ UNCHANGED <<cached, buf, exists, updating, mutex, want, reply, moved,
                   reached>>

WriteLastWord(t) ==
    /\ Go(t, "word", "cache")
    /\ place[t] = Width
    /\ regs' = Put(t)
    /\ place' = [place EXCEPT ![t] = 0]
    /\ reached' = (t = Client \/ reached)
    /\ UNCHANGED <<cached, buf, exists, updating, mutex, want, reply, moved,
                   broken>>

WriteFailsLocked(t) ==        \* mutant: returns without unlocking
    /\ Go(t, "word", After(t))
    /\ regs' \in {regs, Put(t)}
    /\ broken' = TRUE
    /\ Answer(t, "bad")
    /\ UNCHANGED <<cached, buf, exists, updating, mutex, reached, moved>>

WriteFails(t) ==
    /\ Go(t, "word", After(t))
    /\ regs' \in {regs, Put(t)}
    /\ broken' = TRUE
    /\ Fail(t)
    /\ UNCHANGED moved

CacheValue(t) ==
    /\ Go(t, "cache", After(t))
    /\ cached' = want[t]
    /\ mutex' = Free
    /\ Answer(t, "good")
    /\ UNCHANGED <<regs, buf, exists, updating, reached, slaveHistory>>

-----------------------------------------------------------------------------
Callback(t) ==
    \/ SkipWrite(t) \/ EnterCallback(t) \/ Lock(t) \/ Find(t) \/ Reject(t)
    \/ WriteWord(t) \/ WriteLastWord(t) \/ WriteFails(t) \/ CacheValue(t)

PollStep ==
    \/ PollRead \/ PollStore \/ BeginUpdate \/ EndUpdate
    \/ KeepNode \/ DeleteNode \/ CreateNode

Next ==
    \/ \E v \in Value : SlaveChanges(v) \/ ClientWrites(v)
    \/ \E t \in Threads : Callback(t)
    \/ PollStep

(* Both threads run, and neither is passed over for ever at the mutex.     *)
Fairness ==
    /\ WF_vars(PollStep)
    /\ \A t \in Threads : WF_vars(Callback(t)) /\ SF_vars(Lock(t))

Spec == Init /\ [][Next]_vars /\ Fairness

-----------------------------------------------------------------------------
(* The registers of the variable belong together, except while a callback  *)
(* is between them, after a write that failed half-way or met the slave's  *)
(* own, and after the poller has written back what it read half-written.   *)
WordsTogether ==
    IsWhole(regs) \/ broken \/ \E t \in Threads : place[t] > 1

(* A callback about to report success has its value at the slave, unless   *)
(* the slave itself has moved on.                                          *)
SuccessIsStored == \A t \in Threads : pc[t] = "cache" => regs = want[t] \/ moved

(* When the registers have come to rest, what the clients read is what     *)
(* they hold, whatever races left in the cache before.                     *)
CacheCatchesUp == <>[][FALSE]_regs => <>[](cached = regs)

(* Every write of a client is answered. *)
WritesAnswered == pc[Client] # "idle" ~> pc[Client] = "idle"

-----------------------------------------------------------------------------
(* "用于区分Modbus更新和外部OPC UA客户端更新": the flag tells the poller's  *)
(* writes from the clients', so that a client's write reported successful  *)
(* has been made.                                                          *)
ClientWriteReaches == reply = "good" => reached
=============================================================================
