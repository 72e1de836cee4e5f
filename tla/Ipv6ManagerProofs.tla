-------------------------- MODULE Ipv6ManagerProofs --------------------------
(***************************************************************************)
(* Proofs about Ipv6Manager, for every pool, every set of threads and      *)
(* owners and every batch limit.                                           *)
(***************************************************************************)
EXTENDS Ipv6Manager, TLAPS

-----------------------------------------------------------------------------
(* The first layer of the inductive invariant: types, the shape of a call  *)
(* at each of its steps, and the counter as a strict bound of everything   *)
(* handed out so far.                                                      *)
Shaped(k) ==
    /\ k.at = "idle" => k = NoCall
    /\ k.at # "idle" => k.owner \in Owners
    /\ k.at \notin {"idle", "generate"} => k.addr \in Pool
    /\ k.at \in {"generate", "map", "rollback"} => k.op = "allocate"
    /\ k.at \in {"unallocate", "unmap"} => k.op = "release"

CallShape == \A t \in Threads : Shaped(call[t])

Below ==
    /\ \A a \in allocated : a < AddrAt(counter)
    /\ \A g \in grants : g.addr \in Pool /\ g.addr < AddrAt(counter)

TypeInv == TypeOK /\ CallShape /\ Below

-----------------------------------------------------------------------------
(* With everything allocated below the counter, generate_ipv6_address      *)
(* stops at the counter itself.                                            *)
LEMMA FirstFree ==
    ASSUME TypeInv
    PROVE  FirstFreeFrom(counter) = counter /\ AddrAt(counter) \notin allocated
<1> USE PoolAssumption
<1>1. /\ counter \in 0..PoolSize
      /\ PoolSize \in Nat
      /\ AddrAt(counter) \in Int
  BY DEF TypeInv, TypeOK, PoolSize, Addrs, AddrAt
<1>2. AddrAt(counter) \notin allocated
  BY <1>1 DEF TypeInv, Below
<1>3. Stops(counter)
  BY <1>2 DEF Stops
<1> DEFINE First(c) == Stops(c) /\ \A d \in counter..PoolSize : d < c => ~Stops(d)
<1>4. counter \in counter..PoolSize /\ First(counter)
  BY <1>1, <1>3
<1>5. ASSUME NEW c \in counter..PoolSize, First(c)
      PROVE  c = counter
  BY <1>1, <1>3, <1>5
<1>6. FirstFreeFrom(counter) = CHOOSE c \in counter..PoolSize : First(c)
  BY DEF FirstFreeFrom
<1>7. FirstFreeFrom(counter) = counter
  BY <1>4, <1>5, <1>6
<1>8. QED
  BY <1>2, <1>7

LEMMA NoCallShaped == NoCall \in Call /\ Shaped(NoCall)
BY DEF NoCall, Call, Steps, Ops, Shaped

(* A thread moves to another record of a call. *)
LEMMA SetCall ==
    ASSUME call \in [Threads -> Call], CallShape,
           NEW t \in Threads, NEW k \in Call, Shaped(k),
           call' = [call EXCEPT ![t] = k]
    PROVE  call' \in [Threads -> Call] /\ CallShape'
<1>1. call' \in [Threads -> Call]
  OBVIOUS
<1>2. ASSUME NEW u \in Threads PROVE Shaped(call[u])'
  <2>1. call'[u] = IF u = t THEN k ELSE call[u]
    OBVIOUS
  <2>2. Shaped(call[u]) /\ Shaped(k)
    BY DEF CallShape
  <2>3. Shaped(call'[u])
    BY <2>1, <2>2
  <2>4. QED
    BY <2>3 DEF Shaped
<1>3. QED
  BY <1>1, <1>2 DEF CallShape

LEMMA GotoEffect ==
    ASSUME call \in [Threads -> Call], CallShape,
           NEW t \in Threads, NEW s \in Steps \ {"idle", "generate"}, Goto(t, s),
           call[t].at \notin {"idle", "generate"},
           s \in {"map", "rollback"} => call[t].op = "allocate",
           s \in {"unallocate", "unmap"} => call[t].op = "release"
    PROVE  call' \in [Threads -> Call] /\ CallShape'
<1> DEFINE k == [call[t] EXCEPT !.at = s]
<1>1. call[t] \in Call /\ Shaped(call[t])
  BY DEF CallShape
<1>2. k \in Call
  BY <1>1 DEF Call
<1>3. Shaped(k)
  BY <1>1 DEF Call, Shaped
<1>4. call' = [call EXCEPT ![t] = k]
  BY DEF Goto
<1>5. QED
  BY <1>2, <1>3, <1>4, SetCall

LEMMA ReturnEffect ==
    ASSUME call \in [Threads -> Call], CallShape, NEW t \in Threads, Return(t)
    PROVE  call' \in [Threads -> Call] /\ CallShape'
BY SetCall, NoCallShaped DEF Return

LEMMA TypeInvInit == Init => TypeInv
<1> SUFFICES ASSUME Init PROVE TypeInv
  OBVIOUS
<1>1. call \in [Threads -> Call] /\ CallShape
  BY NoCallShaped DEF Init, CallShape
<1>2. PoolSize \in Nat
  BY PoolAssumption DEF PoolSize, Addrs
<1>3. TypeOK
  <2>1. deviceMap \in [Owners -> Pool \cup {None}]
    BY DEF Init
  <2>2. delayPending \in BOOLEAN
    BY DEF Init
  <2>3. counter \in 0..PoolSize /\ added \in Nat /\ burst \in Nat
    BY <1>2 DEF Init
  <2>4. QED
    BY <1>1, <2>1, <2>2, <2>3 DEF Init, TypeOK
<1>4. QED
  BY <1>1, <1>3 DEF Init, TypeInv, Below

(* What Generate does, with the search resolved. *)
LEMMA GenerateEffect ==
    ASSUME TypeInv, NEW t \in Threads, Generate(t)
    PROVE  /\ AddrAt(counter) \in Pool
           /\ counter' = counter + 1
           /\ counter + 1 \in 0..PoolSize
           /\ AddrAt(counter') = AddrAt(counter) + 1
           /\ allocated' = allocated \cup {AddrAt(counter)}
           /\ grants' = grants \cup {[thread |-> t, owner |-> call[t].owner,
                                      addr |-> AddrAt(counter)]}
           /\ call' = [call EXCEPT ![t].at = "create", ![t].addr = AddrAt(counter)]
<1>1. FirstFreeFrom(counter) = counter
  BY FirstFree
<1>2. AddrAt(counter) <= End
  BY <1>1 DEF Generate
<1>3. /\ counter' = counter + 1
      /\ allocated' = allocated \cup {AddrAt(counter)}
      /\ grants' = grants \cup {[thread |-> t, owner |-> call[t].owner,
                                 addr |-> AddrAt(counter)]}
      /\ call' = [call EXCEPT ![t].at = "create", ![t].addr = AddrAt(counter)]
  BY <1>1 DEF Generate
<1>4. counter \in Nat
  BY PoolAssumption DEF TypeInv, TypeOK, PoolSize, Addrs
<1>5. QED
  BY <1>2, <1>3, <1>4, PoolAssumption DEF Pool, InPool, Addrs, AddrAt, PoolSize

LEMMA TypeInvNext == TypeInv /\ [Next]_vars => TypeInv'
<1> SUFFICES ASSUME TypeInv, [Next]_vars
             PROVE  TypeInv'
  OBVIOUS
<1> USE PoolAssumption, CallerAssumption, BatchAssumption
<1>a. "remember" \in Steps /\ "note" \in Steps /\ "map" \in Steps
      /\ "rollback" \in Steps /\ "forget" \in Steps
      /\ "unallocate" \in Steps /\ "unmap" \in Steps
  BY DEF Steps
<1>b. AddrAt(counter) \in Int /\ PoolSize \in Nat /\ Pool \subseteq Addrs
  BY DEF TypeInv, TypeOK, PoolSize, Addrs, AddrAt, Pool
<1>c. call \in [Threads -> Call] /\ CallShape
  BY DEF TypeInv, TypeOK
<1>d. \A t \in Threads : /\ call[t] \in Call
                         /\ Shaped(call[t])
                         /\ call[t].at \in Steps
  BY <1>c DEF CallShape, Call
<1>1. CASE Boot
  BY <1>1 DEF Boot, TypeInv, TypeOK, CallShape, Shaped, Below, poolVars, batchVars, AddrAt
<1>2. ASSUME EndProcess, nic' = nic, residue' = residue, undeleted' = undeleted,
             lastExit' \in {"none", "crash", "scanned", "unscanned"}
      PROVE  TypeInv'
  <2>1. (call' \in [Threads -> Call]) /\ CallShape'
    BY <1>2, NoCallShaped DEF EndProcess, CallShape, Shaped, NoCall
  <2>2. TypeOK'
    <3>1. deviceMap' \in [Owners -> Pool \cup {None}]
      BY <1>2 DEF EndProcess
    <3>2. delayPending' \in BOOLEAN
      BY <1>2 DEF EndProcess
    <3>3. counter' \in 0..PoolSize /\ added' \in Nat /\ burst' \in Nat
      BY <1>2, <1>b DEF EndProcess
    <3>4. QED
      BY <1>2, <2>1, <3>1, <3>2, <3>3 DEF EndProcess, TypeInv, TypeOK
  <2>3. QED
    BY <1>2, <2>1, <2>2 DEF EndProcess, TypeInv, Below
<1>3. CASE Crash
  BY <1>2, <1>3 DEF Crash, TypeInv, TypeOK
<1>4. ASSUME NEW t \in Threads, AllocateStep(t)
      PROVE  TypeInv'
  <2> USE DEF poolVars, batchVars, cleanupVars, AddrAt
  <2>1. ASSUME NEW o \in Owners, Allocate(t, o) PROVE TypeInv'
    <3> DEFINE k == [op |-> "allocate", at |-> "generate", owner |-> o, addr |-> None]
    <3>1. k \in Call /\ Shaped(k)
      BY DEF Call, Ops, Steps, Shaped
    <3>2. (call' \in [Threads -> Call]) /\ CallShape'
      BY <2>1, <3>1, <1>c, SetCall DEF Allocate
    <3>3. QED
      BY <2>1, <3>2 DEF Allocate, TypeInv, TypeOK, Below
  <2>2. CASE GenerateExhausted(t)
    <3>1. counter' = counter
      BY <2>2, FirstFree DEF GenerateExhausted
    <3>2. (call' \in [Threads -> Call]) /\ CallShape'
      BY <2>2, <1>c, ReturnEffect DEF GenerateExhausted
    <3>3. QED
      BY <2>2, <3>1, <3>2 DEF GenerateExhausted, TypeInv, TypeOK, Below
  <2>3. CASE Generate(t)
    <3>1. UNCHANGED <<phase, interfaceAddrs, deviceMap, batchVars, nic, cleanupVars>>
      BY <2>3 DEF Generate
    <3>2. call[t].op = "allocate" /\ call[t].owner \in Owners
      BY <2>3, <1>d DEF Generate, At, Shaped
    <3> DEFINE a == AddrAt(counter)
               k == [call[t] EXCEPT !.at = "create", !.addr = a]
    <3> HIDE DEF a
    <3>3. /\ a \in Pool
          /\ call' = [call EXCEPT ![t] = k]
          /\ allocated' = allocated \cup {a}
          /\ grants' = grants \cup {[thread |-> t, owner |-> call[t].owner, addr |-> a]}
          /\ counter' \in 0..PoolSize
          /\ AddrAt(counter)' = a + 1
          /\ a \in Int
      BY <2>3, <1>b, <1>d, GenerateEffect DEF a
    <3>4. k \in Call /\ Shaped(k)
      BY <3>2, <3>3, <1>b, <1>d DEF Call, Shaped, Steps
    <3>5. (call' \in [Threads -> Call]) /\ CallShape'
      BY <3>3, <3>4, <1>c, SetCall
    <3>6. TypeOK'
      BY <3>1, <3>2, <3>3, <3>5, <1>b DEF TypeInv, TypeOK, Grant
    <3>7. (\A b \in allocated : b \in Int /\ b < a)
          /\ (\A g \in grants : g.addr \in Pool /\ g.addr \in Int /\ g.addr < a)
      <4>1. \A b \in Pool : b \in Int
        BY <1>b DEF Addrs
      <4>2. QED
        BY <4>1 DEF TypeInv, TypeOK, Below, a
    <3>8. Below'
      <4>1. \A b \in allocated' : b < AddrAt(counter)'
        BY <3>3, <3>7
      <4>2. \A g \in grants' : g.addr \in Pool /\ g.addr < AddrAt(counter)'
        BY <3>3, <3>7
      <4>3. Pool' = Pool
        BY DEF Pool, Addrs, InPool
      <4>4. QED
        BY <4>1, <4>2, <4>3 DEF Below
    <3>9. QED
      BY <3>5, <3>6, <3>8 DEF TypeInv
  <2>4. CASE CreateEntry(t)
    <3>1. (call' \in [Threads -> Call]) /\ CallShape'
      BY <2>4, <1>a, <1>c, GotoEffect DEF CreateEntry, At
    <3>2. call[t].addr \in Addrs
      BY <2>4, <1>b, <1>d DEF CreateEntry, At, Shaped
    <3>3. QED
      BY <2>4, <3>1, <3>2 DEF CreateEntry, TypeInv, TypeOK, Below
  <2>5. CASE EntryExists(t)
    <3>1. (call' \in [Threads -> Call]) /\ CallShape'
      BY <2>5, <1>a, <1>c, GotoEffect, ReturnEffect DEF EntryExists, At
    <3>2. QED
      BY <2>5, <3>1 DEF EntryExists, TypeInv, TypeOK, Below
  <2>6. CASE CreateFails(t)
    <3>1. (call' \in [Threads -> Call]) /\ CallShape'
      BY <2>6, <1>a, <1>c, GotoEffect, ReturnEffect DEF CreateFails, At
    <3>2. QED
      BY <2>6, <3>1 DEF CreateFails, TypeInv, TypeOK, Below
  <2>7. CASE Remember(t)
    <3>1. (call' \in [Threads -> Call]) /\ CallShape'
      BY <2>7, <1>a, <1>c, GotoEffect DEF Remember, At
    <3>2. call[t].addr \in Pool
      BY <2>7, <1>d DEF Remember, At, Shaped
    <3>3. QED
      BY <2>7, <3>1, <3>2 DEF Remember, TypeInv, TypeOK, Below
  <2>8. CASE NoteAdded(t)
    <3>1. (call' \in [Threads -> Call]) /\ CallShape'
      BY <2>8, <1>a, <1>c, GotoEffect, ReturnEffect DEF NoteAdded, At
    <3>2. /\ added' \in Nat /\ (added' = 0 \/ added' < BatchLimit)
          /\ delayPending' \in BOOLEAN
          /\ burst' \in Nat
      <4>1. /\ CountAddition
            /\ burst' = IF burst < BatchLimit THEN burst + 1 ELSE burst
        BY <2>8 DEF NoteAdded
      <4>2. /\ added \in Nat /\ (added = 0 \/ added < BatchLimit)
            /\ delayPending \in BOOLEAN
            /\ burst \in Nat
        BY DEF TypeInv, TypeOK
      <4>3. burst' \in Nat
        BY <4>1, <4>2
      <4>4. added' \in Nat /\ (added' = 0 \/ added' < BatchLimit)
        BY <4>1, <4>2 DEF CountAddition
      <4>5. delayPending' \in BOOLEAN
        BY <4>1, <4>2, Zenon DEF CountAddition
      <4>6. QED
        BY <4>3, <4>4, <4>5
    <3>3. QED
      BY <2>8, <3>1, <3>2 DEF NoteAdded, TypeInv, TypeOK, Below
  <2>9. CASE MapOwner(t)
    <3>1. (call' \in [Threads -> Call]) /\ CallShape'
      BY <2>9, <1>c, ReturnEffect DEF MapOwner
    <3>2. call[t].addr \in Pool /\ call[t].owner \in Owners
      BY <2>9, <1>d DEF MapOwner, At, Shaped
    <3>3. QED
      BY <2>9, <3>1, <3>2 DEF MapOwner, TypeInv, TypeOK, Below
  <2>10. CASE Rollback(t)
    <3>1. (call' \in [Threads -> Call]) /\ CallShape'
      BY <2>10, <1>c, ReturnEffect DEF Rollback
    <3>2. QED
      BY <2>10, <3>1 DEF Rollback, TypeInv, TypeOK, Below
  <2>11. QED
    BY <1>4, <2>1, <2>2, <2>3, <2>4, <2>5, <2>6, <2>7, <2>8, <2>9, <2>10 DEF AllocateStep
<1>5. ASSUME NEW t \in Threads, ReuseStep(t)
      PROVE  TypeInv'
  <2> USE DEF poolVars, batchVars, cleanupVars, AddrAt
  <2>1. ASSUME NEW op \in {"ensure", "remove", "release"}, NEW step \in {"create", "delete"},
               Reuse(t, op, step)
        PROVE  TypeInv'
    <3>1. PICK g \in grants :
             call' = [call EXCEPT ![t] = [op |-> op, at |-> step,
                                          owner |-> g.owner, addr |-> g.addr]]
      BY <2>1 DEF Reuse
    <3> DEFINE k == [op |-> op, at |-> step, owner |-> g.owner, addr |-> g.addr]
    <3>2. g \in Grant /\ g.addr \in Pool
      BY DEF TypeInv, TypeOK, Below
    <3>3. k \in Call /\ Shaped(k)
      BY <3>2 DEF Call, Ops, Steps, Shaped, Grant
    <3>4. (call' \in [Threads -> Call]) /\ CallShape'
      BY <3>1, <3>3, <1>c, SetCall
    <3>5. QED
      BY <2>1, <3>4 DEF Reuse, TypeInv, TypeOK, Below
  <2>2. CASE Ensure(t) \/ Remove(t) \/ Release(t)
    BY <2>1, <2>2 DEF Ensure, Remove, Release
  <2>3. CASE DeleteEntry(t)
    <3>1. (call' \in [Threads -> Call]) /\ CallShape'
      BY <2>3, <1>a, <1>c, GotoEffect DEF DeleteEntry, At
    <3>2. QED
      BY <2>3, <3>1 DEF DeleteEntry, TypeInv, TypeOK, Below
  <2>4. CASE DeleteFails(t)
    <3>1. (call' \in [Threads -> Call]) /\ CallShape'
      BY <2>4, <1>c, ReturnEffect DEF DeleteFails
    <3>2. QED
      BY <2>4, <3>1 DEF DeleteFails, TypeInv, TypeOK, Below
  <2>5. CASE Forget(t)
    <3>1. (call' \in [Threads -> Call]) /\ CallShape'
      BY <2>5, <1>a, <1>c, GotoEffect, ReturnEffect DEF Forget, At
    <3>2. QED
      BY <2>5, <3>1 DEF Forget, TypeInv, TypeOK, Below
  <2>6. CASE Unallocate(t)
    <3>1. call[t].op = "release"
      BY <2>6, <1>d DEF Unallocate, At, Shaped
    <3>2. (call' \in [Threads -> Call]) /\ CallShape'
      BY <2>6, <3>1, <1>a, <1>c, GotoEffect DEF Unallocate, At
    <3>3. QED
      BY <2>6, <3>2 DEF Unallocate, TypeInv, TypeOK, Below
  <2>7. CASE Unmap(t)
    <3>1. (call' \in [Threads -> Call]) /\ CallShape'
      BY <2>7, <1>c, ReturnEffect DEF Unmap
    <3>2. QED
      BY <2>7, <3>1 DEF Unmap, TypeInv, TypeOK, Below
  <2>8. QED
    BY <1>5, <2>2, <2>3, <2>4, <2>5, <2>6, <2>7 DEF ReuseStep
<1>6. ASSUME NEW t \in Threads, BatchStep(t)
      PROVE  TypeInv'
  <2>1. /\ UNCHANGED <<phase, poolVars, deviceMap, nic, call, grants, cleanupVars>>
        /\ added' \in {added, 0}
        /\ delayPending' = FALSE
        /\ burst' = 0
    BY <1>6 DEF BatchStep, TakeDelay, SetAddOptions
  <2>2. delayPending' \in BOOLEAN
    BY <2>1
  <2>3. (call' \in [Threads -> Call]) /\ CallShape'
    BY <2>1, <1>c DEF CallShape, Shaped
  <2>4. added' \in Nat /\ (added' = 0 \/ added' < BatchLimit) /\ burst' \in Nat
    BY <2>1 DEF TypeInv, TypeOK
  <2>5. QED
    BY <2>1, <2>2, <2>3, <2>4 DEF TypeInv, TypeOK, Below, poolVars, cleanupVars, AddrAt
<1>7. CASE CleanupStep
  <2> USE DEF TypeInv, TypeOK, CallShape, Shaped, Below, poolVars, batchVars, AddrAt
  <2>1. CASE SnapshotLists
    BY <2>1 DEF SnapshotLists
  <2>2. CASE ScanInterface
    BY <2>2 DEF ScanInterface, Pool
  <2>3. CASE ScanFails
    BY <2>3 DEF ScanFails
  <2>4. ASSUME NEW a \in Addrs, RemoveOne(a) \/ RemoveOneFails(a) PROVE TypeInv'
    BY <2>4 DEF RemoveOne, RemoveOneFails
  <2>5. CASE FinishCleanup
    BY <2>5, <1>2 DEF FinishCleanup
  <2>6. QED
    BY <1>7, <2>1, <2>2, <2>3, <2>4, <2>5 DEF CleanupStep
<1>8. CASE UNCHANGED vars
  BY <1>8 DEF vars, TypeInv, TypeOK, CallShape, Shaped, Below, AddrAt
<1>9. QED
  BY <1>1, <1>3, <1>4, <1>5, <1>6, <1>7, <1>8 DEF Next

THEOREM TypeCorrect == Spec => []TypeOK
<1>1. TypeInv => TypeOK
  BY DEF TypeInv
<1>2. QED
  BY <1>1, TypeInvInit, TypeInvNext, PTL DEF Spec

-----------------------------------------------------------------------------
(* Exclusive addresses.  Every step ends the process, hands out the next   *)
(* address, or hands out nothing and leaves the counter alone.             *)
LEMMA GrantStep ==
    ASSUME TypeInv, [Next]_vars
    PROVE  \/ grants' = {} /\ counter' = 0
           \/ \E t \in Threads : Generate(t)
           \/ grants' \subseteq grants /\ counter' = counter
<1> USE DEF poolVars, batchVars, cleanupVars
<1>1. CASE Boot
  BY <1>1 DEF Boot
<1>2. CASE Crash \/ FinishCleanup
  BY <1>2 DEF Crash, FinishCleanup, EndProcess
<1>3. ASSUME NEW t \in Threads, AllocateStep(t)
      PROVE  Generate(t) \/ (grants' \subseteq grants /\ counter' = counter)
  <2>1. CASE \E o \in Owners : Allocate(t, o)
    BY <2>1 DEF Allocate
  <2>2. CASE GenerateExhausted(t)
    BY <2>2, FirstFree DEF GenerateExhausted
  <2>3. CASE CreateEntry(t) \/ EntryExists(t) \/ CreateFails(t)
    BY <2>3 DEF CreateEntry, EntryExists, CreateFails
  <2>4. CASE Remember(t) \/ NoteAdded(t) \/ MapOwner(t) \/ Rollback(t)
    BY <2>4 DEF Remember, NoteAdded, MapOwner, Rollback
  <2>5. QED
    BY <1>3, <2>1, <2>2, <2>3, <2>4 DEF AllocateStep
<1>4. ASSUME NEW t \in Threads, ReuseStep(t) \/ BatchStep(t)
      PROVE  grants' \subseteq grants /\ counter' = counter
  BY <1>4 DEF ReuseStep, BatchStep, Reuse, Ensure, Remove, Release, DeleteEntry,
              DeleteFails, Forget, Unallocate, Unmap, TakeDelay, SetAddOptions
<1>5. CASE SnapshotLists \/ ScanInterface \/ ScanFails
  BY <1>5 DEF SnapshotLists, ScanInterface, ScanFails
<1>6. ASSUME NEW a \in Addrs, RemoveOne(a) \/ RemoveOneFails(a)
      PROVE  grants' \subseteq grants /\ counter' = counter
  BY <1>6 DEF RemoveOne, RemoveOneFails
<1>7. CASE UNCHANGED vars
  BY <1>7 DEF vars
<1>8. QED
  BY <1>1, <1>2, <1>3, <1>4, <1>5, <1>6, <1>7 DEF Next, CleanupStep

UniqueInv == TypeInv /\ GrantsUnique

LEMMA UniqueInvNext == UniqueInv /\ [Next]_vars => UniqueInv'
<1> SUFFICES ASSUME UniqueInv, [Next]_vars PROVE UniqueInv'
  OBVIOUS
<1>1. TypeInv /\ TypeInv'
  BY TypeInvNext DEF UniqueInv
<1>2. ASSUME NEW t \in Threads, Generate(t) PROVE GrantsUnique'
  <2> DEFINE a == AddrAt(counter)
             new == [thread |-> t, owner |-> call[t].owner, addr |-> a]
  <2>1. grants' = grants \cup {new}
    BY <1>1, <1>2, GenerateEffect
  <2>2. \A g \in grants : g.addr # a
    BY <1>1, PoolAssumption DEF TypeInv, TypeOK, Below, Pool, Addrs, AddrAt, PoolSize
  <2>3. new.addr = a
    OBVIOUS
  <2> HIDE DEF new, a
  <2>4. QED
    BY <2>1, <2>2, <2>3 DEF UniqueInv, GrantsUnique
<1>3. GrantsUnique'
  BY <1>1, <1>2, GrantStep DEF UniqueInv, GrantsUnique
<1>4. QED
  BY <1>1, <1>3 DEF UniqueInv

LEMMA UniqueInvInit == Init => UniqueInv
BY TypeInvInit DEF Init, UniqueInv, GrantsUnique

(* Whatever threads ask, fail, release or crash, no two callers ever hold  *)
(* the same address (generate_ipv6_address, ipv6_allocate_address).        *)
THEOREM ExclusiveAddresses == Spec => []GrantsUnique
<1>1. UniqueInv => GrantsUnique
  BY DEF UniqueInv
<1>2. QED
  BY <1>1, UniqueInvInit, UniqueInvNext, PTL DEF Spec

-----------------------------------------------------------------------------
(* The manager implements the dispenser: used is what the counter has      *)
(* passed, given what the callers hold.                                    *)
Used == {AddrAt(c) : c \in 0..(counter - 1)}
Given == {[addr |-> g.addr, holder |-> <<g.thread, g.owner>>] : g \in grants}

LEMMA GiveStep ==
    ASSUME TypeInv, NEW t \in Threads, Generate(t)
    PROVE  \E a \in Pool, h \in Threads \X Owners : Dispenser!Give(a, h)
<1> DEFINE a == AddrAt(counter)
           h == <<t, call[t].owner>>
<1>1. /\ a \in Pool
      /\ counter' = counter + 1
      /\ grants' = grants \cup {[thread |-> t, owner |-> call[t].owner, addr |-> a]}
  BY GenerateEffect
<1>2. counter \in Nat /\ Start \in Nat
  BY PoolAssumption DEF TypeInv, TypeOK, PoolSize, Addrs
<1>3. h \in Threads \X Owners
  BY DEF Generate, At, TypeInv, CallShape, Shaped
<1>4. a \notin Used
  BY <1>2 DEF Used, AddrAt
<1>5. Used' = Used \cup {a}
  <2>1. Used' = {AddrAt(c) : c \in 0..counter}
    BY <1>1, <1>2 DEF Used, AddrAt
  <2>2. 0..counter = 0..(counter - 1) \cup {counter}
    BY <1>2
  <2>3. QED
    BY <2>1, <2>2 DEF Used
<1>6. Given' = Given \cup {[addr |-> a, holder |-> h]}
  <2> DEFINE Held(g) == [addr |-> g.addr, holder |-> <<g.thread, g.owner>>]
             new == [thread |-> t, owner |-> call[t].owner, addr |-> a]
  <2>1. Held(new) = [addr |-> a, holder |-> h]
    OBVIOUS
  <2>2. Given = {Held(g) : g \in grants} /\ Given' = {Held(g) : g \in grants'}
    BY DEF Given
  <2>3. grants' = grants \cup {new}
    BY <1>1
  <2> HIDE DEF Held, new
  <2>4. {Held(g) : g \in grants'} = {Held(g) : g \in grants} \cup {Held(new)}
    BY <2>3
  <2>5. QED
    BY <2>1, <2>2, <2>4
<1>7. a \in Pool \ Used
  BY <1>1, <1>4
<1> HIDE DEF a, h
<1>8. QED
  BY <1>3, <1>5, <1>6, <1>7 DEF Dispenser!Give, Used, Given

LEMMA StepDispenses ==
    ASSUME TypeInv, [Next]_vars
    PROVE  [Dispenser!DispenserNext]_Dispenser!dispenserVars
<1>1. CASE grants' = {} /\ counter' = 0
  <2>1. Used' = {} /\ Given' = {}
    BY <1>1 DEF Used, Given
  <2>2. QED
    BY <2>1 DEF Used, Given, Dispenser!DispenserNext, Dispenser!Restart
<1>2. CASE \E t \in Threads : Generate(t)
  BY <1>2, GiveStep DEF Dispenser!DispenserNext
<1>3. CASE grants' \subseteq grants /\ counter' = counter
  <2>1. Used' = Used /\ Given' \subseteq Given
    BY <1>3 DEF Used, Given, AddrAt
  <2>2. QED
    BY <2>1 DEF Used, Given, Dispenser!DispenserNext, Dispenser!GiveUp
<1>4. QED
  BY <1>1, <1>2, <1>3, GrantStep

(* Every behaviour of the manager is one of the dispenser of               *)
(* AddressDispenser: an address handed out in a run is never handed out    *)
(* again in that run.                                                      *)
THEOREM ImplementsDispenser == Spec => Dispenses
<1>1. Init => Dispenser!DispenserInit
  BY DEF Init, Dispenser!DispenserInit, AddrAt
<1>2. TypeInv /\ [Next]_vars => [Dispenser!DispenserNext]_Dispenser!dispenserVars
  BY StepDispenses
<1>3. QED
  BY <1>1, <1>2, TypeInvInit, TypeInvNext, PTL DEF Spec, Dispenses, Dispenser!DispenserSpec

-----------------------------------------------------------------------------
(* Every call but a fresh allocation works on an address its thread holds, *)
(* so no two calls are ever about the same address.                        *)
Holding == \A t \in Threads :
    call[t].at \notin {"idle", "generate"} => GrantOf(t) \in grants

HoldInv == UniqueInv /\ Holding

LEMMA HoldInvInit == Init => HoldInv
BY UniqueInvInit DEF Init, HoldInv, Holding, NoCall

LEMMA OneCallPerAddress ==
    ASSUME HoldInv, NEW t \in Threads, NEW u \in Threads,
           call[t].at \notin {"idle", "generate"},
           call[u].at \notin {"idle", "generate"},
           call[t].addr = call[u].addr
    PROVE  t = u
<1>1. GrantOf(t) \in grants /\ GrantOf(u) \in grants
  BY DEF HoldInv, Holding
<1>2. GrantOf(t).addr = GrantOf(u).addr
  BY DEF GrantOf
<1>3. GrantOf(t) = GrantOf(u)
  BY <1>1, <1>2 DEF HoldInv, UniqueInv, GrantsUnique
<1>4. GrantOf(t).thread = t /\ GrantOf(u).thread = u
  BY DEF GrantOf
<1>5. QED
  BY <1>3, <1>4

(* What a step can do to the calls and the grants. *)
LEMMA CallStep ==
    ASSUME TypeInv, [Next]_vars
    PROVE  \/ \A t \in Threads : call'[t] = NoCall
           \/ call' = call /\ grants' = grants
           \/ \E t \in Threads :
                /\ \A u \in Threads \ {t} : call'[u] = call[u]
                /\ \A g \in grants : g.thread # t => g \in grants'
                /\ \/ call'[t].at \in {"idle", "generate"}
                   \/ GrantOf(t)' \in grants'
                   \/ /\ call[t].at \notin {"idle", "generate"}
                      /\ GrantOf(t)' = GrantOf(t)
                      /\ grants' = grants
<1> USE DEF poolVars, batchVars, cleanupVars
<1> DEFINE Only(t) ==
             /\ \A u \in Threads \ {t} : call'[u] = call[u]
             /\ \A g \in grants : g.thread # t => g \in grants'
             /\ \/ call'[t].at \in {"idle", "generate"}
                \/ GrantOf(t)' \in grants'
                \/ /\ call[t].at \notin {"idle", "generate"}
                   /\ GrantOf(t)' = GrantOf(t)
                   /\ grants' = grants
<1>c. call \in [Threads -> Call]
  BY DEF TypeInv, TypeOK
<1>r. ASSUME NEW t \in Threads, Return(t) PROVE call'[t].at = "idle"
                                  /\ \A u \in Threads \ {t} : call'[u] = call[u]
  BY <1>r, <1>c DEF Return, NoCall
<1>g. ASSUME NEW t \in Threads, NEW s \in Steps, Goto(t, s)
      PROVE  /\ \A u \in Threads \ {t} : call'[u] = call[u]
             /\ GrantOf(t)' = GrantOf(t)
  BY <1>g, <1>c DEF Goto, GrantOf, Call
<1>s. Steps = {"idle", "generate", "create", "remember", "note", "map",
               "rollback", "delete", "forget", "unallocate", "unmap"}
  BY DEF Steps
<1>1. CASE Boot
  BY <1>1 DEF Boot
<1>2. CASE Crash \/ FinishCleanup
  BY <1>2 DEF Crash, FinishCleanup, EndProcess
<1>3. ASSUME NEW t \in Threads, AllocateStep(t) PROVE Only(t)
  <2>1. ASSUME NEW o \in Owners, Allocate(t, o) PROVE Only(t)
    BY <2>1, <1>c DEF Allocate
  <2>2. CASE GenerateExhausted(t)
    BY <2>2, <1>r DEF GenerateExhausted
  <2>3. CASE Generate(t)
    BY <2>3, <1>c DEF Generate, GrantOf, Call
  <2>4. CASE CreateEntry(t) \/ EntryExists(t) \/ CreateFails(t)
    BY <2>4, <1>r, <1>g, <1>s DEF CreateEntry, EntryExists, CreateFails, At
  <2>5. CASE Remember(t) \/ NoteAdded(t) \/ MapOwner(t)
    BY <2>5, <1>r, <1>g, <1>s DEF Remember, NoteAdded, MapOwner, At
  <2>6. CASE Rollback(t)
    BY <2>6, <1>r DEF Rollback, GrantOf
  <2>7. QED
    BY <1>3, <2>1, <2>2, <2>3, <2>4, <2>5, <2>6 DEF AllocateStep
<1>4. ASSUME NEW t \in Threads, ReuseStep(t) PROVE Only(t)
  <2>1. ASSUME NEW op, NEW step, Reuse(t, op, step) PROVE Only(t)
    <3>1. PICK g \in grants :
             /\ g.thread = t
             /\ call' = [call EXCEPT ![t] = [op |-> op, at |-> step,
                                             owner |-> g.owner, addr |-> g.addr]]
      BY <2>1 DEF Reuse
    <3>2. g \in Grant
      BY DEF TypeInv, TypeOK
    <3>3. GrantOf(t)' = g
      BY <3>1, <3>2, <1>c DEF GrantOf, Grant
    <3>4. QED
      BY <2>1, <3>1, <3>3, <1>c DEF Reuse
  <2>2. CASE DeleteEntry(t) \/ DeleteFails(t) \/ Forget(t) \/ Unallocate(t)
    BY <2>2, <1>r, <1>g, <1>s DEF DeleteEntry, DeleteFails, Forget, Unallocate, At
  <2>3. CASE Unmap(t)
    BY <2>3, <1>r DEF Unmap, GrantOf
  <2>4. QED
    BY <1>4, <2>1, <2>2, <2>3 DEF ReuseStep, Ensure, Remove, Release
<1>5. ASSUME NEW t \in Threads, BatchStep(t) PROVE call' = call /\ grants' = grants
  BY <1>5 DEF BatchStep, TakeDelay, SetAddOptions
<1>6. CASE SnapshotLists \/ ScanInterface \/ ScanFails
  BY <1>6 DEF SnapshotLists, ScanInterface, ScanFails
<1>7. ASSUME NEW a \in Addrs, RemoveOne(a) \/ RemoveOneFails(a)
      PROVE  call' = call /\ grants' = grants
  BY <1>7 DEF RemoveOne, RemoveOneFails
<1>8. CASE UNCHANGED vars
  BY <1>8 DEF vars
<1>9. QED
  BY <1>1, <1>2, <1>3, <1>4, <1>5, <1>6, <1>7, <1>8 DEF Next, CleanupStep

LEMMA HoldInvNext == HoldInv /\ [Next]_vars => HoldInv'
<1> SUFFICES ASSUME HoldInv, [Next]_vars PROVE HoldInv'
  OBVIOUS
<1>1. UniqueInv' /\ TypeInv
  BY UniqueInvNext DEF HoldInv, UniqueInv
<1>2. ASSUME NEW u \in Threads, call'[u].at \notin {"idle", "generate"}
      PROVE  GrantOf(u)' \in grants'
  <2>1. CASE \A t \in Threads : call'[t] = NoCall
    BY <1>2, <2>1 DEF NoCall
  <2>2. CASE call' = call /\ grants' = grants
    BY <1>2, <2>2 DEF HoldInv, Holding, GrantOf
  <2>3. ASSUME NEW t \in Threads,
               /\ \A v \in Threads \ {t} : call'[v] = call[v]
               /\ \A g \in grants : g.thread # t => g \in grants'
               /\ \/ call'[t].at \in {"idle", "generate"}
                  \/ GrantOf(t)' \in grants'
                  \/ /\ call[t].at \notin {"idle", "generate"}
                     /\ GrantOf(t)' = GrantOf(t)
                     /\ grants' = grants
        PROVE  GrantOf(u)' \in grants'
    <3>1. CASE u = t
      BY <1>2, <2>3, <3>1 DEF HoldInv, Holding
    <3>2. CASE u # t
      <4>1. GrantOf(u)' = GrantOf(u) /\ GrantOf(u) \in grants /\ GrantOf(u).thread = u
        BY <1>2, <2>3, <3>2 DEF HoldInv, Holding, GrantOf
      <4>2. QED
        BY <2>3, <3>2, <4>1
    <3>3. QED
      BY <3>1, <3>2
  <2>4. QED
    BY <1>1, <2>1, <2>2, <2>3, CallStep
<1>3. QED
  BY <1>1, <1>2 DEF HoldInv, Holding

-----------------------------------------------------------------------------
(* The batch.  While no delay is due, the counter covers the burst. *)
BatchInv == TypeInv /\ (BatchLimit > 0 /\ ~delayPending => burst <= added)

LEMMA BatchInvNext == BatchInv /\ [Next]_vars => BatchInv'
<1> SUFFICES ASSUME BatchInv, [Next]_vars PROVE BatchInv'
  OBVIOUS
<1> USE BatchAssumption DEF poolVars, cleanupVars
<1>1. TypeInv /\ TypeInv'
  BY TypeInvNext DEF BatchInv
<1>2. added \in Nat /\ burst \in Nat
  BY <1>1 DEF TypeInv, TypeOK
<1> DEFINE Covered == BatchLimit > 0 /\ ~delayPending => burst <= added
<1>3. CASE UNCHANGED batchVars
  BY <1>1, <1>3 DEF BatchInv, batchVars
<1>4. CASE burst' = 0 /\ added' \in Nat
  BY <1>1, <1>4 DEF BatchInv
<1>5. ASSUME NEW t \in Threads, NoteAdded(t) PROVE BatchInv'
  <2>1. CountAddition /\ burst' \in {burst, burst + 1}
    BY <1>5 DEF NoteAdded
  <2>2. CASE BatchLimit > 0 /\ added + 1 < BatchLimit
    <3>1. added' = added + 1 /\ delayPending' = delayPending
      BY <1>2, <2>1, <2>2 DEF CountAddition
    <3>2. QED
      BY <1>1, <1>2, <2>1, <3>1 DEF BatchInv
  <2>3. CASE BatchLimit > 0 /\ added + 1 >= BatchLimit
    <3>1. BatchLimit # 0
      BY <2>3
    <3>2. delayPending' = TRUE
      BY <2>1, <2>3, <3>1, Zenon DEF CountAddition
    <3>3. QED
      BY <1>1, <3>2 DEF BatchInv
  <2>4. QED
    BY <1>1, <1>2, <2>2, <2>3 DEF BatchInv
<1>6. CASE Boot \/ UNCHANGED vars
  BY <1>3, <1>6 DEF Boot, vars, batchVars
<1>7. CASE Crash \/ FinishCleanup
  BY <1>4, <1>7 DEF Crash, FinishCleanup, EndProcess
<1>8. ASSUME NEW t \in Threads, AllocateStep(t) PROVE BatchInv'
  BY <1>3, <1>5, <1>8 DEF AllocateStep, Allocate, GenerateExhausted, Generate,
     CreateEntry, EntryExists, CreateFails, Remember, MapOwner, Rollback
<1>9. ASSUME NEW t \in Threads, ReuseStep(t) PROVE BatchInv'
  BY <1>3, <1>9 DEF ReuseStep, Reuse, Ensure, Remove, Release, DeleteEntry,
     DeleteFails, Forget, Unallocate, Unmap
<1>10. ASSUME NEW t \in Threads, BatchStep(t) PROVE BatchInv'
  BY <1>2, <1>4, <1>10 DEF BatchStep, TakeDelay, SetAddOptions
<1>11. CASE CleanupStep
  BY <1>3, <1>7, <1>11 DEF CleanupStep, SnapshotLists, ScanInterface, ScanFails,
     RemoveOne, RemoveOneFails
<1>12. QED
  BY <1>6, <1>7, <1>8, <1>9, <1>10, <1>11 DEF Next

(* No burst of batch_add_limit additions goes by without a delay becoming  *)
(* due, however the threads interleave (ipv6_manager_note_address_added).  *)
THEOREM BatchesArePaced == Spec => []BatchPaced
<1>1. Init => BatchInv
  BY TypeInvInit DEF Init, BatchInv
<1>2. BatchInv => BatchPaced
  BY BatchAssumption DEF BatchInv, BatchPaced, TypeInv, TypeOK
<1>3. QED
  BY <1>1, <1>2, BatchInvNext, PTL DEF Spec

-----------------------------------------------------------------------------
LEMMA ForeignStep == TypeInv /\ [Next]_vars => nic \ Pool = nic' \ Pool
<1> SUFFICES ASSUME TypeInv, [Next]_vars PROVE nic \ Pool = nic' \ Pool
  OBVIOUS
<1>1. \A t \in Threads : Shaped(call[t])
  BY DEF TypeInv, CallShape
<1>2. ASSUME NEW t \in Threads, CreateEntry(t) \/ DeleteEntry(t)
      PROVE  nic \ Pool = nic' \ Pool
  <2>1. call[t].addr \in Pool
    BY <1>1, <1>2 DEF CreateEntry, DeleteEntry, At, Shaped
  <2>2. nic' = nic \cup {call[t].addr} \/ nic' = nic \ {call[t].addr}
    BY <1>2 DEF CreateEntry, DeleteEntry
  <2>3. QED
    BY <2>1, <2>2
<1>3. ASSUME NEW a \in Addrs, RemoveOne(a) PROVE nic \ Pool = nic' \ Pool
  BY <1>3 DEF RemoveOne, TypeInv, TypeOK
<1>4. \/ nic' = nic
      \/ \E t \in Threads : CreateEntry(t) \/ DeleteEntry(t)
      \/ \E a \in Addrs : RemoveOne(a)
  BY DEF Next, vars, Boot, Crash, EndProcess, AllocateStep, ReuseStep,
     BatchStep, CleanupStep, Allocate, GenerateExhausted, Generate,
     EntryExists, CreateFails, Remember, NoteAdded, MapOwner, Rollback, Reuse,
     Ensure, Remove, Release, DeleteFails, Forget, Unallocate, Unmap,
     TakeDelay, SetAddOptions, SnapshotLists, ScanInterface, ScanFails,
     RemoveOneFails, FinishCleanup
<1>5. QED
  BY <1>2, <1>3, <1>4

(* Neither the calls nor the exit cleanup ever touch an address outside    *)
(* the configured range (ipv6_address_in_range).                           *)
THEOREM ForeignAddressesUntouched == Spec => ForeignUntouched
<1>1. TypeInv /\ [Next]_vars => [nic \ Pool = nic' \ Pool]_vars
  BY ForeignStep
<1>2. QED
  BY <1>1, TypeInvInit, TypeInvNext, PTL DEF Spec, ForeignUntouched

-----------------------------------------------------------------------------
LEMMA GotoCalls ==
    ASSUME TypeInv, NEW t \in Threads, NEW s \in Steps, Goto(t, s)
    PROVE  /\ \A u \in Threads \ {t} : call'[u] = call[u]
           /\ call'[t].at = s
           /\ call'[t].op = call[t].op
           /\ call'[t].owner = call[t].owner
           /\ call'[t].addr = call[t].addr
BY DEF Goto, TypeInv, TypeOK, Call

LEMMA ReturnCalls ==
    ASSUME TypeInv, NEW t \in Threads, Return(t)
    PROVE  /\ \A u \in Threads \ {t} : call'[u] = call[u]
           /\ call'[t] = NoCall
BY DEF Return, TypeInv, TypeOK

LEMMA StepNames == Steps = {"idle", "generate", "create", "remember", "note",
                            "map", "rollback", "delete", "forget", "unallocate",
                            "unmap"}
BY DEF Steps

(* The interface.  An entry just deleted stays deleted until it is         *)
(* forgotten; from the exit cleanup on, what may remain on the interface   *)
(* is accounted for.                                                       *)
ForgetGone == \A t \in Threads : call[t].at = "forget" => call[t].addr \notin nic

Accounted ==
    /\ phase \in {"running", "scan"} => lastExit = "none"
    /\ phase = "scan" => nic \cap Pool \subseteq residue \cup toRemove
    /\ phase = "removing" =>
         \/ lastExit = "scanned" /\ nic \cap Pool \subseteq toRemove \cup undeleted
         \/ /\ lastExit = "unscanned"
            /\ nic \cap Pool \subseteq toRemove \cup undeleted \cup residue

NicInv == HoldInv /\ ForgetGone /\ Accounted /\ NicTracked /\ CleanExit

(* A step of a running process that leaves the interface and the list      *)
(* alone, and no call begins to forget or ends remembering.                *)
LEMMA NicQuiet ==
    ASSUME NicInv, phase = "running", phase' = phase,
           UNCHANGED <<nic, interfaceAddrs, residue, lastExit>>,
           \A u \in Threads : \/ call'[u] = call[u]
                              \/ call'[u].at # "forget" /\ call[u].at # "remember"
    PROVE  (ForgetGone /\ Accounted /\ NicTracked /\ CleanExit)'
<1>1. ForgetGone'
  BY DEF NicInv, ForgetGone
<1>2. NicTracked'
  BY DEF NicInv, NicTracked, Pool, InPool, Addrs
<1>3. QED
  BY <1>1, <1>2 DEF NicInv, Accounted, CleanExit

LEMMA NicInvAllocate ==
    ASSUME NicInv, NEW t \in Threads, AllocateStep(t)
    PROVE  (ForgetGone /\ Accounted /\ NicTracked /\ CleanExit)'
<1> USE DEF poolVars, batchVars, cleanupVars, At
<1>1. TypeInv /\ HoldInv /\ call \in [Threads -> Call] /\ Pool' = Pool
  BY DEF NicInv, HoldInv, UniqueInv, TypeInv, TypeOK, Pool, InPool, Addrs
<1>2. CASE \E o \in Owners : Allocate(t, o)
  BY <1>1, <1>2, NicQuiet DEF Allocate
<1>3. CASE GenerateExhausted(t)
  BY <1>1, <1>3, NicQuiet, ReturnCalls DEF GenerateExhausted, NoCall
<1>4. CASE Generate(t)
  <2>1. /\ phase = "running" /\ call[t].at = "generate"
        /\ UNCHANGED <<phase, nic, interfaceAddrs, residue, lastExit>>
    BY <1>4 DEF Generate
  <2>2. call' = [call EXCEPT ![t].at = "create", ![t].addr = AddrAt(counter)]
    BY <1>1, <1>4, GenerateEffect
  <2>3. call'[t].at = "create" /\ \A u \in Threads \ {t} : call'[u] = call[u]
    BY <1>1, <2>2 DEF Call
  <2>4. QED
    BY <2>1, <2>3, NicQuiet
<1>5. CASE CreateEntry(t)
  <2>1. /\ nic' = nic \cup {call[t].addr} /\ call[t].at = "create"
        /\ phase = "running" /\ Goto(t, "remember")
        /\ UNCHANGED <<phase, interfaceAddrs, residue, lastExit>>
    BY <1>5 DEF CreateEntry
  <2>2. /\ \A u \in Threads \ {t} : call'[u] = call[u]
        /\ call'[t].at = "remember" /\ call'[t].addr = call[t].addr
    BY <1>1, <2>1, GotoCalls, StepNames
  <2>3. ASSUME NEW u \in Threads, call'[u].at = "forget"
        PROVE  call'[u].addr \notin nic'
    <3>1. u # t /\ call[u].at = "forget" /\ call'[u].addr = call[u].addr
      BY <2>2, <2>3
    <3>2. call[u].addr # call[t].addr
      BY <1>1, <2>1, <3>1, OneCallPerAddress
    <3>3. QED
      BY <2>1, <3>1, <3>2 DEF NicInv, ForgetGone
  <2>4. NicTracked'
    BY <1>1, <2>1, <2>2 DEF NicInv, NicTracked
  <2>5. QED
    BY <2>1, <2>3, <2>4 DEF NicInv, ForgetGone, Accounted, CleanExit
<1>6. CASE EntryExists(t) \/ CreateFails(t) \/ NoteAdded(t)
  <2>1. call[t].at \in {"create", "note"} /\ phase = "running"
        /\ UNCHANGED <<phase, nic, interfaceAddrs, residue, lastExit>>
    BY <1>6 DEF EntryExists, CreateFails, NoteAdded
  <2>2. Goto(t, "map") \/ Goto(t, "rollback") \/ Return(t)
    BY <1>6 DEF EntryExists, CreateFails, NoteAdded
  <2>3. call'[t].at # "forget" /\ \A u \in Threads \ {t} : call'[u] = call[u]
    BY <1>1, <2>2, GotoCalls, ReturnCalls, StepNames DEF NoCall
  <2>4. QED
    BY <2>1, <2>3, NicQuiet
<1>7. CASE Remember(t)
  <2>1. /\ interfaceAddrs' = interfaceAddrs \cup {call[t].addr}
        /\ phase = "running" /\ Goto(t, "note")
        /\ UNCHANGED <<phase, nic, residue, lastExit>>
    BY <1>7 DEF Remember
  <2>2. /\ \A u \in Threads \ {t} : call'[u] = call[u]
        /\ call'[t].at = "note"
    BY <1>1, <2>1, GotoCalls, StepNames
  <2>3. ForgetGone'
    BY <2>1, <2>2 DEF NicInv, ForgetGone
  <2>4. NicTracked'
    BY <1>1, <2>1, <2>2 DEF NicInv, NicTracked
  <2>5. QED
    BY <2>1, <2>3, <2>4 DEF NicInv, Accounted, CleanExit
<1>8. CASE MapOwner(t) \/ Rollback(t)
  BY <1>1, <1>8, NicQuiet, ReturnCalls DEF MapOwner, Rollback, NoCall
<1>9. QED
  BY <1>2, <1>3, <1>4, <1>5, <1>6, <1>7, <1>8 DEF AllocateStep

LEMMA NicInvReuse ==
    ASSUME NicInv, NEW t \in Threads, ReuseStep(t)
    PROVE  (ForgetGone /\ Accounted /\ NicTracked /\ CleanExit)'
<1> USE DEF poolVars, batchVars, cleanupVars, At
<1>1. TypeInv /\ HoldInv /\ call \in [Threads -> Call] /\ Pool' = Pool
  BY DEF NicInv, HoldInv, UniqueInv, TypeInv, TypeOK, Pool, InPool, Addrs
<1>2. ASSUME NEW op, NEW step \in {"create", "delete"}, Reuse(t, op, step)
      PROVE  (ForgetGone /\ Accounted /\ NicTracked /\ CleanExit)'
  BY <1>1, <1>2, NicQuiet DEF Reuse
<1>3. CASE DeleteEntry(t)
  <2>1. /\ nic' = nic \ {call[t].addr} /\ call[t].at = "delete"
        /\ phase = "running" /\ Goto(t, "forget")
        /\ UNCHANGED <<phase, interfaceAddrs, residue, lastExit>>
    BY <1>3 DEF DeleteEntry
  <2>2. /\ \A u \in Threads \ {t} : call'[u] = call[u]
        /\ call'[t].at = "forget" /\ call'[t].addr = call[t].addr
    BY <1>1, <2>1, GotoCalls, StepNames
  <2>3. ForgetGone'
    BY <2>1, <2>2 DEF NicInv, ForgetGone
  <2>4. NicTracked'
    BY <1>1, <2>1, <2>2 DEF NicInv, NicTracked
  <2>5. QED
    BY <2>1, <2>3, <2>4 DEF NicInv, Accounted, CleanExit
<1>4. CASE DeleteFails(t) \/ Unmap(t)
  BY <1>1, <1>4, NicQuiet, ReturnCalls DEF DeleteFails, Unmap, NoCall
<1>5. CASE Forget(t)
  <2>1. /\ interfaceAddrs' = interfaceAddrs \ {call[t].addr}
        /\ call[t].at = "forget" /\ phase = "running"
        /\ Goto(t, "unallocate") \/ Return(t)
        /\ UNCHANGED <<phase, nic, residue, lastExit>>
    BY <1>5 DEF Forget
  <2>2. /\ \A u \in Threads \ {t} : call'[u] = call[u]
        /\ call'[t].at # "forget"
    BY <1>1, <2>1, GotoCalls, ReturnCalls, StepNames DEF NoCall
  <2>3. call[t].addr \notin nic
    BY <2>1 DEF NicInv, ForgetGone
  <2>4. ForgetGone'
    BY <2>1, <2>2 DEF NicInv, ForgetGone
  <2>5. NicTracked'
    BY <1>1, <2>1, <2>2, <2>3 DEF NicInv, NicTracked
  <2>6. QED
    BY <2>1, <2>4, <2>5 DEF NicInv, Accounted, CleanExit
<1>6. CASE Unallocate(t)
  BY <1>1, <1>6, NicQuiet, GotoCalls, StepNames DEF Unallocate
<1>7. QED
  BY <1>2, <1>3, <1>4, <1>5, <1>6 DEF ReuseStep, Ensure, Remove, Release

LEMMA NicInvNext == NicInv /\ [Next]_vars => NicInv'
<1> SUFFICES ASSUME NicInv, [Next]_vars
             PROVE  (ForgetGone /\ Accounted /\ NicTracked /\ CleanExit)'
  BY HoldInvNext DEF NicInv
<1> USE DEF poolVars, batchVars, cleanupVars
<1>1. /\ TypeInv /\ Pool' = Pool
      /\ toRemove \subseteq Pool
      /\ phase \in {"running", "scan", "removing", "stopped"}
  BY DEF NicInv, HoldInv, UniqueInv, TypeInv, TypeOK, Pool, InPool, Addrs
<1>2. CASE Boot
  BY <1>1, <1>2 DEF Boot, NicInv, ForgetGone, Accounted, NicTracked, CleanExit
<1>3. CASE Crash \/ FinishCleanup
  <2>1. phase' = "stopped" /\ nic' = nic /\ undeleted' = undeleted /\ residue' = residue
    BY <1>3 DEF Crash, FinishCleanup, EndProcess
  <2>2. ForgetGone'
    BY <1>3 DEF Crash, FinishCleanup, EndProcess, ForgetGone, NoCall
  <2>3. CleanExit'
    BY <1>1, <1>3, <2>1 DEF Crash, FinishCleanup, CleanExit, NicInv, Accounted
  <2>4. QED
    BY <2>1, <2>2, <2>3 DEF Accounted, NicTracked
<1>4. ASSUME NEW t \in Threads, AllocateStep(t) \/ ReuseStep(t) \/ BatchStep(t)
      PROVE  (ForgetGone /\ Accounted /\ NicTracked /\ CleanExit)'
  <2>1. CASE BatchStep(t)
    BY <2>1, NicQuiet DEF BatchStep, TakeDelay, SetAddOptions, At
  <2>2. QED
    BY <1>4, <2>1, NicInvAllocate, NicInvReuse
<1>5. CASE CleanupStep
  <2> USE DEF NicInv, ForgetGone, Accounted, NicTracked, CleanExit
  <2>1. CASE SnapshotLists
    <3>1. nic \cap Pool \subseteq residue \cup interfaceAddrs
      BY <2>1 DEF SnapshotLists
    <3>2. QED
      BY <1>1, <2>1, <3>1 DEF SnapshotLists
  <2>2. CASE ScanInterface
    BY <1>1, <2>2 DEF ScanInterface, Pool
  <2>3. CASE ScanFails
    BY <1>1, <2>3 DEF ScanFails
  <2>4. ASSUME NEW a \in Addrs, RemoveOne(a) \/ RemoveOneFails(a)
        PROVE  (ForgetGone /\ Accounted /\ NicTracked /\ CleanExit)'
    BY <1>1, <2>4 DEF RemoveOne, RemoveOneFails
  <2>5. QED
    BY <1>3, <1>5, <2>1, <2>2, <2>3, <2>4 DEF CleanupStep
<1>6. CASE UNCHANGED vars
  BY <1>1, <1>6 DEF vars, NicInv, ForgetGone, Accounted, NicTracked, CleanExit
<1>7. QED
  BY <1>2, <1>3, <1>4, <1>5, <1>6 DEF Next

LEMMA NicInvInit == Init => NicInv
BY HoldInvInit DEF Init, NicInv, ForgetGone, Accounted, NicTracked, CleanExit, NoCall

(* Whatever the interleaving and the failures, an address this process put *)
(* on the interface is on its list                                        *)
(* (remember_interface_address_added_by_program).                          *)
THEOREM InterfaceTracked == Spec => []NicTracked
<1>1. NicInv => NicTracked
  BY DEF NicInv
<1>2. QED
  BY <1>1, NicInvInit, NicInvNext, PTL DEF Spec

(* A regular exit leaves no pool address on the interface but those whose  *)
(* deletion failed, those of killed processes included when the interface  *)
(* could be scanned (ipv6_remove_all_allocated_addresses).                 *)
THEOREM ExitIsClean == Spec => []CleanExit
<1>1. NicInv => CleanExit
  BY DEF NicInv
<1>2. QED
  BY <1>1, NicInvInit, NicInvNext, PTL DEF Spec

-----------------------------------------------------------------------------
(* The device map.  An address on its way through an allocation is         *)
(* allocated and not mapped yet; a mapped address has been handed out, and *)
(* to the owner it is mapped to.                                           *)
InFlight == \A t \in Threads :
    call[t].op = "allocate" /\ call[t].at \notin {"idle", "generate"} =>
        /\ call[t].addr \in allocated
        /\ \A o \in Owners : deviceMap[o] # call[t].addr

MapGranted == \A o \in Owners : deviceMap[o] # None =>
    /\ deviceMap[o] < AddrAt(counter)
    /\ \A g \in grants : g.addr = deviceMap[o] => g.owner = o

MapPart ==
    /\ InFlight
    /\ MapGranted
    /\ phase = "stopped" => \A o \in Owners : deviceMap[o] = None
    /\ MapBacked

MapInv == HoldInv /\ MapPart

LEMMA MapTypes ==
    ASSUME MapInv
    PROVE  /\ TypeInv /\ HoldInv
           /\ call \in [Threads -> Call]
           /\ deviceMap \in [Owners -> Pool \cup {None}]
           /\ AddrAt(counter) \in Int
           /\ Pool \subseteq Int /\ None \notin Pool
           /\ \A t \in Threads : Shaped(call[t])
<1>1. TypeInv /\ HoldInv
  BY DEF MapInv, HoldInv, UniqueInv
<1>2. QED
  BY <1>1, PoolAssumption, CallerAssumption
  DEF TypeInv, TypeOK, CallShape, Pool, Addrs, AddrAt, PoolSize

(* A step that leaves the map and the allocated addresses alone, hands out *)
(* nothing, and neither begins an allocation's way nor ends an unmap.      *)
LEMMA MapQuiet ==
    ASSUME MapInv, phase = "running", phase' = phase,
           UNCHANGED <<deviceMap, allocated, counter>>, grants' \subseteq grants,
           NEW t \in Threads, \A u \in Threads \ {t} : call'[u] = call[u],
           call[t].at # "unmap",
           \/ call'[t].at \in {"idle", "generate"}
           \/ call'[t].op # "allocate"
           \/ /\ call'[t].op = call[t].op /\ call'[t].addr = call[t].addr
              /\ call[t].at \notin {"idle", "generate"}
    PROVE  MapPart'
<1>1. InFlight'
  BY DEF MapInv, MapPart, InFlight
<1>2. MapGranted'
  BY DEF MapInv, MapPart, MapGranted, AddrAt
<1>3. MapBacked'
  BY DEF MapInv, MapPart, MapBacked
<1>4. QED
  BY <1>1, <1>2, <1>3 DEF MapPart

(* An address leaves the allocated list. *)
LEMMA MapDrop ==
    ASSUME MapInv, phase = "running", phase' = phase,
           UNCHANGED <<deviceMap, counter>>, grants' \subseteq grants,
           NEW t \in Threads, \A u \in Threads \ {t} : call'[u] = call[u],
           allocated' = allocated \ {call[t].addr},
           call[t].at \notin {"idle", "generate", "unmap"},
           call'[t].at \in {"idle", "generate"} \/ call'[t].op # "allocate",
           \A o \in Owners : deviceMap[o] = call[t].addr =>
               call'[t].at = "unmap" /\ call'[t].owner = o
    PROVE  MapPart'
<1>1. InFlight'
  <2> SUFFICES ASSUME NEW u \in Threads, call'[u].op = "allocate",
                      call'[u].at \notin {"idle", "generate"}
               PROVE  call'[u].addr \in allocated'
                      /\ \A o \in Owners : deviceMap'[o] # call'[u].addr
    BY DEF InFlight
  <2>1. u # t /\ call'[u] = call[u]
    OBVIOUS
  <2>2. call[u].addr # call[t].addr
    BY <2>1, OneCallPerAddress DEF MapInv
  <2>3. QED
    BY <2>1, <2>2 DEF MapInv, MapPart, InFlight
<1>2. MapGranted'
  BY DEF MapInv, MapPart, MapGranted, AddrAt
<1>3. MapBacked'
  BY DEF MapInv, MapPart, MapBacked
<1>4. QED
  BY <1>1, <1>2, <1>3 DEF MapPart

LEMMA MapInvAllocate ==
    ASSUME MapInv, NEW t \in Threads, AllocateStep(t)
    PROVE  MapPart'
<1> USE DEF poolVars, batchVars, cleanupVars, At
<1>1. /\ TypeInv /\ HoldInv
      /\ call \in [Threads -> Call]
      /\ deviceMap \in [Owners -> Pool \cup {None}]
      /\ AddrAt(counter) \in Int
      /\ Pool \subseteq Int /\ None \notin Pool
      /\ \A u \in Threads : Shaped(call[u])
  BY MapTypes
<1>2. CASE \E o \in Owners : Allocate(t, o)
  BY <1>1, <1>2, MapQuiet DEF Allocate
<1>3. CASE GenerateExhausted(t)
  <2>1. counter' = counter
    BY <1>1, <1>3, FirstFree DEF GenerateExhausted
  <2>2. QED
    BY <1>1, <1>3, <2>1, MapQuiet, ReturnCalls DEF GenerateExhausted, NoCall
<1>4. CASE Generate(t)
  <2> DEFINE a == AddrAt(counter)
             new == [thread |-> t, owner |-> call[t].owner, addr |-> a]
  <2>1. /\ AddrAt(counter)' = a + 1
        /\ allocated' = allocated \cup {a}
        /\ grants' = grants \cup {new}
        /\ call' = [call EXCEPT ![t].at = "create", ![t].addr = a]
        /\ a \in Pool
    BY <1>1, <1>4, GenerateEffect
  <2>2. phase = "running" /\ phase' = phase /\ deviceMap' = deviceMap /\ call[t].at = "generate"
    BY <1>4 DEF Generate
  <2>3. /\ \A u \in Threads \ {t} : call'[u] = call[u]
        /\ call'[t].addr = a /\ call'[t].at = "create"
    BY <1>1, <2>1 DEF Call
  <2>4. new.addr = a
    OBVIOUS
  <2>5. a \in Int
    BY <1>1
  <2> HIDE DEF a, new
  <2>6. \A o \in Owners : deviceMap[o] # None => deviceMap[o] \in Int /\ deviceMap[o] < a
    BY <1>1 DEF MapInv, MapPart, MapGranted, a
  <2>7. \A o \in Owners : deviceMap[o] # a
    BY <1>1, <2>1, <2>5, <2>6
  <2>8. InFlight'
    <3> SUFFICES ASSUME NEW u \in Threads, call'[u].op = "allocate",
                        call'[u].at \notin {"idle", "generate"}
                 PROVE  call'[u].addr \in allocated'
                        /\ \A o \in Owners : deviceMap'[o] # call'[u].addr
      BY DEF InFlight
    <3>a. allocated' = allocated \cup {a} /\ deviceMap' = deviceMap
      BY <2>1, <2>2
    <3>1. CASE u = t
      <4>1. call'[u].addr = a
        BY <2>3, <3>1
      <4>2. QED
        BY <2>7, <3>a, <4>1
    <3>2. CASE u # t
      <4>1. call'[u] = call[u]
        BY <2>3, <3>2
      <4>2. call[u].addr \in allocated /\ \A o \in Owners : deviceMap[o] # call[u].addr
        BY <4>1 DEF MapInv, MapPart, InFlight
      <4>3. QED
        BY <3>a, <4>1, <4>2
    <3>3. QED
      BY <3>1, <3>2
  <2>9. MapGranted'
    <3>1. ASSUME NEW o \in Owners, deviceMap[o] # None
          PROVE  deviceMap[o] < a + 1 /\ \A g \in grants' : g.addr = deviceMap[o] => g.owner = o
      <4>1. deviceMap[o] < a + 1
        BY <2>5, <2>6, <3>1
      <4>2. ASSUME NEW g \in grants', g.addr = deviceMap[o] PROVE g.owner = o
        BY <2>1, <2>4, <2>7, <3>1, <4>2 DEF MapInv, MapPart, MapGranted
      <4>3. QED
        BY <4>1, <4>2
    <3>2. QED
      BY <2>1, <2>2, <3>1 DEF MapGranted
  <2>10. MapBacked'
    <3> SUFFICES ASSUME NEW o \in Owners, deviceMap[o] # None, deviceMap[o] \notin allocated'
                 PROVE  \E u \in Threads : call'[u].at = "unmap" /\ call'[u].owner = o
      BY <2>2 DEF MapBacked
    <3>1. PICK u \in Threads : call[u].at = "unmap" /\ call[u].owner = o
      BY <2>1, <2>2 DEF MapInv, MapPart, MapBacked
    <3>2. u # t
      BY <2>2, <3>1
    <3>3. QED
      BY <2>3, <3>1, <3>2
  <2>11. QED
    BY <2>2, <2>8, <2>9, <2>10 DEF MapPart
<1>5. CASE CreateEntry(t) \/ EntryExists(t) \/ CreateFails(t) \/ Remember(t) \/ NoteAdded(t)
  <2>1. /\ phase = "running" /\ call[t].at \in {"create", "remember", "note"}
        /\ UNCHANGED <<phase, deviceMap, allocated, counter, grants>>
    BY <1>5 DEF CreateEntry, EntryExists, CreateFails, Remember, NoteAdded
  <2>2. \/ Goto(t, "map") \/ Goto(t, "rollback") \/ Goto(t, "remember")
        \/ Goto(t, "note") \/ Return(t)
    BY <1>5 DEF CreateEntry, EntryExists, CreateFails, Remember, NoteAdded
  <2>3. /\ \A u \in Threads \ {t} : call'[u] = call[u]
        /\ \/ call'[t].at = "idle"
           \/ call'[t].op = call[t].op /\ call'[t].addr = call[t].addr
    BY <1>1, <2>2, GotoCalls, ReturnCalls, StepNames DEF NoCall
  <2>4. QED
    BY <2>1, <2>3, MapQuiet
<1>6. CASE MapOwner(t)
  <2> DEFINE o == call[t].owner
             a == call[t].addr
  <2>1. /\ phase = "running" /\ call[t].at = "map" /\ call[t].op = "allocate"
        /\ o \in Owners /\ a \in Pool
        /\ deviceMap' = [deviceMap EXCEPT ![o] = a]
        /\ UNCHANGED <<phase, allocated, counter, grants>>
    BY <1>1, <1>6 DEF MapOwner, Shaped
  <2>2. /\ \A u \in Threads \ {t} : call'[u] = call[u]
        /\ call'[t].at = "idle"
    BY <1>1, <1>6, ReturnCalls DEF MapOwner, NoCall
  <2>3. \A p \in Owners : deviceMap'[p] = IF p = o THEN a ELSE deviceMap[p]
    BY <1>1, <2>1
  <2>4. GrantOf(t) \in grants /\ a \in allocated
    BY <1>1, <2>1 DEF HoldInv, Holding, MapInv, MapPart, InFlight
  <2>5. GrantOf(t).owner = o /\ GrantOf(t).addr = a
    BY DEF GrantOf
  <2>6. \A g \in grants : g.addr = a => g.owner = o
    BY <1>1, <2>4, <2>5 DEF HoldInv, UniqueInv, GrantsUnique
  <2>7. a < AddrAt(counter)
    BY <1>1, <2>4 DEF TypeInv, Below
  <2>8. \A u \in Threads \ {t} : call[u].at \notin {"idle", "generate"} => call[u].addr # a
    BY <1>1, <2>1, OneCallPerAddress
  <2> HIDE DEF o, a
  <2>9. InFlight'
    BY <2>1, <2>2, <2>3, <2>8 DEF MapInv, MapPart, InFlight
  <2>10. MapGranted'
    BY <2>1, <2>3, <2>6, <2>7 DEF MapInv, MapPart, MapGranted, AddrAt
  <2>11. MapBacked'
    BY <2>1, <2>2, <2>3, <2>4 DEF MapInv, MapPart, MapBacked
  <2>12. QED
    BY <2>1, <2>9, <2>10, <2>11 DEF MapPart
<1>7. CASE Rollback(t)
  <2>1. /\ phase = "running" /\ call[t].at = "rollback" /\ call[t].op = "allocate"
        /\ allocated' = allocated \ {call[t].addr} /\ grants' \subseteq grants
        /\ UNCHANGED <<phase, deviceMap, counter>>
    BY <1>1, <1>7 DEF Rollback, Shaped
  <2>2. /\ \A u \in Threads \ {t} : call'[u] = call[u]
        /\ call'[t].at = "idle"
    BY <1>1, <1>7, ReturnCalls DEF Rollback, NoCall
  <2>3. \A o \in Owners : deviceMap[o] # call[t].addr
    BY <2>1 DEF MapInv, MapPart, InFlight
  <2>4. QED
    BY <2>1, <2>2, <2>3, MapDrop
<1>8. QED
  BY <1>2, <1>3, <1>4, <1>5, <1>6, <1>7 DEF AllocateStep

LEMMA MapInvReuse ==
    ASSUME MapInv, NEW t \in Threads, ReuseStep(t)
    PROVE  MapPart'
<1> USE DEF poolVars, batchVars, cleanupVars, At
<1>1. /\ TypeInv /\ HoldInv
      /\ call \in [Threads -> Call]
      /\ deviceMap \in [Owners -> Pool \cup {None}]
      /\ Pool \subseteq Int /\ None \notin Pool
      /\ \A u \in Threads : Shaped(call[u])
  BY MapTypes
<1>2. ASSUME NEW op \in {"ensure", "remove", "release"}, NEW step, Reuse(t, op, step)
      PROVE  MapPart'
  BY <1>1, <1>2, MapQuiet DEF Reuse
<1>3. CASE DeleteEntry(t) \/ DeleteFails(t) \/ Forget(t)
  <2>1. /\ phase = "running" /\ call[t].at \in {"delete", "forget"}
        /\ UNCHANGED <<phase, deviceMap, allocated, counter, grants>>
        /\ Goto(t, "forget") \/ Goto(t, "unallocate") \/ Return(t)
    BY <1>3 DEF DeleteEntry, DeleteFails, Forget
  <2>2. /\ \A u \in Threads \ {t} : call'[u] = call[u]
        /\ \/ call'[t].at = "idle"
           \/ call'[t].op = call[t].op /\ call'[t].addr = call[t].addr
    BY <1>1, <2>1, GotoCalls, ReturnCalls, StepNames DEF NoCall
  <2>3. QED
    BY <2>1, <2>2, MapQuiet
<1>4. CASE Unallocate(t)
  <2>1. /\ phase = "running" /\ call[t].at = "unallocate" /\ call[t].op = "release"
        /\ allocated' = allocated \ {call[t].addr}
        /\ UNCHANGED <<phase, deviceMap, counter, grants>>
        /\ call[t].addr \in Pool
    BY <1>1, <1>4 DEF Unallocate, Shaped
  <2>2. /\ \A u \in Threads \ {t} : call'[u] = call[u]
        /\ call'[t].at = "unmap" /\ call'[t].op = "release"
        /\ call'[t].owner = call[t].owner
    BY <1>1, <1>4, <2>1, GotoCalls, StepNames DEF Unallocate
  <2>3. \A o \in Owners : deviceMap[o] = call[t].addr => call[t].owner = o
    <3>1. GrantOf(t) \in grants
      BY <1>1, <2>1 DEF HoldInv, Holding
    <3>2. GrantOf(t).owner = call[t].owner /\ GrantOf(t).addr = call[t].addr
      BY DEF GrantOf
    <3>3. QED
      BY <1>1, <2>1, <3>1, <3>2 DEF MapInv, MapPart, MapGranted
  <2>4. QED
    BY <2>1, <2>2, <2>3, MapDrop
<1>5. CASE Unmap(t)
  <2> DEFINE o == call[t].owner
  <2>1. /\ phase = "running" /\ call[t].at = "unmap" /\ o \in Owners
        /\ deviceMap' = [deviceMap EXCEPT ![o] = None]
        /\ grants' \subseteq grants
        /\ UNCHANGED <<phase, allocated, counter>>
    BY <1>1, <1>5 DEF Unmap, Shaped
  <2>2. /\ \A u \in Threads \ {t} : call'[u] = call[u]
        /\ call'[t].at = "idle"
    BY <1>1, <1>5, ReturnCalls DEF Unmap, NoCall
  <2>3. \A p \in Owners : deviceMap'[p] = IF p = o THEN None ELSE deviceMap[p]
    BY <1>1, <2>1
  <2>4. \A u \in Threads : call[u].at \notin {"idle", "generate"} => call[u].addr # None
    BY <1>1 DEF Shaped
  <2>5. InFlight'
    BY <2>1, <2>2, <2>3, <2>4 DEF MapInv, MapPart, InFlight
  <2>6. MapGranted'
    BY <2>1, <2>3 DEF MapInv, MapPart, MapGranted, AddrAt
  <2>7. MapBacked'
    BY <2>1, <2>2, <2>3 DEF MapInv, MapPart, MapBacked
  <2>8. QED
    BY <2>1, <2>5, <2>6, <2>7 DEF MapPart
<1>6. QED
  BY <1>2, <1>3, <1>4, <1>5 DEF ReuseStep, Ensure, Remove, Release

LEMMA MapInvNext == MapInv /\ [Next]_vars => MapInv'
<1> SUFFICES ASSUME MapInv, [Next]_vars PROVE MapPart'
  BY HoldInvNext DEF MapInv
<1> USE DEF poolVars, batchVars, cleanupVars
<1>1. ASSUME UNCHANGED <<deviceMap, allocated, counter, grants, call>>,
             phase' # "running", phase' # "stopped"
      PROVE  MapPart'
  BY <1>1 DEF MapInv, MapPart, InFlight, MapGranted, MapBacked, AddrAt
<1>2. CASE Boot
  BY <1>2 DEF Boot, MapInv, MapPart, InFlight, MapGranted, MapBacked, AddrAt
<1>3. CASE Crash \/ FinishCleanup
  BY <1>3 DEF Crash, FinishCleanup, EndProcess, MapPart, InFlight, MapGranted,
     MapBacked, NoCall
<1>4. ASSUME NEW t \in Threads, BatchStep(t) PROVE MapPart'
  BY <1>4 DEF BatchStep, TakeDelay, SetAddOptions, MapInv, MapPart, InFlight,
     MapGranted, MapBacked, AddrAt
<1>5. CASE CleanupStep
  BY <1>1, <1>3, <1>5 DEF CleanupStep, SnapshotLists, ScanInterface, ScanFails,
     RemoveOne, RemoveOneFails
<1>6. CASE UNCHANGED vars
  BY <1>6 DEF vars, MapInv, MapPart, InFlight, MapGranted, MapBacked, AddrAt
<1>7. QED
  BY <1>2, <1>3, <1>4, <1>5, <1>6, MapInvAllocate, MapInvReuse DEF Next

(* A name the map knows leads to an allocated address, through every       *)
(* interleaving of allocations, failures and releases of the same owner    *)
(* (add_device_ipv6_mapping, ipv6_release_address).                        *)
THEOREM MapIsBacked == Spec => []MapBacked
<1>1. Init => MapInv
  BY HoldInvInit DEF Init, MapInv, MapPart, InFlight, MapGranted, MapBacked, NoCall
<1>2. MapInv => MapBacked
  BY DEF MapInv, MapPart
<1>3. QED
  BY <1>1, <1>2, MapInvNext, PTL DEF Spec
==============================================================================
