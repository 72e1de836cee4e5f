------------------------- MODULE VariableWriteProofs -------------------------
(***************************************************************************)
(* Proofs about VariableWrite, for a variable of any width and any values. *)
(***************************************************************************)
EXTENDS VariableWrite, TLAPS

(* A callback has the mutex from its lookup on, knows its value then, has  *)
(* a register in hand just while it writes, and what it has written so far *)
(* is at the slave, unless the slave has moved on.                         *)
Critical == {"find", "word", "cache"}
Exclusive(t) == pc[t] \in Critical => mutex = t
Placed(t) == IF pc[t] = "word" THEN place[t] \in Places ELSE place[t] = 0
HasValue(t) ==
    /\ pc[t] \in {"word", "cache"} => want[t] \in Words
    /\ t = Client /\ pc[t] \in {"check", "lock", "find"} => want[t] \in Words
Written(t) ==
    pc[t] = "word" => \/ moved
                      \/ \A i \in Places : i < place[t] => regs[i] = want[t][i]
Stored(t) == pc[t] = "cache" => regs = want[t] \/ moved
Shape(t) == Exclusive(t) /\ Placed(t) /\ HasValue(t) /\ Written(t) /\ Stored(t)
HasRead == pc[Poller] = "store" => buf \in Words
Inv == TypeOK /\ HasRead /\ \A t \in Threads : Shape(t)

LEMMA WholeWord == \A v \in Value : Whole(v) \in Words
  BY DEF Whole, Words

(* Only one thread is past the mutex. *)
LEMMA OneInside ==
    ASSUME Inv, NEW t \in Threads, NEW u \in Threads, u # t, pc[t] \in Critical
    PROVE  pc[u] \notin Critical
  BY DEF Inv, Shape, Exclusive

LEMMA InitInv == Init => Inv
<1> SUFFICES ASSUME Init PROVE Inv
  OBVIOUS
<1>1. regs \in Words /\ cached \in Words
  BY WholeWord DEF Init
<1>2. 0 \in 0..Width
  BY WidthAssumption
<1>3. TypeOK
  BY <1>1, <1>2 DEF Init, TypeOK, CallSteps, PollSteps
<1>4. ASSUME NEW t \in Threads PROVE Shape(t)
  BY <1>4, ThreadAssumption
  DEF Init, Shape, Exclusive, Placed, HasValue, Written, Stored, Critical, Threads
<1>5. HasRead
  BY ThreadAssumption DEF Init, HasRead, Threads
<1>6. QED
  BY <1>3, <1>4, <1>5 DEF Inv

(* A thread another one's step leaves where it was, with its value, its    *)
(* register and the mutex, keeps its shape while the registers stay.       *)
LEMMA Untouched ==
    ASSUME Inv, NEW u \in Threads,
           pc'[u] = pc[u], want'[u] = want[u], place'[u] = place[u],
           \/ pc[u] \notin Critical
           \/ mutex' = mutex /\ (moved' \/ (regs' = regs /\ moved' = moved))
    PROVE  Shape(u)'
  BY DEF Inv, Shape, Exclusive, Placed, HasValue, Written, Stored, Critical

LEMMA SlaveStep ==
    ASSUME Inv, NEW v \in Value, SlaveChanges(v)
    PROVE  Inv'
<1> USE DEF SlaveChanges, callVars
<1>1. TypeOK'
  BY WholeWord DEF Inv, TypeOK
<1>2. HasRead'
  BY DEF Inv, HasRead
<1>3. ASSUME NEW u \in Threads PROVE Shape(u)'
  BY <1>3, Untouched
<1>4. QED
  BY <1>1, <1>2, <1>3 DEF Inv

LEMMA PollStepInv ==
    ASSUME Inv, PollStep
    PROVE  Inv'
<1> USE DEF callVars, slaveHistory
<1>1. /\ pc' \in [Threads -> CallSteps \cup PollSteps \cup {"idle"}]
      /\ pc[Poller] \notin CallSteps /\ pc'[Client] = pc[Client]
      /\ pc'[Poller] \in PollSteps \cup {"check"}
  BY ThreadAssumption
  DEF PollStep, PollRead, PollStore, BeginUpdate, EndUpdate, KeepNode, DeleteNode,
      CreateNode, Poll, Inv, TypeOK, CallSteps, PollSteps, Threads
<1>2. /\ UNCHANGED <<regs, mutex, want, place, reply, moved, broken, reached>>
      /\ exists' \in BOOLEAN /\ updating' \in BOOLEAN
  BY DEF PollStep, PollRead, PollStore, BeginUpdate, EndUpdate, KeepNode, DeleteNode,
      CreateNode, Inv, TypeOK
<1>3. /\ cached' \in Words /\ buf' \in Words \cup {None}
      /\ pc'[Poller] = "store" => buf' \in Words
  BY DEF PollStep, PollRead, PollStore, BeginUpdate, EndUpdate, KeepNode, DeleteNode,
      CreateNode, Poll, Inv, TypeOK, HasRead, Threads
<1>4. TypeOK'
  BY <1>1, <1>2, <1>3 DEF Inv, TypeOK
<1>5. HasRead'
  BY <1>3 DEF HasRead
<1>6. Shape(Client)'
  BY <1>1, <1>2, Untouched DEF Threads
<1>7. Shape(Poller)'
  BY <1>1, <1>2, ThreadAssumption
  DEF Inv, Shape, Exclusive, Placed, HasValue, Written, Stored, Critical, Threads,
      CallSteps, PollSteps
<1>8. QED
  BY <1>4, <1>5, <1>6, <1>7 DEF Inv, Threads

LEMMA ClientWritesInv ==
    ASSUME Inv, NEW v \in Value, ClientWrites(v)
    PROVE  Inv'
<1> USE DEF ClientWrites, Go, slaveHistory
<1>1. TypeOK'
  BY WholeWord DEF Inv, TypeOK, Threads, CallSteps
<1>2. HasRead'
  BY ThreadAssumption DEF Inv, HasRead, TypeOK, Threads
<1>3. Shape(Poller)'
  BY Untouched, ThreadAssumption DEF Inv, TypeOK, Threads
<1>4. Shape(Client)'
  BY WholeWord
  DEF Inv, TypeOK, Shape, Exclusive, Placed, HasValue, Written, Stored, Critical, Threads
<1>5. QED
  BY <1>1, <1>2, <1>3, <1>4 DEF Inv, Threads

-----------------------------------------------------------------------------
(* What the steps of a callback have in common. *)
LEMMA CallbackFrame ==
    ASSUME Inv, NEW t \in Threads, Callback(t)
    PROVE  /\ pc' \in [Threads -> CallSteps \cup PollSteps \cup {"idle"}]
           /\ pc'[t] # "store"
           /\ \A u \in Threads \ {t} :
                 pc'[u] = pc[u] /\ want'[u] = want[u] /\ place'[u] = place[u]
           /\ UNCHANGED <<buf, exists, updating>>
<1> USE DEF callVars, slaveHistory
<1>1. /\ pc' = [pc EXCEPT ![t] = pc'[t]]
      /\ pc'[t] \in CallSteps \cup {"read", "idle"}
  BY DEF Callback, SkipWrite, EnterCallback, Lock, Find, Reject, WriteWord, WriteLastWord,
         WriteFails, CacheValue, Go, After, Inv, TypeOK, CallSteps
<1>2. \A u \in Threads \ {t} : want'[u] = want[u] /\ place'[u] = place[u]
  BY DEF Callback, SkipWrite, EnterCallback, Lock, Find, Reject, WriteWord, WriteLastWord,
         WriteFails, CacheValue, Fail, Answer, Inv, TypeOK
<1>3. UNCHANGED <<buf, exists, updating>>
  BY DEF Callback, SkipWrite, EnterCallback, Lock, Find, Reject, WriteWord, WriteLastWord,
         WriteFails, CacheValue, Fail
<1>4. QED
  BY <1>1, <1>2, <1>3 DEF Inv, TypeOK, CallSteps, PollSteps

(* The register in hand takes its value. *)
LEMMA PutWord ==
    ASSUME Inv, NEW t \in Threads, pc[t] = "word"
    PROVE  /\ place[t] \in Places /\ want[t] \in Words /\ regs \in Words
           /\ Put(t) \in Words
           /\ \A i \in Places : Put(t)[i] = IF i = place[t] THEN want[t][i] ELSE regs[i]
<1>1. place[t] \in Places /\ want[t] \in Words /\ regs \in Words
  BY DEF Inv, TypeOK, Shape, Placed, HasValue
<1>2. QED
  BY <1>1 DEF Put, Words

LEMMA CallbackTypes ==
    ASSUME Inv, NEW t \in Threads, Callback(t)
    PROVE  TypeOK' /\ HasRead'
<1> USE DEF callVars, slaveHistory
<1>1. /\ pc' \in [Threads -> CallSteps \cup PollSteps \cup {"idle"}]
      /\ UNCHANGED <<buf, exists, updating>>
  BY CallbackFrame
<1>2. HasRead'
  BY <1>1, CallbackFrame DEF Inv, HasRead, Threads
<1>3. regs' \in Words
  BY PutWord
  DEF Callback, SkipWrite, EnterCallback, Lock, Find, Reject, WriteWord, WriteLastWord,
      WriteFails, CacheValue, Go, Inv, TypeOK
<1>4. cached' \in Words /\ mutex' \in Threads \cup {Free}
  BY DEF Callback, SkipWrite, EnterCallback, Lock, Find, Reject, WriteWord, WriteLastWord,
      WriteFails, CacheValue, Fail, Go, Inv, TypeOK, Shape, HasValue
<1>5. want' \in [Threads -> Words \cup {None}]
  BY DEF Callback, SkipWrite, EnterCallback, Lock, Find, Reject, WriteWord, WriteLastWord,
      WriteFails, CacheValue, Fail, Answer, Inv, TypeOK
<1>6. place' \in [Threads -> 0..Width]
  <2>1. 0 \in 0..Width /\ 1 \in 0..Width
    BY WidthAssumption
  <2>2. place[t] \in 0..Width /\ (place[t] < Width => place[t] + 1 \in 0..Width)
    BY WidthAssumption DEF Inv, TypeOK
  <2>3. QED
    BY <2>1, <2>2
    DEF Callback, SkipWrite, EnterCallback, Lock, Find, Reject, WriteWord, WriteLastWord,
        WriteFails, CacheValue, Fail, Answer, Inv, TypeOK
<1>7. /\ reply' \in {"none", "good", "bad"} /\ reached' \in BOOLEAN
      /\ moved' \in BOOLEAN /\ broken' \in BOOLEAN
  BY DEF Callback, SkipWrite, EnterCallback, Lock, Find, Reject, WriteWord, WriteLastWord,
         WriteFails, CacheValue, Fail, Answer, Inv, TypeOK
<1>8. TypeOK'
  BY <1>1, <1>3, <1>4, <1>5, <1>6, <1>7 DEF Inv, TypeOK
<1>9. QED
  BY <1>2, <1>8

(* The other thread: outside the mutex, or untouched. *)
LEMMA OtherKeepsShape ==
    ASSUME Inv, NEW t \in Threads, Callback(t), NEW u \in Threads, u # t
    PROVE  Shape(u)'
<1> USE DEF callVars, slaveHistory
<1>1. pc'[u] = pc[u] /\ want'[u] = want[u] /\ place'[u] = place[u]
  BY CallbackFrame
<1>2. \/ pc[t] \in Critical
      \/ mutex = Free
      \/ mutex' = mutex /\ regs' = regs /\ moved' = moved
  BY DEF Callback, SkipWrite, EnterCallback, Lock, Find, Reject, WriteWord, WriteLastWord,
         WriteFails, CacheValue, Go, Critical
<1>3. ASSUME pc[t] \in Critical \/ mutex = Free PROVE pc[u] \notin Critical
  BY <1>3, OneInside, ThreadAssumption DEF Inv, Shape, Exclusive
<1>4. QED
  BY <1>1, <1>2, <1>3, Untouched

(* The thread itself, step by step. *)
LEMMA OwnKeepsShape ==
    ASSUME Inv, NEW t \in Threads, Callback(t)
    PROVE  Shape(t)'
<1> USE DEF callVars, slaveHistory
<1>1. TypeOK /\ Shape(t) /\ TypeOK'
  BY CallbackTypes DEF Inv
<1>2. CASE SkipWrite(t) \/ Reject(t) \/ WriteFails(t) \/ CacheValue(t)
  <2>1. pc'[t] = After(t) /\ place'[t] = 0
    BY <1>1, <1>2 DEF SkipWrite, Reject, WriteFails, CacheValue, Fail, Answer, Go, TypeOK
  <2>2. QED
    BY <2>1 DEF After, Shape, Exclusive, Placed, HasValue, Written, Stored, Critical
<1>3. CASE EnterCallback(t)
  BY <1>1, <1>3
  DEF EnterCallback, Go, TypeOK, Shape, Exclusive, Placed, HasValue, Written, Stored, Critical
<1>4. CASE Lock(t)
  BY <1>1, <1>4
  DEF Lock, Go, TypeOK, Shape, Exclusive, Placed, HasValue, Written, Stored, Critical
<1>5. CASE Find(t)
  <2>1. pc'[t] = "word" /\ place'[t] = 1 /\ mutex' = t
    BY <1>1, <1>5 DEF Find, Go, TypeOK, Shape, Exclusive, Critical
  <2>2. want'[t] \in Words
    BY <1>1, <1>5 DEF Find, Go, TypeOK, Shape, HasValue, Threads
  <2>3. 1 \in Places /\ \A i \in Places : ~(i < 1)
    BY WidthAssumption DEF Places
  <2>4. QED
    BY <2>1, <2>2, <2>3
    DEF Shape, Exclusive, Placed, HasValue, Written, Stored, Critical
<1>6. CASE WriteWord(t)
  <2>1. /\ pc[t] = "word" /\ pc'[t] = "word" /\ mutex' = t /\ want' = want
        /\ place'[t] = place[t] + 1 /\ regs' = Put(t) /\ moved' = moved
        /\ place[t] < Width
    BY <1>1, <1>6 DEF WriteWord, Go, TypeOK, Shape, Exclusive, Critical
  <2>2. place[t] \in Places /\ place[t] + 1 \in Places
    BY <2>1, PutWord, WidthAssumption DEF Places
  <2>3. ~moved => \A i \in Places : i < place[t] + 1 => regs'[i] = want[t][i]
    BY <1>1, <2>1, <2>2, PutWord DEF Shape, Written, Places
  <2>4. QED
    BY <1>1, <2>1, <2>2, <2>3
    DEF Shape, Exclusive, Placed, HasValue, Written, Stored, Critical
<1>7. CASE WriteLastWord(t)
  <2>1. /\ pc[t] = "word" /\ pc'[t] = "cache" /\ mutex' = t /\ want' = want
        /\ place'[t] = 0 /\ regs' = Put(t) /\ moved' = moved /\ place[t] = Width
    BY <1>1, <1>7 DEF WriteLastWord, Go, TypeOK, Shape, Exclusive, Critical
  <2>2. ~moved => \A i \in Places : Put(t)[i] = want[t][i]
    BY <1>1, <2>1, PutWord, WidthAssumption DEF Shape, Written, Places
  <2>3. ~moved => regs' = want[t]
    BY <2>1, <2>2, PutWord DEF Words
  <2>4. QED
    BY <1>1, <2>1, <2>3
    DEF Shape, Exclusive, Placed, HasValue, Written, Stored, Critical
<1>8. QED
  BY <1>2, <1>3, <1>4, <1>5, <1>6, <1>7 DEF Callback

LEMMA StepInv == Inv /\ [Next]_vars => Inv'
<1> SUFFICES ASSUME Inv, [Next]_vars PROVE Inv'
  OBVIOUS
<1>1. ASSUME NEW v \in Value, SlaveChanges(v) PROVE Inv'
  BY <1>1, SlaveStep
<1>2. ASSUME NEW v \in Value, ClientWrites(v) PROVE Inv'
  BY <1>2, ClientWritesInv
<1>3. ASSUME NEW t \in Threads, Callback(t) PROVE Inv'
  <2>1. Shape(t)' /\ \A u \in Threads \ {t} : Shape(u)'
    BY <1>3, OwnKeepsShape, OtherKeepsShape
  <2>2. QED
    BY <1>3, <2>1, CallbackTypes DEF Inv
<1>4. CASE PollStep
  BY <1>4, PollStepInv
<1>5. CASE UNCHANGED vars
  BY <1>5
  DEF vars, Inv, TypeOK, HasRead, Shape, Exclusive, Placed, HasValue, Written, Stored
<1>6. QED
  BY <1>1, <1>2, <1>3, <1>4, <1>5 DEF Next

LEMMA AlwaysInv == Spec => []Inv
  BY InitInv, StepInv, PTL DEF Spec

-----------------------------------------------------------------------------
(* Every step of the poller and of the callbacks keeps to the types. *)
THEOREM WriteTypeCorrect == Spec => []TypeOK
<1>1. Inv => TypeOK
  BY DEF Inv
<1>2. QED
  BY <1>1, AlwaysInv, PTL

(* The callbacks of the server's thread and of the poller exclude one      *)
(* another from their lookup to their answer.                              *)
CallbacksExclude == pc[Client] \in Critical => pc[Poller] \notin Critical
THEOREM OneCallback == Spec => []CallbacksExclude
<1>1. Inv => CallbacksExclude
  BY OneInside, ThreadAssumption DEF CallbacksExclude, Threads
<1>2. QED
  BY <1>1, AlwaysInv, PTL

(* A callback that is about to report success has all of its value's       *)
(* registers at the slave, whatever the width, unless the slave has        *)
(* changed them since.                                                     *)
THEOREM SuccessStored == Spec => []SuccessIsStored
<1>1. Inv => SuccessIsStored
  BY DEF Inv, Shape, Stored, SuccessIsStored
<1>2. QED
  BY <1>1, AlwaysInv, PTL

-----------------------------------------------------------------------------
(* For the registers to belong together it takes, too, that a callback     *)
(* between them is writing a whole value over them, or the history says    *)
(* that it is not.                                                         *)
Between(t) ==
    place[t] > 1 => \/ broken
                    \/ /\ IsWhole(want[t])
                       /\ \A i \in Places : i < place[t] => regs[i] = want[t][i]
TogetherInv == Inv /\ WordsTogether /\ \A t \in Threads : Between(t)

LEMMA InitTogether == Init => TogetherInv
<1> SUFFICES ASSUME Init PROVE TogetherInv
  OBVIOUS
<1>1. WordsTogether
  BY DEF Init, WordsTogether, IsWhole
<1>2. ASSUME NEW t \in Threads PROVE Between(t)
  BY DEF Init, Between
<1>3. QED
  BY <1>1, <1>2, InitInv DEF TogetherInv

(* Nothing between the registers but in a word's step. *)
LEMMA NotBetween ==
    ASSUME Inv, NEW t \in Threads, pc[t] # "word"
    PROVE  place[t] = 0
  BY DEF Inv, Shape, Placed

(* Steps that leave the registers and the history alone, and have no       *)
(* thread in between that was not.                                         *)
LEMMA QuietStep ==
    ASSUME TogetherInv, Inv', regs' = regs, broken' = broken,
           \A t \in Threads : \/ place'[t] = place[t] /\ want'[t] = want[t]
                              \/ place[t] = 0 /\ place'[t] \in {0, 1}
    PROVE  TogetherInv'
<1>1. \A t \in Threads : place[t] > 1 <=> place'[t] > 1
  OBVIOUS
<1>2. WordsTogether'
  BY <1>1 DEF TogetherInv, WordsTogether
<1>3. ASSUME NEW t \in Threads PROVE Between(t)'
  BY <1>1 DEF TogetherInv, Between
<1>4. QED
  BY <1>2, <1>3 DEF TogetherInv

LEMMA TogetherSlave ==
    ASSUME TogetherInv, Inv', NEW v \in Value, SlaveChanges(v)
    PROVE  TogetherInv'
<1> USE DEF SlaveChanges, callVars
<1>1. WordsTogether'
  BY DEF WordsTogether, IsWhole
<1>2. ASSUME NEW t \in Threads PROVE Between(t)'
  BY DEF Between
<1>3. QED
  BY <1>1, <1>2 DEF TogetherInv

LEMMA TogetherPoll ==
    ASSUME TogetherInv, Inv', PollStep
    PROVE  TogetherInv'
<1> USE DEF callVars, slaveHistory
<1>1. UNCHANGED <<regs, broken, place, want>>
  BY DEF PollStep, PollRead, PollStore, BeginUpdate, EndUpdate, KeepNode, DeleteNode,
         CreateNode
<1>2. QED
  BY <1>1, QuietStep

LEMMA TogetherClient ==
    ASSUME TogetherInv, Inv', NEW v \in Value, ClientWrites(v)
    PROVE  TogetherInv'
<1> USE DEF ClientWrites, Go, slaveHistory
<1>1. place[Client] = 0 /\ place'= place
  BY NotBetween DEF TogetherInv, Threads
<1>2. \A t \in Threads \ {Client} : want'[t] = want[t]
  BY DEF TogetherInv, Inv, TypeOK
<1>3. regs' = regs /\ broken' = broken
  OBVIOUS
<1>4. \A t \in Threads : \/ place'[t] = place[t] /\ want'[t] = want[t]
                         \/ place[t] = 0 /\ place'[t] \in {0, 1}
  BY <1>1, <1>2
<1>5. QED
  BY <1>3, <1>4, QuietStep

(* While one thread is past the mutex the other has no register in hand.   *)
LEMMA OtherAtZero ==
    ASSUME Inv, NEW t \in Threads, pc[t] \in Critical
    PROVE  \A u \in Threads \ {t} : place[u] = 0
  BY OneInside, NotBetween DEF Critical

LEMMA TogetherCallback ==
    ASSUME TogetherInv, Inv', NEW t \in Threads, Callback(t)
    PROVE  TogetherInv'
<1> USE DEF callVars, slaveHistory
<1>1. Inv /\ TypeOK
  BY DEF TogetherInv, Inv
<1>2. \A u \in Threads \ {t} : place'[u] = place[u] /\ want'[u] = want[u]
  BY <1>1, CallbackFrame
<1>3. CASE \/ SkipWrite(t) \/ EnterCallback(t) \/ Lock(t) \/ Find(t) \/ Reject(t)
           \/ CacheValue(t)
  <2>1. regs' = regs /\ broken' = broken /\ pc[t] # "word"
    BY <1>3 DEF SkipWrite, EnterCallback, Lock, Find, Reject, CacheValue, Go
  <2>2. place[t] = 0 /\ place'[t] \in {0, 1}
    BY <1>1, <1>3, <2>1, NotBetween
    DEF SkipWrite, EnterCallback, Lock, Find, Reject, CacheValue, Fail, Answer, TypeOK
  <2>3. QED
    <3>1. \A u \in Threads : \/ place'[u] = place[u] /\ want'[u] = want[u]
                             \/ place[u] = 0 /\ place'[u] \in {0, 1}
      BY <1>2, <2>2
    <3>2. QED
      BY <2>1, <3>1, QuietStep
<1>4. CASE WriteFails(t)
  <2>1. broken'
    BY <1>4 DEF WriteFails
  <2>2. QED
    BY <2>1 DEF TogetherInv, WordsTogether, Between
<1>5. CASE WriteWord(t)
  <2>1. /\ pc[t] = "word" /\ place'[t] = place[t] + 1 /\ want' = want /\ regs' = Put(t)
        /\ broken' = (~IsWhole(want[t]) \/ (place[t] > 1 /\ broken))
    BY <1>1, <1>5 DEF WriteWord, Go, TypeOK
  <2>2. place[t] \in Places /\ place[t] \in Nat \ {0} /\ place'[t] > 1
    BY <1>1, <2>1, PutWord, WidthAssumption DEF Places
  <2>3. WordsTogether'
    BY <2>2 DEF WordsTogether
  <2>4. Between(t)'
    <3> SUFFICES ASSUME ~broken'
                 PROVE  /\ IsWhole(want[t])
                        /\ \A i \in Places : i < place[t] + 1 => regs'[i] = want[t][i]
      BY <2>1 DEF Between, IsWhole, Whole
    <3>1. IsWhole(want[t]) /\ (place[t] > 1 => ~broken)
      BY <2>1
    <3>2. \A i \in Places : i < place[t] => regs[i] = want[t][i]
      <4>1. CASE place[t] > 1
        BY <3>1, <4>1 DEF TogetherInv, Between
      <4>2. CASE place[t] = 1
        BY <4>2 DEF Places
      <4>3. QED
        BY <2>2, <4>1, <4>2
    <3>3. \A i \in Places : i < place[t] + 1 => i < place[t] \/ i = place[t]
      BY <2>2 DEF Places
    <3>4. QED
      BY <1>1, <2>1, <3>1, <3>2, <3>3, PutWord
  <2>5. \A u \in Threads \ {t} : Between(u)'
    BY <1>1, <1>2, <2>1, OtherAtZero DEF Between, Critical
  <2>6. QED
    BY <2>3, <2>4, <2>5 DEF TogetherInv
<1>6. CASE WriteLastWord(t)
  <2>1. /\ pc[t] = "word" /\ place[t] = Width /\ place'[t] = 0 /\ want' = want
        /\ regs' = Put(t) /\ broken' = broken
    BY <1>1, <1>6 DEF WriteLastWord, Go, TypeOK
  <2>2. /\ want[t] \in Words /\ Put(t) \in Words
        /\ \A i \in Places : Put(t)[i] = IF i = Width THEN want[t][i] ELSE regs[i]
    BY <1>1, <2>1, PutWord
  <2>3. ASSUME ~broken, Width > 1 PROVE IsWhole(regs')
    <3>1. /\ IsWhole(want[t])
          /\ \A i \in Places : i < Width => regs[i] = want[t][i]
      BY <2>1, <2>3 DEF TogetherInv, Between
    <3>2. \A i \in Places : i < Width \/ i = Width
      BY WidthAssumption DEF Places
    <3>3. \A i \in Places : Put(t)[i] = want[t][i]
      BY <2>2, <3>1, <3>2
    <3>4. regs' = want[t]
      BY <2>1, <2>2, <3>3 DEF Words
    <3>5. QED
      BY <3>1, <3>4
  <2>4. ASSUME Width = 1 PROVE IsWhole(regs')
    <3>1. 1 \in Places /\ \A i \in Places : i = 1
      BY <2>4 DEF Places
    <3>2. regs' \in Words
      BY <2>1, <2>2
    <3>3. regs' = Whole(regs'[1]) /\ regs'[1] \in Value
      BY <3>1, <3>2 DEF Words, Whole
    <3>4. QED
      BY <3>3 DEF IsWhole
  <2>5. WordsTogether'
    BY <2>1, <2>3, <2>4, WidthAssumption DEF WordsTogether
  <2>6. \A u \in Threads : Between(u)'
    BY <1>1, <1>2, <2>1, OtherAtZero DEF Between, Critical
  <2>7. QED
    BY <2>5, <2>6 DEF TogetherInv
<1>7. QED
  BY <1>3, <1>4, <1>5, <1>6 DEF Callback

LEMMA StepTogether == TogetherInv /\ [Next]_vars => TogetherInv'
<1> SUFFICES ASSUME TogetherInv, [Next]_vars PROVE TogetherInv'
  OBVIOUS
<1>1. Inv'
  BY StepInv DEF TogetherInv
<1>2. CASE UNCHANGED vars
  <2>1. UNCHANGED <<regs, broken, place, want>>
    BY <1>2 DEF vars
  <2>2. QED
    BY <1>1, <2>1, QuietStep
<1>3. QED
  BY <1>1, <1>2, TogetherSlave, TogetherPoll, TogetherClient, TogetherCallback DEF Next

(* Writes of more than one register do not mix, whatever the width and     *)
(* however many values: the registers make up one value again when nobody  *)
(* is between them.                                                        *)
THEOREM WordsStayTogether == Spec => []WordsTogether
<1>1. TogetherInv => WordsTogether
  BY DEF TogetherInv
<1>2. QED
  BY <1>1, InitTogether, StepTogether, PTL DEF Spec
=============================================================================
