--------------------------- MODULE ReadPlanProofs ---------------------------
(***************************************************************************)
(* Proofs about ReadPlan: the plan covers what it is for, with as few      *)
(* requests as can be, whatever the variables and the limits of a request. *)
(*                                                                         *)
(* The argument: the current range never outgrows one request, so flushing *)
(* it makes a single block that holds all of it; and as the ranges come in *)
(* the order of their first register, what is merged lies in the current   *)
(* range.  Each range is thus still left, in the current one, or in a      *)
(* block of the plan.                                                      *)
(***************************************************************************)
EXTENDS ReadPlan, FiniteSetTheorems, TLAPS

(* A range that one request can read. *)
Readable(r) ==
    /\ r \in Ranges
    /\ 0 <= r.first /\ r.first <= r.last
    /\ r.last - r.first + 1 <= MaxCount(r.type)

Merging == pc \in {"merge", "flush"}

In(r, s) == r.type = s.type /\ s.first <= r.first /\ r.last <= s.last

Shaped ==
    /\ \A r \in wanted : Readable(r)
    /\ left \subseteq wanted
    /\ Merging => Readable(current)
    /\ Merging => \E r \in wanted : r.type = current.type /\ r.first = current.first
    /\ Merging => \E r \in wanted : r.type = current.type /\ r.last = current.last

(* What is left starts no earlier than the current range. *)
Sorted == Merging =>
    \A r \in left : r.type = current.type => current.first <= r.first

(* A flush is before its only block or behind it. *)
Flushing == pc = "flush" =>
    \/ from = current.first
    \/ /\ from = current.last + 1
       /\ \E i \in DOMAIN plan : Holds(plan[i], current)

Accounted ==
    /\ pc = "collect" => plan = <<>>
    /\ pc = "sort" => left = wanted
    /\ pc = "done" => left = {}
    /\ pc \in {"merge", "flush", "done"} => \A r \in wanted :
           \/ r \in left
           \/ Merging /\ In(r, current)
           \/ \E i \in DOMAIN plan : Holds(plan[i], r)

PlanInv == TypeOK /\ Shaped /\ Sorted /\ Flushing /\ Accounted /\ BlocksFit

-----------------------------------------------------------------------------
(* A type's references begin at its long or its short form, or at one.     *)
LEMMA AddrType ==
    ASSUME NEW type \in Types, NEW ref \in Int
    PROVE  PduAddr(type, ref) \in Int
<1>1. type + 1 \in 1..4
  BY DEF Types
<1>2. Long[type + 1] \in Int /\ Short[type + 1] \in Int
  BY <1>1 DEF Long, Short
<1> QED
  BY <1>2 DEF PduAddr

(* A request of any type reads at least one place. *)
LEMMA CountType ==
    \A type : MaxCount(type) \in Nat /\ MaxCount(type) >= 1
BY LimitAssumption DEF MaxCount

(* The range of a planned variable can be read by one request. *)
LEMMA RangeReadable ==
    ASSUME NEW v \in Variable, Planned(v)
    PROVE  Readable(RangeOf(v))
<1> DEFINE first == PduAddr(v.type, v.ref)
<1>1. v.type \in Types /\ v.ref \in Int
  BY DEF Variable, Planned
<1>2. first \in Int /\ first >= 0
  BY <1>1, AddrType DEF Planned
<1>3. Width(v) \in 1..4 /\ Width(v) <= MaxCount(v.type)
  <2>1. CASE IsBit(v.type)
    BY <2>1, LimitAssumption DEF Width, MaxCount
  <2>2. CASE ~IsBit(v.type)
    <3>1. Width(v) \in {1, 2, 4}
      BY <2>2 DEF Width
    <3> QED
      BY <2>2, <3>1, LimitAssumption DEF MaxCount
  <2> QED
    BY <2>1, <2>2
<1>4. RangeOf(v) = [type |-> v.type, first |-> first, last |-> first + Width(v) - 1]
  BY DEF RangeOf
<1> HIDE DEF first
<1>5. MaxCount(v.type) \in Nat
  BY CountType
<1> QED
  BY <1>1, <1>2, <1>3, <1>4, <1>5 DEF Readable, Ranges

(* Of the ranges of one type, the one taken starts first. *)
LEMMA LeastFirst ==
    ASSUME NEW some \in SUBSET Ranges, NEW r \in Ranges, Least(r, some),
           NEW s \in some, s.type = r.type
    PROVE  r.first <= s.first
<1>1. s \in Ranges /\ Before(r, s)
  BY DEF Least
<1> QED
  BY <1>1 DEF Before, Ranges, Types

(* A block stays where it is when another is appended. *)
LEMMA AppendKeeps ==
    ASSUME NEW S, NEW s \in Seq(S), NEW e \in S
    PROVE  /\ Append(s, e) \in Seq(S)
           /\ DOMAIN Append(s, e) = DOMAIN s \cup {Len(s) + 1}
           /\ \A i \in DOMAIN s : Append(s, e)[i] = s[i]
           /\ Append(s, e)[Len(s) + 1] = e
           /\ Len(s) + 1 \in DOMAIN Append(s, e)
OBVIOUS

-----------------------------------------------------------------------------
LEMMA InitPlanInv == Init => PlanInv
<1> SUFFICES ASSUME Init PROVE PlanInv
  OBVIOUS
<1>1. PICK input \in Inputs :
        wanted = {RangeOf(v) : v \in {u \in input : Planned(u)}}
  BY DEF Init
<1>2. \A r \in wanted : Readable(r)
  BY <1>1, RangeReadable, InputAssumption
<1>3. wanted \subseteq Ranges
  BY <1>2 DEF Readable
<1>4. TypeOK
  BY <1>3 DEF Init, TypeOK
<1>5. Shaped
  BY <1>2 DEF Init, Shaped, Merging
<1>6. Sorted /\ Flushing /\ Accounted /\ BlocksFit
  BY DEF Init, Sorted, Flushing, Accounted, BlocksFit, Merging
<1> QED
  BY <1>4, <1>5, <1>6 DEF PlanInv

(* Taking a range when none is being merged: the first, or the next after  *)
(* a flush has put the one before into the plan.                           *)
LEMMA TakeKeeps ==
    ASSUME PlanInv, UNCHANGED <<wanted, plan>>, pc' = "merge", from' \in Nat,
           NEW r \in left, Least(r, left), current' = r, left' = left \ {r},
           \A w \in wanted : \/ w \in left
                             \/ \E i \in DOMAIN plan : Holds(plan[i], w)
    PROVE  PlanInv'
<1>1. r \in wanted /\ Readable(r) /\ r \in Ranges /\ left \in SUBSET Ranges
  BY DEF PlanInv, Shaped, Readable, TypeOK
<1>2. TypeOK'
  BY <1>1 DEF PlanInv, TypeOK
<1>3. Shaped'
  BY <1>1 DEF PlanInv, Shaped, Merging, Readable
<1>4. Sorted'
  BY <1>1, LeastFirst DEF Sorted, Merging
<1>5. Flushing'
  BY DEF Flushing
<1>6. In(r, r)
  BY <1>1 DEF In, Readable, Ranges
<1>7. Accounted'
  BY <1>6 DEF Accounted, Merging, In
<1>8. BlocksFit'
  BY DEF PlanInv, BlocksFit
<1> QED
  BY <1>2, <1>3, <1>4, <1>5, <1>7, <1>8 DEF PlanInv

(* The flush of a current range writes one block, and it holds the range.  *)
LEMMA FlushKeeps == PlanInv /\ FlushBlock => PlanInv'
<1> SUFFICES ASSUME PlanInv, FlushBlock PROVE PlanInv'
  OBVIOUS
<1> DEFINE most == MaxCount(current.type)
           size == current.last - current.first + 1
           block == [type |-> current.type, start |-> from, count |-> size]
<1>1. pc = "flush" /\ pc' = pc /\ wanted' = wanted /\ left' = left /\ current' = current
  BY DEF FlushBlock
<1>2. Readable(current) /\ current \in Ranges
  BY <1>1 DEF PlanInv, Shaped, Merging, Readable
<1>3. current.type \in Types /\ current.first \in Int /\ current.last \in Int
  BY <1>2 DEF Ranges
<1>4. most \in Nat /\ size \in 1..most /\ current.first \in Nat
  BY <1>2, <1>3, CountType DEF Readable
<1>5. from = current.first
  BY <1>1, <1>3 DEF PlanInv, Flushing, FlushBlock
<1>6. plan' = Append(plan, block) /\ from' = from + size
  BY <1>3, <1>4, <1>5 DEF FlushBlock
<1>7. from' = current.last + 1 /\ from' \in Nat
  BY <1>3, <1>4, <1>5, <1>6
<1>8. block \in Blocks /\ plan \in Seq(Blocks)
  BY <1>3, <1>4, <1>5 DEF Blocks, PlanInv, TypeOK
<1>9. block.type = current.type /\ block.start = current.first /\ block.count = size
      /\ BlockLast(block) = current.last
  BY <1>3, <1>5 DEF BlockLast
<1> HIDE DEF most, size, block
<1>10. /\ plan' \in Seq(Blocks)
       /\ DOMAIN plan' = DOMAIN plan \cup {Len(plan) + 1}
       /\ \A i \in DOMAIN plan : plan'[i] = plan[i]
       /\ plan'[Len(plan) + 1] = block
  BY <1>6, <1>8, AppendKeeps
<1>11. \A r : (\E i \in DOMAIN plan : Holds(plan[i], r))
              => \E i \in DOMAIN plan' : Holds(plan'[i], r)
  BY <1>10
<1>12. Holds(block, current)
  BY <1>3, <1>9 DEF Holds
<1>13. \E i \in DOMAIN plan' : Holds(plan'[i], current)
  BY <1>10, <1>12
<1>14. TypeOK'
  BY <1>1, <1>7, <1>10 DEF PlanInv, TypeOK
<1>15. Shaped' /\ Sorted'
  BY <1>1 DEF PlanInv, Shaped, Sorted, Merging
<1>16. Flushing'
  BY <1>1, <1>7, <1>13 DEF Flushing
<1>17. Accounted'
  BY <1>1, <1>11 DEF PlanInv, Accounted, Merging
<1>18. BlocksFit'
  <2> SUFFICES ASSUME NEW i \in DOMAIN plan'
               PROVE  /\ plan'[i].count \in 1..MaxCount(plan'[i].type)
                      /\ \E r \in wanted : r.type = plan'[i].type /\ r.first = plan'[i].start
                      /\ \E r \in wanted : r.type = plan'[i].type /\ r.last = BlockLast(plan'[i])
    BY <1>1 DEF BlocksFit
  <2>1. CASE i \in DOMAIN plan
    BY <2>1, <1>10 DEF PlanInv, BlocksFit
  <2>2. CASE i = Len(plan) + 1
    <3>1. plan'[i] = block
      BY <2>2, <1>10
    <3>2. block.count \in 1..MaxCount(block.type)
      BY <1>4, <1>9 DEF most
    <3>3. \E r \in wanted : r.type = block.type /\ r.first = block.start
      BY <1>1, <1>9 DEF PlanInv, Shaped, Merging
    <3>4. \E r \in wanted : r.type = block.type /\ r.last = BlockLast(block)
      BY <1>1, <1>9 DEF PlanInv, Shaped, Merging
    <3> QED
      BY <3>1, <3>2, <3>3, <3>4
  <2> QED
    BY <2>1, <2>2, <1>10
<1> QED
  BY <1>14, <1>15, <1>16, <1>17, <1>18 DEF PlanInv

(* The merged range is the current one made longer, within a request.      *)
LEMMA MergeKeeps == PlanInv /\ Merge => PlanInv'
<1> SUFFICES ASSUME PlanInv, Merge PROVE PlanInv'
  OBVIOUS
<1>1. pc = "merge" /\ pc' = pc /\ wanted' = wanted /\ from' = from /\ plan' = plan
  BY DEF Merge
<1>2. PICK r \in left :
        /\ Least(r, left) /\ Fits(r)
        /\ current' = IF r.last > current.last THEN [current EXCEPT !.last = r.last]
                                               ELSE current
        /\ left' = left \ {r}
  BY DEF Merge
<1>3. r \in wanted /\ r \in Ranges /\ current \in Ranges /\ Readable(r) /\ Readable(current)
  BY <1>1 DEF PlanInv, Shaped, Readable, Merging
<1>4. current.first <= r.first /\ r.type = current.type
  BY <1>1, <1>2 DEF PlanInv, Sorted, Merging, Fits
<1>5. /\ current' \in Ranges
      /\ current'.type = current.type /\ current'.first = current.first
      /\ current'.last \in {r.last, current.last}
      /\ r.last <= current'.last /\ current.last <= current'.last
  BY <1>2, <1>3 DEF Ranges
<1>6. Readable(current')
  <2>1. r.last - current.first + 1 <= MaxCount(current.type)
    BY <1>2 DEF Fits
  <2>2. MaxCount(current.type) \in Nat
    BY CountType
  <2> QED
    BY <2>1, <2>2, <1>3, <1>4, <1>5 DEF Readable, Ranges
<1>7. TypeOK'
  BY <1>1, <1>2, <1>5 DEF PlanInv, TypeOK
<1>8. Shaped'
  <2>1. \E w \in wanted : w.type = current'.type /\ w.first = current'.first
    BY <1>1, <1>5 DEF PlanInv, Shaped, Merging
  <2>2. \E w \in wanted : w.type = current'.type /\ w.last = current'.last
    BY <1>1, <1>3, <1>4, <1>5 DEF PlanInv, Shaped, Merging
  <2>3. left' \subseteq wanted /\ \A w \in wanted : Readable(w)
    BY <1>2 DEF PlanInv, Shaped
  <2> QED
    BY <1>1, <1>6, <2>1, <2>2, <2>3 DEF Shaped
<1>9. Sorted'
  BY <1>1, <1>2, <1>5 DEF PlanInv, Sorted, Merging
<1>10. Flushing'
  BY <1>1 DEF Flushing
<1>11. \A w \in Ranges : In(w, current) => In(w, current')
  BY <1>3, <1>5 DEF In, Ranges
<1>12. In(r, current')
  BY <1>3, <1>4, <1>5 DEF In
<1>13. Accounted'
  <2>1. \A w \in wanted : w \in Ranges
    BY DEF PlanInv, TypeOK
  <2>2. ASSUME NEW w \in wanted
        PROVE  \/ w \in left' \/ In(w, current')
               \/ \E i \in DOMAIN plan : Holds(plan[i], w)
    BY <1>1, <1>2, <1>11, <1>12, <2>1 DEF PlanInv, Accounted
  <2> QED
    BY <1>1, <2>2 DEF Accounted, Merging, In
<1>14. BlocksFit'
  BY <1>1 DEF PlanInv, BlocksFit
<1> QED
  BY <1>7, <1>8, <1>9, <1>10, <1>13, <1>14 DEF PlanInv

LEMMA StepPlanInv == PlanInv /\ [Next]_vars => PlanInv'
<1> SUFFICES ASSUME PlanInv, [Next]_vars PROVE PlanInv'
  OBVIOUS
<1>1. CASE Collect
  BY <1>1 DEF Collect, PlanInv, TypeOK, Shaped, Sorted, Flushing, Accounted,
              BlocksFit, Merging
<1>2. CASE TakeFirst
  <2>1. PICK r \in left : Least(r, left) /\ current' = r /\ left' = left \ {r}
    BY <1>2 DEF TakeFirst
  <2>2. left = wanted /\ from' \in Nat
    BY <1>2 DEF TakeFirst, PlanInv, Accounted, TypeOK
  <2>3. UNCHANGED <<wanted, plan>> /\ pc' = "merge"
    BY <1>2 DEF TakeFirst
  <2> QED
    BY <2>1, <2>2, <2>3, TakeKeeps
<1>3. CASE Merge
  BY <1>3, MergeKeeps
<1>4. CASE BeginFlush
  <2>1. pc' = "flush" /\ pc = "merge" /\ UNCHANGED <<wanted, left, current, plan>>
        /\ from' = current.first
    BY <1>4 DEF BeginFlush
  <2>2. from' \in Nat
    BY <2>1 DEF PlanInv, Shaped, Merging, Readable, Ranges
  <2>3. TypeOK'
    BY <2>1, <2>2 DEF PlanInv, TypeOK
  <2>4. Shaped' /\ Sorted' /\ Flushing'
    BY <2>1 DEF PlanInv, Shaped, Sorted, Flushing, Merging
  <2>5. Accounted' /\ BlocksFit'
    BY <2>1 DEF PlanInv, Accounted, BlocksFit, Merging, In
  <2> QED
    BY <2>3, <2>4, <2>5 DEF PlanInv
<1>5. CASE FlushBlock
  BY <1>5, FlushKeeps
<1>6. ASSUME pc = "flush", from > current.last
      PROVE  \A w \in wanted : \/ w \in left
                               \/ \E i \in DOMAIN plan : Holds(plan[i], w)
  <2>1. Readable(current) /\ current \in Ranges /\ wanted \subseteq Ranges
    BY <1>6 DEF PlanInv, Shaped, Merging, Readable, TypeOK
  <2>2. from # current.first
    BY <1>6, <2>1 DEF Readable, Ranges
  <2>3. PICK i \in DOMAIN plan : Holds(plan[i], current)
    BY <1>6, <2>2 DEF PlanInv, Flushing
  <2>4. plan[i] \in Blocks
    BY DEF PlanInv, TypeOK
  <2>5. \A w \in wanted : In(w, current) => Holds(plan[i], w)
    BY <2>1, <2>3, <2>4 DEF In, Holds, BlockLast, Ranges, Blocks
  <2> QED
    BY <1>6, <2>5 DEF PlanInv, Accounted
<1>7. CASE TakeNext
  <2>1. PICK r \in left : Least(r, left) /\ current' = r /\ left' = left \ {r}
    BY <1>7 DEF TakeNext
  <2>2. UNCHANGED <<wanted, plan>> /\ pc' = "merge" /\ from' \in Nat
    BY <1>7 DEF TakeNext
  <2>3. pc = "flush" /\ from > current.last
    BY <1>7 DEF TakeNext
  <2> QED
    BY <1>6, <2>1, <2>2, <2>3, TakeKeeps
<1>8. CASE Finish
  <2>1. pc = "flush" /\ from > current.last /\ left = {} /\ pc' = "done" /\ from' = 0
        /\ UNCHANGED <<wanted, left, current, plan>>
    BY <1>8 DEF Finish
  <2>2. Accounted'
    BY <1>6, <2>1 DEF Accounted, Holds, BlockLast
  <2> QED
    BY <2>1, <2>2 DEF PlanInv, TypeOK, Shaped, Sorted, Flushing, BlocksFit, Merging
<1>9. CASE Fail
  <2>1. plan' = <<>> /\ pc' = "failed" /\ UNCHANGED <<wanted, left, current, from>>
    BY <1>9 DEF Fail
  <2> QED
    BY <2>1 DEF PlanInv, TypeOK, Shaped, Sorted, Flushing, Accounted, BlocksFit, Merging
<1>10. CASE UNCHANGED vars
  BY <1>10 DEF vars, PlanInv, TypeOK, Shaped, Sorted, Flushing, Accounted, BlocksFit,
               Merging, In, Holds, BlockLast
<1> QED
  BY <1>1, <1>2, <1>3, <1>4, <1>5, <1>7, <1>8, <1>9, <1>10 DEF Next

(* Whatever the variables, the steps of build_modbus_read_plan keep what   *)
(* the argument rests on.                                                  *)
THEOREM PlanInvariant == Spec => []PlanInv
<1> QED
  BY InitPlanInv, StepPlanInv, PTL DEF Spec

-----------------------------------------------------------------------------
(* The state of build_modbus_read_plan stays of its type; no block starts  *)
(* at a negative address.                                                  *)
THEOREM PlanTypeCorrect == Spec => []TypeOK
<1>1. PlanInv => TypeOK
  BY DEF PlanInv
<1> QED
  BY <1>1, PlanInvariant, PTL

(* A finished plan reads every planned variable whole in one block: what   *)
(* update_variables_from_register_block needs to refresh it.               *)
THEOREM EveryVariableRead == Spec => []PlanCovers
<1>1. PlanInv => PlanCovers
  BY DEF PlanInv, Accounted, Merging, PlanCovers
<1> QED
  BY <1>1, PlanInvariant, PTL

(* No request of the poller asks for more than the protocol's limit, for   *)
(* nothing, or for what lies beyond the variables.                         *)
THEOREM RequestsFit == Spec => []BlocksFit
<1>1. PlanInv => BlocksFit
  BY DEF PlanInv
<1> QED
  BY <1>1, PlanInvariant, PTL

-----------------------------------------------------------------------------
(* Why no plan does with fewer requests.                                   *)
(*                                                                         *)
(* Each block was opened by a range that no earlier block of its type      *)
(* could reach: its last place lies a whole request beyond their starts.   *)
(* So one request can serve at most one of these ranges, and whoever       *)
(* serves them all makes as many requests as the plan has blocks.          *)
Opens(r, type, start, n) ==
    /\ r.type = type /\ r.first = start
    /\ \A j \in 1..n : plan[j].type = type => plan[j].start + MaxCount(type) <= r.last

(* The current range has no block of its own in the plan. *)
Unflushed == pc = "merge" \/ (pc = "flush" /\ from = current.first)

Greedy ==
    /\ pc \in {"collect", "sort"} => plan = <<>>
    /\ \A i \in DOMAIN plan : \E r \in wanted : Opens(r, plan[i].type, plan[i].start, i - 1)
    /\ Unflushed => \E r \in wanted : Opens(r, current.type, current.first, Len(plan))

(* The plan lies before the current range, what is left behind it. *)
InOrder == Merging =>
    /\ \A i \in DOMAIN plan :
           \/ plan[i].type < current.type
           \/ plan[i].type = current.type /\ plan[i].start <= current.first
    /\ \A r \in left : current.type <= r.type

Unfit == pc = "flush" => \A r \in left : Least(r, left) => ~Fits(r)

FewestInv == PlanInv /\ Greedy /\ InOrder /\ Unfit /\ IsFiniteSet(wanted)

(* What has finitely many variables has finitely many ranges. *)
LEMMA FinitelyManyRanges == Init => IsFiniteSet(wanted)
<1> SUFFICES ASSUME Init PROVE IsFiniteSet(wanted)
  OBVIOUS
<1>1. PICK input \in Inputs :
        wanted = {RangeOf(v) : v \in {u \in input : Planned(u)}}
  BY DEF Init
<1> DEFINE planned == {u \in input : Planned(u)}
           range == [v \in planned |-> RangeOf(v)]
<1>2. IsFiniteSet(planned)
  <2>1. planned \in SUBSET input /\ IsFiniteSet(input)
    BY InputAssumption
  <2> QED
    BY <2>1, FS_Subset
<1>3. range \in Surjection(planned, wanted)
  BY <1>1 DEF Surjection
<1> HIDE DEF planned, range
<1> QED
  BY <1>2, <1>3, FS_Surjection

LEMMA InitFewest == Init => FewestInv
<1> SUFFICES ASSUME Init PROVE FewestInv
  OBVIOUS
<1>1. PlanInv /\ IsFiniteSet(wanted)
  BY InitPlanInv, FinitelyManyRanges
<1>2. Greedy /\ InOrder /\ Unfit
  BY DEF Init, Greedy, Unflushed, InOrder, Unfit, Merging
<1> QED
  BY <1>1, <1>2 DEF FewestInv

(* The first range, or the next one after a flush, opens a block that no   *)
(* block of the plan could have saved.                                     *)
LEMMA TakeKeepsFewest ==
    ASSUME FewestInv, PlanInv', UNCHANGED <<wanted, plan>>, pc' = "merge",
           NEW r \in left, Least(r, left), current' = r, left' = left \ {r},
           plan = <<>> \/ pc = "flush"
    PROVE  FewestInv'
<1>1. /\ r \in Ranges /\ r \in wanted /\ left \in SUBSET Ranges
      /\ r.type \in Types /\ r.first \in Int /\ r.last \in Int /\ MaxCount(r.type) \in Nat
  BY CountType DEF FewestInv, PlanInv, Shaped, TypeOK, Ranges
<1>2. ASSUME NEW i \in DOMAIN plan
      PROVE  /\ plan[i].type = r.type => plan[i].start + MaxCount(r.type) <= r.last
             /\ \/ plan[i].type < r.type
                \/ plan[i].type = r.type /\ plan[i].start <= r.first
  <2>1. pc = "flush"
    BY <1>2
  <2>2. plan[i] \in Blocks
    BY DEF FewestInv, PlanInv, TypeOK
  <2>3. /\ plan[i].type \in Int /\ plan[i].start \in Int
        /\ current.type \in Int /\ current.first \in Int /\ r.type \in Int
    BY <1>1, <2>1, <2>2
    DEF Blocks, Types, FewestInv, PlanInv, Shaped, Merging, Readable, Ranges
  <2>4. /\ \/ plan[i].type < current.type
           \/ plan[i].type = current.type /\ plan[i].start <= current.first
        /\ current.type <= r.type
        /\ r.type = current.type => current.first <= r.first
    BY <2>1 DEF FewestInv, InOrder, PlanInv, Sorted, Merging
  <2>5. r.type = current.type => r.last - current.first + 1 > MaxCount(r.type)
    <3>1. ~Fits(r)
      BY <2>1 DEF FewestInv, Unfit
    <3> QED
      BY <3>1, <2>3, <1>1 DEF Fits
  <2> QED
    BY <2>3, <2>4, <2>5, <1>1
<1>3. 1..Len(plan) = DOMAIN plan
  BY DEF FewestInv, PlanInv, TypeOK
<1>4. Opens(r, r.type, r.first, Len(plan))
  BY <1>2, <1>3 DEF Opens
<1>5. \A q, type, start, n : Opens(q, type, start, n)' <=> Opens(q, type, start, n)
  BY DEF Opens
<1>6. Greedy'
  <2>1. \A i \in DOMAIN plan : \E q \in wanted :
            Opens(q, plan[i].type, plan[i].start, i - 1)
    BY DEF FewestInv, Greedy
  <2>2. \A i \in DOMAIN plan : \E q \in wanted :
            Opens(q, plan[i].type, plan[i].start, i - 1)'
    BY <2>1 DEF Opens
  <2>3. Opens(r, r.type, r.first, Len(plan))'
    BY <1>4 DEF Opens
  <2> QED
    BY <2>2, <2>3, <1>1 DEF Greedy, Unflushed, Opens
<1>7. InOrder'
  <2>1. ASSUME NEW s \in left PROVE r.type <= s.type
    BY <1>1 DEF Least, Before, Ranges, Types
  <2> QED
    BY <2>1, <1>2 DEF InOrder
<1> QED
  BY <1>6, <1>7 DEF FewestInv, Unfit

(* A flush puts the current range's block behind the others. *)
LEMMA FlushKeepsFewest == FewestInv /\ FlushBlock => FewestInv'
<1> SUFFICES ASSUME FewestInv, FlushBlock PROVE FewestInv'
  OBVIOUS
<1>1. /\ pc = "flush" /\ pc' = pc /\ wanted' = wanted /\ left' = left /\ current' = current
      /\ from <= current.last
  BY DEF FlushBlock
<1>2. PlanInv /\ PlanInv' /\ Readable(current)
  BY <1>1, FlushKeeps DEF FewestInv, PlanInv, Shaped, Merging
<1>3. /\ current.type \in Types /\ current.first \in Int /\ current.last \in Int
      /\ MaxCount(current.type) \in Nat /\ MaxCount(current.type) >= 1 /\ from \in Int
  BY <1>2, CountType DEF Readable, Ranges, PlanInv, TypeOK
<1>4. from = current.first
  BY <1>1, <1>2, <1>3 DEF PlanInv, Flushing
<1> DEFINE remaining == current.last - from + 1
           count == IF remaining > MaxCount(current.type)
                    THEN MaxCount(current.type) ELSE remaining
           block == [type |-> current.type, start |-> from, count |-> count]
           n == Len(plan)
<1>5. plan' = Append(plan, block) /\ from' = from + count
  BY DEF FlushBlock
<1>6. count \in Nat /\ count >= 1
  BY <1>1, <1>3
<1>7. block \in Blocks /\ plan \in Seq(Blocks)
  BY <1>2, <1>3, <1>4, <1>6 DEF Blocks, PlanInv, TypeOK
<1>8. block.type = current.type /\ block.start = current.first
  BY <1>4
<1>9. from' # current.first
  BY <1>3, <1>4, <1>5, <1>6
<1> HIDE DEF block, count
<1>10. /\ DOMAIN plan' = DOMAIN plan \cup {n + 1}
       /\ \A i \in DOMAIN plan : plan'[i] = plan[i]
       /\ plan'[n + 1] = block
       /\ DOMAIN plan = 1..n /\ n \in Nat
  BY <1>5, <1>7, AppendKeeps
<1> HIDE DEF n
<1>11. ASSUME NEW q, NEW type, NEW start, NEW m \in Int, m <= n, Opens(q, type, start, m)
       PROVE  Opens(q, type, start, m)'
  <2>1. \A j \in 1..m : plan'[j] = plan[j]
    BY <1>10, <1>11
  <2> QED
    BY <2>1, <1>11 DEF Opens
<1>12. \E q \in wanted : Opens(q, current.type, current.first, n)
  BY <1>1, <1>4 DEF FewestInv, Greedy, Unflushed, n
<1>13. ASSUME NEW i \in DOMAIN plan'
       PROVE  \E q \in wanted' : Opens(q, plan[i].type, plan[i].start, i - 1)'
  <2>1. CASE i \in DOMAIN plan
    <3>1. PICK q \in wanted : Opens(q, plan[i].type, plan[i].start, i - 1)
      BY <2>1 DEF FewestInv, Greedy
    <3>2. i - 1 \in Int /\ i - 1 <= n /\ plan'[i] = plan[i]
      BY <2>1, <1>10
    <3>3. PICK type, start : type = plan[i].type /\ start = plan[i].start
      OBVIOUS
    <3>4. Opens(q, type, start, i - 1)'
      BY <3>1, <3>2, <3>3, <1>11
    <3>5. type = plan'[i].type /\ start = plan'[i].start
      BY <3>2, <3>3
    <3> QED
      BY <3>4, <3>5, <1>1 DEF Opens
  <2>2. CASE i = n + 1
    <3>1. PICK q \in wanted : Opens(q, current.type, current.first, n)
      BY <1>12
    <3>2. PICK type, start : type = current.type /\ start = current.first
      OBVIOUS
    <3>3. Opens(q, type, start, n)
      BY <3>1, <3>2
    <3>4. PICK m \in Int : m = n /\ m <= n /\ m = i - 1
      BY <2>2, <1>10
    <3>5. Opens(q, type, start, m)'
      BY <3>3, <3>4, <1>11
    <3>6. type = plan'[i].type /\ start = plan'[i].start
      BY <2>2, <3>2, <1>8, <1>10
    <3> QED
      BY <3>4, <3>5, <3>6, <1>1 DEF Opens
  <2> QED
    BY <2>1, <2>2, <1>10
<1>14. Greedy'
  BY <1>1, <1>9, <1>13 DEF Greedy, Unflushed
<1>15. InOrder'
  <2>1. /\ \A i \in DOMAIN plan :
               \/ plan[i].type < current.type
               \/ plan[i].type = current.type /\ plan[i].start <= current.first
        /\ \A r \in left : current.type <= r.type
    BY <1>1 DEF FewestInv, InOrder, Merging
  <2> QED
    BY <2>1, <1>1, <1>3, <1>8, <1>10 DEF InOrder
<1>16. Unfit'
  BY <1>1 DEF FewestInv, Unfit, Fits
<1> QED
  BY <1>1, <1>2, <1>14, <1>15, <1>16 DEF FewestInv

LEMMA StepFewest == FewestInv /\ [Next]_vars => FewestInv'
<1> SUFFICES ASSUME FewestInv, [Next]_vars PROVE FewestInv'
  OBVIOUS
<1>1. PlanInv /\ PlanInv' /\ IsFiniteSet(wanted)
  BY StepPlanInv DEF FewestInv
<1>2. wanted' = wanted
  BY DEF Next, vars, Collect, TakeFirst, Merge, BeginFlush, FlushBlock, TakeNext, Finish, Fail
<1>3. CASE TakeFirst
  <2>1. PICK r \in left : Least(r, left) /\ current' = r /\ left' = left \ {r}
    BY <1>3 DEF TakeFirst
  <2>2. plan = <<>> /\ plan' = plan /\ pc' = "merge"
    BY <1>3 DEF TakeFirst, FewestInv, Greedy
  <2> QED
    BY <2>1, <2>2, <1>1, <1>2, TakeKeepsFewest
<1>4. CASE TakeNext
  <2>1. PICK r \in left : Least(r, left) /\ current' = r /\ left' = left \ {r}
    BY <1>4 DEF TakeNext
  <2>2. pc = "flush" /\ plan' = plan /\ pc' = "merge"
    BY <1>4 DEF TakeNext
  <2> QED
    BY <2>1, <2>2, <1>1, <1>2, TakeKeepsFewest
<1>5. CASE FlushBlock
  BY <1>5, FlushKeepsFewest
<1>6. CASE Merge
  <2>1. /\ pc = "merge" /\ pc' = pc /\ from' = from /\ plan' = plan
        /\ left' \subseteq left
        /\ current'.type = current.type /\ current'.first = current.first
    <3>1. current \in Ranges
      BY <1>6 DEF Merge, FewestInv, PlanInv, Shaped, Merging, Readable
    <3> QED
      BY <3>1, <1>6 DEF Merge, Ranges
  <2>2. Greedy'
    BY <2>1, <1>2 DEF FewestInv, Greedy, Unflushed, Opens
  <2>3. InOrder'
    BY <2>1 DEF FewestInv, InOrder, Merging
  <2> QED
    BY <2>1, <2>2, <2>3, <1>1, <1>2 DEF FewestInv, Unfit
<1>7. CASE BeginFlush
  <2>1. /\ pc = "merge" /\ pc' = "flush" /\ UNCHANGED <<left, current, plan>>
        /\ \A r \in left : Least(r, left) => ~Fits(r)
    BY <1>7 DEF BeginFlush
  <2>2. Greedy'
    BY <2>1, <1>2 DEF FewestInv, Greedy, Unflushed, Opens
  <2>3. InOrder' /\ Unfit'
    BY <2>1 DEF FewestInv, InOrder, Unfit, Merging, Fits
  <2> QED
    BY <2>2, <2>3, <1>1, <1>2 DEF FewestInv
<1>8. CASE Collect
  <2>1. plan = <<>> /\ plan' = <<>> /\ pc' \in {"done", "sort"}
    BY <1>8 DEF Collect, FewestInv, Greedy
  <2>2. DOMAIN plan' = {}
    BY <2>1
  <2> QED
    BY <2>1, <2>2, <1>1, <1>2 DEF FewestInv, Greedy, Unflushed, InOrder, Unfit, Merging
<1>9. CASE Finish
  <2>1. pc' = "done" /\ plan' = plan
    BY <1>9 DEF Finish
  <2>2. Greedy'
    BY <2>1, <1>2 DEF FewestInv, Greedy, Unflushed, Opens
  <2> QED
    BY <2>1, <2>2, <1>1, <1>2 DEF FewestInv, InOrder, Unfit, Merging
<1>10. CASE Fail
  <2>1. pc' = "failed" /\ plan' = <<>>
    BY <1>10 DEF Fail
  <2>2. DOMAIN plan' = {}
    BY <2>1
  <2> QED
    BY <2>1, <2>2, <1>1, <1>2 DEF FewestInv, Greedy, Unflushed, InOrder, Unfit, Merging
<1>11. CASE UNCHANGED vars
  <2>1. UNCHANGED <<pc, left, current, from, plan>>
    BY <1>11 DEF vars
  <2>2. Greedy'
    BY <2>1, <1>2 DEF FewestInv, Greedy, Unflushed, Opens
  <2>3. InOrder' /\ Unfit'
    BY <2>1 DEF FewestInv, InOrder, Unfit, Merging, Fits
  <2> QED
    BY <2>2, <2>3, <1>1, <1>2 DEF FewestInv
<1> QED
  BY <1>3, <1>4, <1>5, <1>6, <1>7, <1>8, <1>9, <1>10, <1>11 DEF Next

LEMMA FewestInvariant == Spec => []FewestInv
BY InitFewest, StepFewest, PTL DEF Spec

(* One request does not serve what opened two blocks.                      *)
LEMMA OneBlockEach ==
    ASSUME FewestInv, NEW i \in DOMAIN plan, NEW j \in DOMAIN plan, j < i,
           NEW q \in wanted, Opens(q, plan[i].type, plan[i].start, i - 1),
           NEW r \in wanted, Opens(r, plan[j].type, plan[j].start, j - 1),
           NEW s \in wanted, s.type = q.type, s.type = r.type,
           s.first <= r.first, q.last < s.first + MaxCount(s.type)
    PROVE  FALSE
<1>1. /\ q \in Ranges /\ r \in Ranges /\ s \in Ranges /\ plan[j] \in Blocks
      /\ i \in Nat /\ j \in 1..(i - 1)
  BY DEF FewestInv, PlanInv, TypeOK
<1>2. /\ q.last \in Int /\ r.first \in Int /\ s.first \in Int /\ MaxCount(s.type) \in Nat
  BY <1>1, CountType DEF Ranges
<1>3. plan[j].start + MaxCount(q.type) <= q.last /\ plan[j].start = r.first
  BY <1>1 DEF Opens
<1> QED
  BY <1>2, <1>3

(* No choice of requests serves all the variables with fewer of them than  *)
(* build_modbus_read_plan, whatever the variables and the limits.          *)
THEOREM NoPlanSmaller == Spec => []FewestBlocks
<1>1. ASSUME FewestInv PROVE FewestBlocks
  <2> SUFFICES ASSUME NEW starts \in SUBSET wanted, Serves(starts)
               PROVE  Cardinality(starts) >= Len(plan)
    BY DEF FewestBlocks
  <2> DEFINE n == Len(plan)
             Key(i) == CHOOSE r \in wanted : Opens(r, plan[i].type, plan[i].start, i - 1)
             Reads(s, r) == /\ s.type = r.type /\ s.first <= r.first
                            /\ r.last < s.first + MaxCount(s.type)
             server == [i \in 1..n |-> CHOOSE s \in starts : Reads(s, Key(i))]
  <2>1. DOMAIN plan = 1..n /\ n \in Nat
    BY <1>1 DEF FewestInv, PlanInv, TypeOK
  <2>2. ASSUME NEW i \in 1..n
        PROVE  Key(i) \in wanted /\ Opens(Key(i), plan[i].type, plan[i].start, i - 1)
    <3>1. \E r \in wanted : Opens(r, plan[i].type, plan[i].start, i - 1)
      BY <2>1, <1>1 DEF FewestInv, Greedy
    <3> QED
      BY <3>1
  <2> HIDE DEF Key
  <2>3. ASSUME NEW i \in 1..n
        PROVE  server[i] \in starts /\ Reads(server[i], Key(i))
    <3>1. \E s \in starts : Reads(s, Key(i))
      BY <2>2 DEF Serves
    <3> HIDE DEF Reads
    <3> QED
      BY <3>1
  <2>4. ASSUME NEW i \in 1..n, NEW j \in 1..n, j < i, server[i] = server[j]
        PROVE  FALSE
    <3>1. /\ server[i] \in wanted
          /\ Reads(server[i], Key(i)) /\ Reads(server[i], Key(j))
      BY <2>3, <2>4
    <3> HIDE DEF server
    <3> QED
      BY <3>1, <2>1, <2>2, <2>4, <1>1, OneBlockEach
  <2>5. server \in [1..n -> starts]
    <3>1. \A i \in 1..n : server[i] \in starts
      BY <2>3
    <3> QED
      BY <3>1
  <2> HIDE DEF server
  <2>6. server \in Injection(1..n, starts)
    <3>1. \A i, j \in 1..n : i < j \/ j < i \/ i = j
      BY <2>1
    <3>2. \A i, j \in 1..n : server[i] = server[j] => i = j
      BY <3>1, <2>4
    <3> QED
      BY <3>2, <2>5 DEF Injection, IsInjective
  <2>7. IsFiniteSet(starts)
    BY <1>1, FS_Subset DEF FewestInv
  <2>8. Cardinality(1..n) = n
    <3>1. Cardinality(1..n) = IF 1 > n THEN 0 ELSE n - 1 + 1
      BY <2>1, FS_Interval
    <3> QED
      BY <3>1, <2>1
  <2>9. Cardinality(1..n) <= Cardinality(starts)
    BY <2>6, <2>7, FS_Injection
  <2>10. Cardinality(starts) \in Nat
    BY <2>7, FS_CardinalityType
  <2> QED
    BY <2>1, <2>8, <2>9, <2>10
<1> QED
  BY <1>1, FewestInvariant, PTL
=============================================================================
