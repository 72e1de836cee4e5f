------------------------------ MODULE ReadPlan ------------------------------
(***************************************************************************)
(* build_modbus_read_plan of src/opcua_server.c: from the variables of all *)
(* devices to the blocks of registers or bits that the poller reads, one   *)
(* request each.  A variable is refreshed only by a block that holds all   *)
(* of it (update_variables_from_register_block), so a variable no block    *)
(* holds, or one cut in two, keeps its first value for ever.               *)
(*                                                                         *)
(* The ranges are kept as a set: what the code does with the array it has  *)
(* sorted is to take the least one left, and a second range equal to an    *)
(* earlier one changes nothing.                                            *)
(***************************************************************************)
EXTENDS Integers, Sequences, FiniteSets

CONSTANTS
    MaxRegisters,   \* MODBUS_MAX_READ_REGISTERS
    MaxBits,        \* MODBUS_MAX_READ_BITS
    Inputs,         \* the sets of variables to plan for
    None            \* no range

(* The register types, in the order of their enumeration. *)
Types == 0..3
DiscreteInput == 0   Coil == 1   InputRegister == 2   HoldingRegister == 3
UnknownType == 4
Datatypes == {"BOOL", "USINT", "UINT", "ULINT", "INT", "DINT", "REAL", "UNKNOWN"}

(* value: createDeviceNodes has given the variable a place for its value.  *)
Variable == [type : Types \cup {UnknownType}, ref : Int, datatype : Datatypes,
             value : BOOLEAN]

ASSUME LimitAssumption ==
    /\ MaxRegisters \in Nat /\ MaxRegisters >= 4
    /\ MaxBits \in Nat /\ MaxBits >= 1
(* The variables are those of a table in memory. *)
ASSUME InputAssumption == \A input \in Inputs : input \subseteq Variable /\ IsFiniteSet(input)

IsBit(type) == type \in {DiscreteInput, Coil}

(* modbus_reference_to_pdu_addr: a reference is a type's long or short     *)
(* form, or a number counted from one.                                     *)
Long  == <<100001, 200001, 300001, 400001>>
Short == <<10001, 20001, 30001, 40001>>
PduAddr(type, ref) ==
    IF ref >= Long[type + 1] THEN ref - Long[type + 1]
    ELSE IF ref >= Short[type + 1] THEN ref - Short[type + 1]
    ELSE ref - 1

MaxCount(type) == IF IsBit(type) THEN MaxBits ELSE MaxRegisters

Width(v) ==
    IF IsBit(v.type) THEN 1
    ELSE CASE v.datatype \in {"REAL", "DINT"} -> 2
           [] v.datatype = "ULINT" -> 4
           [] OTHER -> 1

Planned(v) == v.type \in Types /\ v.value /\ PduAddr(v.type, v.ref) >= 0

RangeOf(v) ==
    LET first == PduAddr(v.type, v.ref) IN
        [type |-> v.type, first |-> first, last |-> first + Width(v) - 1]

(* compare_modbus_read_ranges *)
Before(r, s) ==
    \/ r.type < s.type
    \/ r.type = s.type /\ r.first < s.first
    \/ r.type = s.type /\ r.first = s.first /\ r.last <= s.last

Least(r, left) == r \in left /\ \A s \in left : Before(r, s)

VARIABLES
    pc,         \* where build_modbus_read_plan is
    wanted,     \* history: the ranges of the variables
    left,       \* the ranges not merged yet
    current,    \* current_type, current_start, current_end
    from,       \* next_start, in flush_modbus_read_range
    plan        \* the blocks

vars == <<pc, wanted, left, current, from, plan>>

Ranges == [type : Types, first : Int, last : Int]
Blocks == [type : Types, start : Int, count : Int]

TypeOK ==
    /\ pc \in {"collect", "sort", "merge", "flush", "done", "failed"}
    /\ wanted \subseteq Ranges
    /\ left \subseteq Ranges
    /\ current \in Ranges \cup {None}
    /\ from \in Nat
    /\ plan \in Seq(Blocks)

Init ==
    /\ pc = "collect"
    /\ \E input \in Inputs : wanted = {RangeOf(v) : v \in {u \in input : Planned(u)}}
    /\ left = {} /\ current = None /\ from = 0 /\ plan = <<>>

(* A failed allocation anywhere frees what there is of the plan. *)
Fail ==
    /\ pc \in {"collect", "flush"}
    /\ wanted # {}
    /\ pc' = "failed"
    /\ plan' = <<>>
    /\ UNCHANGED <<wanted, left, current, from>>

Collect ==
    /\ pc = "collect"
    /\ left' = wanted
    /\ pc' = IF wanted = {} THEN "done" ELSE "sort"
    /\ UNCHANGED <<wanted, current, from, plan>>

TakeFirst ==
    /\ pc = "sort"
    /\ \E r \in left :
        /\ Least(r, left)
        /\ current' = r
        /\ left' = left \ {r}
    /\ pc' = "merge"
    /\ UNCHANGED <<wanted, from, plan>>

FitsTight(r) ==               \* mutant: leaves the last register of a block unused
    /\ r.type = current.type
    /\ r.last - current.first + 1 < MaxCount(current.type)

Fits(r) ==
    /\ r.type = current.type
    /\ r.last - current.first + 1 <= MaxCount(current.type)

MergeShrinks ==               \* mutant: the block ends where the last range does
    /\ pc = "merge"
    /\ \E r \in left :
        /\ Least(r, left)
        /\ Fits(r)
        /\ current' = [current EXCEPT !.last = r.last]
        /\ left' = left \ {r}
    /\ UNCHANGED <<pc, wanted, from, plan>>

Merge ==
    /\ pc = "merge"
    /\ \E r \in left :
        /\ Least(r, left)
        /\ Fits(r)
        /\ current' = IF r.last > current.last THEN [current EXCEPT !.last = r.last]
                                               ELSE current
        /\ left' = left \ {r}
    /\ UNCHANGED <<pc, wanted, from, plan>>

(* The next range does not fit, or there is none: flush the current one.   *)
BeginFlush ==
    /\ pc = "merge"
    /\ \A r \in left : Least(r, left) => ~Fits(r)
    /\ pc' = "flush"
    /\ from' = current.first
    /\ UNCHANGED <<wanted, left, current, plan>>

FlushBlockFull ==             \* mutant: always asks for the most
    /\ pc = "flush" /\ from <= current.last
    /\ plan' = Append(plan, [type |-> current.type, start |-> from,
                             count |-> MaxCount(current.type)])
    /\ from' = from + MaxCount(current.type)
    /\ UNCHANGED <<pc, wanted, left, current>>

FlushBlock ==
    /\ pc = "flush" /\ from <= current.last
    /\ LET remaining == current.last - from + 1
           most == MaxCount(current.type)
           count == IF remaining > most THEN most ELSE remaining
       IN  /\ plan' = Append(plan, [type |-> current.type, start |-> from,
                                    count |-> count])
           /\ from' = from + count
    /\ UNCHANGED <<pc, wanted, left, current>>

(* Go on with the range that did not fit. *)
TakeNext ==
    /\ pc = "flush" /\ from > current.last
    /\ \E r \in left :
        /\ Least(r, left)
        /\ current' = r
        /\ left' = left \ {r}
    /\ pc' = "merge" /\ from' = 0
    /\ UNCHANGED <<wanted, plan>>

Finish ==
    /\ pc = "flush" /\ from > current.last
    /\ left = {}
    /\ pc' = "done" /\ from' = 0
    /\ UNCHANGED <<wanted, left, current, plan>>

Next ==
    \/ Collect \/ TakeFirst \/ Merge \/ BeginFlush \/ FlushBlock
    \/ TakeNext \/ Finish \/ Fail

Spec == Init /\ [][Next]_vars

-----------------------------------------------------------------------------
BlockLast(b) == b.start + b.count - 1
Holds(b, r) == b.type = r.type /\ b.start <= r.first /\ r.last <= BlockLast(b)

(* A finished plan reads every planned variable, whole, in one block: none *)
(* is left out or cut in two.                                              *)
PlanCovers ==
    pc = "done" => \A r \in wanted : \E i \in DOMAIN plan : Holds(plan[i], r)

(* No block asks for more than a request may, or reads a register beyond   *)
(* the variables it is for.                                                *)
BlocksFit ==
    \A i \in DOMAIN plan : LET b == plan[i] IN
        /\ b.count \in 1..MaxCount(b.type)
        /\ \E r \in wanted : r.type = b.type /\ r.first = b.start
        /\ \E r \in wanted : r.type = b.type /\ r.last = BlockLast(b)

(* No choice of blocks serves the variables with fewer requests. *)
Serves(starts) ==
    \A r \in wanted : \E s \in starts :
        /\ s.type = r.type /\ s.first <= r.first
        /\ r.last < s.first + MaxCount(s.type)

FewestBlocks ==
    pc = "done" => \A starts \in SUBSET wanted :
        Serves(starts) => Cardinality(starts) >= Len(plan)
=============================================================================
