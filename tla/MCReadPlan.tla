----------------------------- MODULE MCReadPlan -----------------------------
(* A small instance of ReadPlan for TLC: up to four variables out of six   *)
(* neighbouring registers in all widths, or two of them with two of other  *)
(* types, or ones not planned for; a request takes five registers or three *)
(* bits.                                                                   *)
EXTENDS ReadPlan

Var(type, ref, datatype) ==
    [type |-> type, ref |-> ref, datatype |-> datatype, value |-> TRUE]

Registers == {Var(InputRegister, ref, d) : ref \in 300001..300006,
                                           d \in {"UINT", "REAL", "ULINT"}}
Others ==
    {Var(HoldingRegister, 40002, "DINT"), Var(HoldingRegister, 400005, "BOOL"),
     Var(Coil, 200001, "BOOL"), Var(Coil, 4, "BOOL"), Var(DiscreteInput, 0, "BOOL"),
     Var(UnknownType, 300001, "UINT"),
     [type |-> InputRegister, ref |-> 30002, datatype |-> "UNKNOWN", value |-> FALSE]}

UpToFour == {{a, b, c, d} : a, b, c, d \in Registers}

MCInputs ==
    {{}} \cup {{o} : o \in Others} \cup UpToFour
         \cup {{a, b, o, p} : a, b \in Registers, o, p \in Others}
=============================================================================
