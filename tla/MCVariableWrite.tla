--------------------------- MODULE MCVariableWrite ---------------------------
(* A small instance of VariableWrite for TLC: two values that occupy two   *)
(* registers each.                                                         *)
EXTENDS VariableWrite

MCValue == {"a", "b"}
=============================================================================
