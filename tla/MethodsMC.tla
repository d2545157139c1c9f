------------------------------ MODULE MethodsMC ------------------------------
(***************************************************************************)
(* A small instance of Methods, on numbers that have one pattern each.     *)
(***************************************************************************)
EXTENDS Methods

MCNum(v) == v
MCValue  == {-1, 0, 1, 2}
MCOrders == Permutations(1 .. Length)
==============================================================================
