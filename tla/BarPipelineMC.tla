---------------------------- MODULE BarPipelineMC ----------------------------
(***************************************************************************)
(* A small instance of BarPipeline: a clock whose first time is within a   *)
(* bucket, times before and after zero, a gap that may be filled and one   *)
(* that is too long.                                                       *)
(***************************************************************************)
EXTENDS BarPipeline

MCMinTime == -7

MCTimeframes == [fine |-> 2, coarse |-> 4]

MCFills == {[fine |-> FALSE, coarse |-> FALSE], [fine |-> FALSE, coarse |-> TRUE],
            [fine |-> TRUE, coarse |-> TRUE]}

At(time, price, volume) == [time |-> time, price |-> price, volume |-> volume]

MCTicks == {At(-7, 1, 1), At(-5, 2, 1), At(-4, 1, 2), At(-3, 3, 2),
            At(0, 2, 2), At(5, 3, 1), At(13, 1, 1)}
=============================================================================
