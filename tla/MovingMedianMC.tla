--------------------------- MODULE MovingMedianMC ---------------------------
(***************************************************************************)
(* A small instance of MovingMedian: numbers about both zeros.             *)
(***************************************************************************)
EXTENDS MovingMedian

MCNum(v) == CASE v = "-2" -> -2
              [] v = "-1" -> -1
              [] v = "1"  -> 1
              [] v = "2"  -> 2
              [] OTHER    -> 0

MCOrders == Permutations(1 .. Length)
=============================================================================
