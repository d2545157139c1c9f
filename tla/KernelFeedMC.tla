---------------------------- MODULE KernelFeedMC ----------------------------
(***************************************************************************)
(* Series of five candles: up, down, wide, and two without range, one of   *)
(* them without volume.                                                    *)
(***************************************************************************)
EXTENDS KernelFeed

MCCandles ==
  {[open |-> 2, high |-> 3, low |-> 2, close |-> 3, volume |-> 1],
   [open |-> 2, high |-> 2, low |-> 1, close |-> 1, volume |-> 2],
   [open |-> 2, high |-> 4, low |-> 1, close |-> 2, volume |-> 1],
   [open |-> 2, high |-> 2, low |-> 2, close |-> 2, volume |-> 1],
   [open |-> 3, high |-> 3, low |-> 3, close |-> 3, volume |-> 0]}

(* The registered minimum_bars of each kind, with its period. *)
MCMinimumBars ==
  [p \in Profiles |-> CASE p \in {"obv", "rsi", "vortex"} -> IF p = "obv" THEN 2 ELSE Period + 1
                        [] p = "stoch_rsi"                -> 2 * Period
                        [] p = "ulcer"                    -> 2 * Period - 1
                        [] OTHER                          -> Period]
=============================================================================
