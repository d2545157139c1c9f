---------------------------- MODULE StreamToolMC ----------------------------
(***************************************************************************)
(* A small instance of StreamTool: bars at three times, two of them known  *)
(* late or at once, one bar that is not valid and one known before it      *)
(* closed.                                                                 *)
(***************************************************************************)
EXTENDS StreamTool

CONSTANT MaxVault  \* bound: snapshots the callers hold at a time

Up  == [open |-> 1, high |-> 3, low |-> 1, close |-> 2, volume |-> 1]
Bad == [open |-> 1, high |-> 1, low |-> 3, close |-> 1, volume |-> 1]

MCCandles     == {Up, Bad}
MCMinimumBars == [p \in Profiles |-> 2]

At(closed, available, candle) ==
  [closed |-> closed, available |-> available, candle |-> candle]

Offered == {At(1, 1, Up), At(1, 2, Up), At(2, 2, Up), At(3, 3, Up), At(2, 2, Bad), At(2, 1, Up)}

MCOffers ==
  {<<>>} \cup {<<b>> : b \in Offered} \cup {<<b, c>> : b, c \in Offered}
         \cup {<<At(1, 1, Up), At(2, 2, Up), At(3, 3, Up)>>}

FewSnapshots == Cardinality(vault) <= MaxVault

(* reply answers the last call and decides nothing. *)
WithoutReply == <<vault, call>>
=============================================================================
