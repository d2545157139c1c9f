--------------------------- MODULE EngineStreamMC ---------------------------
(***************************************************************************)
(* A small instance of EngineStream: a valid candle, and one whose high is *)
(* below its low.                                                          *)
(***************************************************************************)
EXTENDS EngineStream

CONSTANTS
  MaxVault,   \* bound: snapshots the owner keeps at a time
  MaxDamaged  \* bound: damaged ones among them

Up   == [open |-> 1, high |-> 3, low |-> 1, close |-> 2, volume |-> 1]
Bad  == [open |-> 1, high |-> 1, low |-> 3, close |-> 1, volume |-> 1]

MCCandles == {Up, Bad}

Names == Permutations(Identities)
MCMinimumBars == [p \in Profiles |-> 2]

FewSnapshots ==
  /\ Cardinality(vault) <= MaxVault
  /\ Cardinality({e \in vault : ~Restorable(e.snapshot, e.snapshot.payload.identity,
                                            e.snapshot.payload.profile)}) <= MaxDamaged

(* reply answers the last call and decides nothing: two states that differ *)
(* in it alone have the same future.                                       *)
WithoutReply == <<stream, vault, owner, log>>
=============================================================================
