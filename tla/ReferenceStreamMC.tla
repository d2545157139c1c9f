-------------------------- MODULE ReferenceStreamMC --------------------------
(***************************************************************************)
(* A small instance of ReferenceTool: a light and a heavy payload, one     *)
(* the runner takes only after another, and one that is not valid JSON for *)
(* it.  MaxBytes is reached by two samples or by three.                    *)
(***************************************************************************)
EXTENDS ReferenceTool

CONSTANTS
  MaxVault,   \* bound: snapshots the owner keeps at a time
  MaxDamaged  \* bound: damaged ones among them

MCSize(v) == IF v = "heavy" THEN 4 ELSE 2

At(at, available, value) == [at |-> at, available |-> available, value |-> value]

MCOffers ==
  {At(1, 1, "light"), At(1, 3, "heavy"), At(2, 2, "late"), At(2, 3, "light"),
   At(3, 3, "heavy"), At(3, 3, "light"), At(3, 2, "light"), At(3, 3, "bad")}

(* No sample, one or two more, too many of them, too much of them. *)
MCLists ==
  {<<>>, <<At(3, 3, "light")>>, <<At(1, 1, "light"), At(2, 2, "late")>>,
   <<At(1, 1, "light"), At(3, 3, "heavy")>>,
   <<At(1, 1, "light"), At(2, 2, "light"), At(3, 3, "light")>>}

MCTakes(runner, v) == v = "late" => runner # <<>>

MCEmits(runner) ==
  CASE Len(runner) = 1         -> "none"
    [] Last(runner) = "late"   -> "none"
    [] Last(runner) = "heavy"  -> "null"
    [] OTHER                   -> "value"

Few ==
  /\ Cardinality(vault) <= MaxVault
  /\ Cardinality({e \in vault : e.snapshot # SnapshotOf(e.of)}) <= MaxDamaged

Names == Permutations(Series)

(* reply answers the last call and decides nothing. *)
WithoutReply == <<stream, vault, restore, call>>
=============================================================================
