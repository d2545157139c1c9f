------------------------------- MODULE Extrema -------------------------------
(***************************************************************************)
(* The running extrema of the native methods (methods/highest_lowest.rs    *)
(* and methods/highest_lowest_index.rs).  Each keeps a window of the last  *)
(* Length values and a cached extremum - HighestLowestDelta two of them,   *)
(* the index methods also its distance - and looks through the window only *)
(* when the cached one leaves it.  Here all five consume one series.       *)
(*                                                                         *)
(* A cached value is recognised bit by bit, but compared as a number: the  *)
(* two zeros of floating point are one number of two patterns, and max and *)
(* min of the two may return either.                                       *)
(***************************************************************************)
EXTENDS Integers, Sequences, SequencesExt

CONSTANTS
  Value,     \* finite floating-point values, by their bits
  Num(_),    \* the number a value stands for
  Length     \* the length of the window

ASSUME ExtremaAssumption ==
  /\ Length \in Nat \ {0}
  /\ \A v \in Value : Num(v) \in Int

VARIABLES
  window,   \* the values of the ring buffer, from the oldest on
  highest,  \* Highest.value
  lowest,   \* Lowest.value
  delta,    \* the two fields of HighestLowestDelta
  top,      \* the index and value of HighestIndex
  bottom    \* those of LowestIndex

vars == <<window, highest, lowest, delta, top, bottom>>

(* The values of a window that are greatest, or least, as numbers. *)
Greatest(w) == {v \in ToSet(w) : \A u \in ToSet(w) : Num(u) <= Num(v)}
Least(w)    == {v \in ToSet(w) : \A u \in ToSet(w) : Num(v) <= Num(u)}

(* Method::new *)
Init ==
  \E v \in Value :
    /\ window = [i \in 1 .. Length |-> v]
    /\ highest = v /\ lowest = v
    /\ delta = [highest |-> v, lowest |-> v]
    /\ top = [index |-> 0, value |-> v]
    /\ bottom = [index |-> 0, value |-> v]

(* Highest::next and Lowest::next: the caches that may follow. *)
HighestNext(v, old, w) ==
  IF Num(v) >= Num(highest) THEN {v}
  ELSE IF old = highest THEN Greatest(w) ELSE {highest}

LowestNext(v, old, w) ==
  IF Num(v) <= Num(lowest) THEN {v}
  ELSE IF old = lowest THEN Least(w) ELSE {lowest}

(* Mutant: a new highest value hides that the lowest one leaves. *)
DeltaNext_ElseIf(v, old, w) ==
  CASE Num(v) >= Num(delta.highest) -> {[delta EXCEPT !.highest = v]}
    [] Num(v) < Num(delta.highest) /\ Num(v) <= Num(delta.lowest)
                                    -> {[delta EXCEPT !.lowest = v]}
    [] OTHER -> IF old \in {delta.highest, delta.lowest}
                THEN [highest: Greatest(w), lowest: Least(w)] ELSE {delta}

(* HighestLowestDelta::next: one search renews both. *)
DeltaNext(v, old, w) ==
  LET up     == Num(v) >= Num(delta.highest)
      down   == Num(v) <= Num(delta.lowest)
      search == (~up /\ old = delta.highest) \/ (~down /\ old = delta.lowest)
  IN  IF search THEN [highest: Greatest(w), lowest: Least(w)]
      ELSE {[highest |-> IF up THEN v ELSE delta.highest,
             lowest  |-> IF down THEN v ELSE delta.lowest]}

(* The newest of some values of a window, and its distance from the newest. *)
NewestOf(w, values) ==
  LET i == CHOOSE i \in 1 .. Length : /\ w[i] \in values
                                      /\ \A j \in i + 1 .. Length : w[j] \notin values
  IN  [index |-> Length - i, value |-> w[i]]

(* Mutant: the search comes one value late. *)
TopNext_Late(v, w) ==
  CASE Num(v) >= Num(top.value)                    -> [index |-> 0, value |-> v]
    [] Num(v) < Num(top.value) /\ top.index >= Length -> NewestOf(w, Greatest(w))
    [] OTHER                                       -> [top EXCEPT !.index = @ + 1]

(* HighestIndex::next and LowestIndex::next: the search finds the newest. *)
TopNext(v, w) ==
  CASE Num(v) >= Num(top.value)                         -> [index |-> 0, value |-> v]
    [] Num(v) < Num(top.value) /\ top.index + 1 = Length -> NewestOf(w, Greatest(w))
    [] OTHER                                            -> [top EXCEPT !.index = @ + 1]

BottomNext(v, w) ==
  CASE Num(v) <= Num(bottom.value)                            -> [index |-> 0, value |-> v]
    [] Num(v) > Num(bottom.value) /\ bottom.index + 1 = Length -> NewestOf(w, Least(w))
    [] OTHER                                                  -> [bottom EXCEPT !.index = @ + 1]

Consume(v) ==
  LET old == Head(window)
      w   == Append(Tail(window), v)
  IN  /\ window' = w
      /\ highest' \in HighestNext(v, old, w)
      /\ lowest' \in LowestNext(v, old, w)
      /\ delta' \in DeltaNext(v, old, w)
      /\ top' = TopNext(v, w)
      /\ bottom' = BottomNext(v, w)

Next == \E v \in Value : Consume(v)

Spec == Init /\ [][Next]_vars

-----------------------------------------------------------------------------
(* Properties                                                              *)

Spot == [index: 0 .. Length - 1, value: Value]

(* Every variable has its shape; the distance stays within the window, so *)
(* the unsigned counter of the index methods cannot overflow.             *)
TypeOK ==
  /\ window \in [1 .. Length -> Value]
  /\ highest \in Value /\ lowest \in Value
  /\ delta \in [highest: Value, lowest: Value]
  /\ top \in Spot /\ bottom \in Spot

(* After any series of values the cached extrema are those of the window, and *)
(* each is, to the bit, a value still in it: also when equal values, or the   *)
(* two zeros, enter and leave in any order (highest_lowest.rs).               *)
CachesAreExtrema ==
  /\ highest \in Greatest(window) /\ lowest \in Least(window)
  /\ delta.highest \in Greatest(window) /\ delta.lowest \in Least(window)

(* "If period has more than one minimum values, then returns the index of the *)
(* newest value" (highest_lowest_index.rs): the distance is that of the       *)
(* newest extremum, whenever and however it was last searched for.            *)
IndexIsNewest ==
  /\ top = NewestOf(window, Greatest(window))
  /\ bottom = NewestOf(window, Least(window))
=============================================================================
