----------------------------- MODULE MovingMedian -----------------------------
(***************************************************************************)
(* The moving median (methods/smm.rs): a window of the last Length values  *)
(* beside a slice of the same values, kept sorted by taking out the value  *)
(* that leaves the window and putting in the one that enters.  Both places *)
(* are found by bisection, which asks whether two values have the same     *)
(* bits, and else which is greater as a number.                            *)
(***************************************************************************)
EXTENDS Integers, Sequences, FiniteSets, SequencesExt

CONSTANTS
  Value,     \* finite floating-point values, by their bits
  Num(_),    \* the number a value stands for
  Length,    \* the length of the window, not zero
  Orders     \* the orders of its places, a constant as it is the same for every window

VARIABLES
  window,   \* the values of the ring buffer, from the oldest on
  slice,    \* SMM.slice
  alive     \* no index has been out of range: a panic ends the method

vars == <<window, slice, alive>>

(* SMM::new *)
Init ==
  /\ \E v \in Value : /\ window = [i \in 1 .. Length |-> v]
                      /\ slice = window
  /\ alive = TRUE

(* find_index and find_insert_index: the place of a value among the `len`    *)
(* values of the slice after the first `padding`; next_half goes on with     *)
(* those on one side of the middle.                                          *)
FindIndex(v) ==
  LET find[len \in 0 .. Length] ==
        [padding \in 0 .. Length |->
           LET half == len \div 2
               mid  == slice[padding + half + 1]
           IN  CASE len < 2 -> padding + 1 - len
                 [] len >= 2 /\ v = mid -> padding + half
                 [] len >= 2 /\ v # mid /\ Num(v) > Num(mid) ->
                      find[len - half - 1][padding + half + 1]
                 [] OTHER -> find[half][padding]]
  IN  find[Length][0]

FindInsertIndex(v) ==
  LET find[len \in 0 .. Length] ==
        [padding \in 0 .. Length |->
           LET half == len \div 2
               mid  == slice[padding + half + 1]
           IN  CASE len = 0 -> padding
                 [] len # 0 /\ v = mid -> padding + half
                 [] len # 0 /\ v # mid /\ Num(v) > Num(mid) ->
                      find[len - half - 1][padding + half + 1]
                 [] OTHER -> find[half][padding]]
  IN  find[Length][0]

(* Mutant: the value taken out is not counted off. *)
Destination_NotBack(old, insert) == IF insert = Length THEN Length - 1 ELSE insert

(* The index of the new value once the old one is taken out. *)
Destination(old, insert) == IF old < insert THEN insert - 1 ELSE insert

(* copy_within and the assignment after it. *)
Moved(old, new, v) ==
  [k \in 1 .. Length |->
     CASE k = new + 1                 -> v
       [] k > old /\ k < new + 1      -> slice[k + 1]
       [] k > new + 1 /\ k <= old + 1 -> slice[k - 1]
       [] OTHER                       -> slice[k]]

(* SMM::next *)
Consume(v) ==
  LET old == FindIndex(Head(window))
      new == Destination(old, FindInsertIndex(v))
  IN  /\ alive
      /\ window' = Append(Tail(window), v)
      /\ alive' = (old < Length /\ new < Length)
      /\ slice' = IF alive' THEN Moved(old, new, v) ELSE slice

Sorted(s) == \A i \in 1 .. Length - 1 : Num(s[i]) <= Num(s[i + 1])

(* What sort_unstable may make of a window. *)
Restored(w) ==
  {s \in {[k \in 1 .. Length |-> w[p[k]]] : p \in Orders} : Sorted(s)}

(* Serialized and read back, the window alone. *)
RoundTrip ==
  /\ alive
  /\ slice' \in Restored(window)
  /\ UNCHANGED <<window, alive>>

Next == \/ \E v \in Value : Consume(v)
        \/ RoundTrip

Spec == Init /\ [][Next]_vars

(* Twice the number SMM::peek answers. *)
Peek ==
  LET half == Length \div 2
  IN  Num(slice[half + 1])
        + Num(slice[IF Length % 2 = 0 THEN half ELSE half + 1])

-----------------------------------------------------------------------------
(* Properties                                                              *)

(* How many values of a window are less than a number, or not greater. *)
Below(w, n) == Cardinality({i \in 1 .. Length : Num(w[i]) < n})
UpTo(w, n)  == Cardinality({i \in 1 .. Length : Num(w[i]) <= n})

(* The k-th smallest number of a window, from 0. *)
Smallest(w, k) ==
  CHOOSE n \in {Num(v) : v \in ToSet(w)} : Below(w, n) <= k /\ k < UpTo(w, n)

(* "Moving median of specified length for timeseries" (methods/smm.rs): what *)
(* is answered is the median of the last Length values.                      *)
MedianOfWindow ==
  Peek = Smallest(window, Length \div 2) + Smallest(window, (Length - 1) \div 2)
=============================================================================
