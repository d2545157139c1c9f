------------------------------- MODULE Reversal -------------------------------
(***************************************************************************)
(* UpperReversalSignal and LowerReversalSignal (methods/reversal.rs), fed  *)
(* with one series, as ReversalSignal does.  Each counts the values it has *)
(* seen in a PeriodType that saturates, numbers by it the values of a      *)
(* window of left + right + 1, and remembers the number of the newest      *)
(* extremum: it signals when that one lies `right` values back.            *)
(***************************************************************************)
EXTENDS Integers, Sequences, FiniteSetsExt

CONSTANTS
  Value,   \* the numbers of the series, integers
  MAX      \* PeriodType::MAX

VARIABLES
  left, right, initial,  \* the parameters: the reach and a value to begin with
  index,        \* how many values have come, at most MAX
  window,       \* the values of the ring buffer, from the oldest on
  extremum,     \* of either method, max_value and max_index or min_value and min_index
  signal        \* the last answer of either

vars == <<left, right, initial, index, window, extremum, signal>>

Sides == {"upper", "lower"}

Size == left + right + 1

(* Method::new, of parameters it accepts *)
Init ==
  /\ left \in 1 .. MAX /\ right \in 1 .. MAX /\ left + right < MAX
  /\ index = 0
  /\ initial \in Value
  /\ window = [i \in 1 .. Size |-> initial]
  /\ extremum = [side \in Sides |-> [value |-> initial, index |-> 0]]
  /\ signal = [side \in Sides |-> FALSE]

SaturatingAdd(a, b) == IF a + b > MAX THEN MAX ELSE a + b
SaturatingSub(a, b) == IF a < b THEN 0 ELSE a - b

(* The number of the oldest value of the window. *)
FirstIndex == SaturatingSub(SaturatingAdd(index, 1), Size)

Above(side, a, b) == IF side = "upper" THEN a > b ELSE a < b

(* The newest value of a window that no other is above, and its number. *)
Found(side, w) ==
  LET i == Max({k \in DOMAIN w : \A j \in DOMAIN w : ~Above(side, w[j], w[k])})
  IN  [value |-> w[i], index |-> FirstIndex + i - 1]

(* Mutant: the extremum is searched for a value too late. *)
Follow_Late(side, v, w) ==
  LET e == extremum[side]
  IN  CASE e.index + 1 < FirstIndex -> Found(side, w)
        [] e.index + 1 >= FirstIndex /\ ~Above(side, e.value, v) -> [value |-> v, index |-> index]
        [] OTHER -> e

(* The extremum after a value: searched for once it has left the window. *)
Follow(side, v, w) ==
  LET e == extremum[side]
  IN  CASE e.index < FirstIndex -> Found(side, w)
        [] e.index >= FirstIndex /\ ~Above(side, e.value, v) -> [value |-> v, index |-> index]
        [] OTHER -> e

Signals(e) == index >= right /\ e.index = SaturatingSub(index, right)

(* ReversalSignal::next *)
Consume(v) ==
  /\ window' = Append(Tail(window), v)
  /\ extremum' = [side \in Sides |-> Follow(side, v, window')]
  /\ signal' = [side \in Sides |-> Signals(extremum'[side])]
  /\ index' = SaturatingAdd(index, 1)
  /\ UNCHANGED <<left, right, initial>>

Next == \E v \in Value : Consume(v)

Spec == Init /\ [][Next]_vars

-----------------------------------------------------------------------------
(* Properties                                                              *)

(* The values within reach, each with its distance from the newest; the one the *)
(* method was made with stands beside the first that came.                     *)
Reach ==
  {[back |-> Size - i, value |-> window[i]] : i \in Max({1, Size - index + 1}) .. Size}
    \union (IF index <= Size THEN {[back |-> index - 1, value |-> initial]} ELSE {})

(* The newest extremum within reach: none is above it, and none newer is so high. *)
IsNewest(side, p) ==
  /\ p \in Reach
  /\ \A q \in Reach : ~Above(side, q.value, p.value)
  /\ \A q \in Reach : q.back < p.back => Above(side, p.value, q.value)

(* A pivot lies `right` values back. *)
IsPivot(side) == \E p \in Reach : p.back = right /\ IsNewest(side, p)

SignalsArePivots == \A side \in Sides : signal[side] <=> IsPivot(side)

(* As long as the counter counts, both methods signal the pivots of the series *)
(* and nothing else, although they look at the window only now and then.       *)
PivotsWhileCounting == [][index < MAX => SignalsArePivots']_vars

(* "Searches for reversal points over last left+right+1 values"               *)
(* (methods/reversal.rs): at any time, however long the series.               *)
AlwaysPivots == index > 0 => SignalsArePivots
=============================================================================
