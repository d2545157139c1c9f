------------------------------- MODULE Methods -------------------------------
(***************************************************************************)
(* The methods over a window fed with one series, as an indicator built of *)
(* them feeds them: the running extrema and the moving median over windows *)
(* of one length, the reversal signals over one of their own.              *)
(***************************************************************************)
EXTENDS Extrema

CONSTANTS
  MAX,     \* PeriodType::MAX
  Orders   \* the orders a sort may put the places of a window in

ASSUME MethodsAssumption ==
  /\ MAX \in Nat /\ Value \subseteq Int
  /\ Orders = Bijection(1 .. Length, 1 .. Length)

VARIABLES
  slice, alive,                   \* of the moving median
  left, right, initial, index,    \* of the reversal signals
  span, extremum, signal

Median   == INSTANCE MovingMedian
Reversal == INSTANCE Reversal WITH window <- span

medianVars   == <<slice, alive>>
reversalVars == <<left, right, initial, index, span, extremum, signal>>

MethodsInit ==
  /\ Init /\ Median!Init /\ Reversal!Init
  /\ initial = Head(window)

(* One value for all of them. *)
Feed(v) == Consume(v) /\ Median!Consume(v) /\ Reversal!Consume(v)

(* The median is stored and read back between two values. *)
Reload == Median!RoundTrip /\ UNCHANGED <<vars, reversalVars>>

MethodsNext == (\E v \in Value : Feed(v)) \/ Reload

MethodsSpec ==
  MethodsInit /\ [][MethodsNext]_<<vars, medianVars, reversalVars>>

-----------------------------------------------------------------------------
(* Properties                                                              *)

(* "Moving median of specified length" (methods/smm.rs): where every number   *)
(* has one pattern, the slice that bisection keeps sorted answers the median  *)
(* of the last Length values, whenever it was stored and read back, and       *)
(* bisection never leaves the slice.                                          *)
MedianOfWindow == alive /\ Median!MedianOfWindow

(* As long as the counter counts, the reversal methods signal the pivots of   *)
(* the series and nothing else, although they look at the window only now and *)
(* then (methods/reversal.rs).                                                *)
PivotsWhileCounting == Reversal!PivotsWhileCounting
=============================================================================
