------------------------------ MODULE Timeframe ------------------------------
(***************************************************************************)
(* Buckets of time and the flat candles between two of them                *)
(* (wickra_data/aggregator.rs): integers of the width of i64, saturating   *)
(* where the code says so.                                                 *)
(***************************************************************************)
EXTENDS Integers, Sequences

CONSTANTS
  MinTime,   \* i64::MIN
  MaxTime,   \* i64::MAX
  MaxFill    \* MAX_GAP_FILL_CANDLES

SaturatingAdd(a, b) == IF a + b > MaxTime THEN MaxTime ELSE a + b
SaturatingSub(a, b) == IF a - b < MinTime THEN MinTime
                       ELSE IF a - b > MaxTime THEN MaxTime ELSE a - b

Floor(time, bucket) == SaturatingSub(time, time % bucket)

(* Mutant: a gap that is not a whole number of buckets counts one short. *)
GapCount_Quotient(start, next, step) == SaturatingSub(next, start) \div step

GapCount(start, next, step) ==
  LET span == SaturatingSub(next, start)
  IN  span \div step + (IF span % step = 0 THEN 0 ELSE 1)

IsGap(prev, next, step) == prev.time + step < next

(* fill_flat_candles reports an error: the clock ends, or the gap is too long. *)
FillRefused(prev, next, step) ==
  \/ prev.time + step > MaxTime
  \/ IsGap(prev, next, step) /\ GapCount(prev.time + step, next, step) > MaxFill

Flat(price, time) ==
  [time |-> time, open |-> price, high |-> price, low |-> price, close |-> price, volume |-> 0]

(* fill_flat_candles, where it does not. *)
FlatCandles(prev, next, step) ==
  IF ~IsGap(prev, next, step) THEN <<>>
  ELSE [n \in 1 .. GapCount(prev.time + step, next, step) |->
          Flat(prev.close, SaturatingAdd(prev.time, n * step))]
=============================================================================
