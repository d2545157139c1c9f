------------------------------ MODULE Resampler ------------------------------
(***************************************************************************)
(* Candles into coarser candles (wickra_data/resample.rs Resampler).  The  *)
(* open bar does not know when its last candle was: within a bucket, any   *)
(* order is accepted.                                                      *)
(***************************************************************************)
EXTENDS Timeframe

CONSTANTS
  Candles,    \* the candles that may be offered
  MaxVolume   \* the largest finite volume

VARIABLES
  offered,       \* the candles the caller holds
  bucket, fill,  \* the configuration
  bar,           \* open
  taken,         \* history: the candles consumed since a bar was first opened
  closed         \* history: the candles handed out since

vars == <<bucket, fill, bar, taken, closed>>

NoBar == [time |-> "none"]

(* Mutant: a bar begins when its first candle does. *)
FromCandle_OwnTime(c) == c

FromCandle(c) == [c EXCEPT !.time = Floor(@, bucket)]

(* Mutant: the volume is the last candle's. *)
Absorb_LastVolume(c) ==
  [bar EXCEPT !.high = IF c.high > @ THEN c.high ELSE @,
              !.low = IF c.low < @ THEN c.low ELSE @,
              !.close = c.close, !.volume = c.volume]

Absorb(c) ==
  [bar EXCEPT !.high = IF c.high > @ THEN c.high ELSE @,
              !.low = IF c.low < @ THEN c.low ELSE @,
              !.close = c.close, !.volume = @ + c.volume]

Finite(b) == b.volume <= MaxVolume

(* The candles that a bucket further on closes. *)
Closes(next) ==
  <<bar>> \o (IF fill THEN FlatCandles(bar, next, bucket) ELSE <<>>)

(* push reports an error, and leaves the resampler as it was. *)
Refused(c) ==
  LET next == Floor(c.time, bucket)
  IN  /\ bar # NoBar
      /\ \/ next < bar.time
         \/ next > bar.time /\ (~Finite(bar) \/ (fill /\ FillRefused(bar, next, bucket)))

(* push: what it answers is appended to closed. *)
Push(c) ==
  LET next == Floor(c.time, bucket)
  IN  /\ ~Refused(c)
      /\ UNCHANGED <<bucket, fill>>
      /\ \/ /\ bar = NoBar
            /\ bar' = FromCandle(c) /\ taken' = <<c>> /\ closed' = <<>>
         \/ /\ bar # NoBar /\ next = bar.time
            /\ bar' = Absorb(c) /\ taken' = Append(taken, c) /\ UNCHANGED closed
         \/ /\ bar # NoBar /\ next > bar.time
            /\ bar' = FromCandle(c) /\ taken' = Append(taken, c)
            /\ closed' = closed \o Closes(next)

(* flush: the bar is taken out even if it makes no candle. *)
Flush ==
  /\ bar # NoBar
  /\ bar' = NoBar
  /\ closed' = IF Finite(bar) THEN Append(closed, bar) ELSE closed
  /\ UNCHANGED <<bucket, fill, taken>>

Init == bar = NoBar /\ taken = <<>> /\ closed = <<>>

-----------------------------------------------------------------------------
(* Properties                                                              *)

Buckets == INSTANCE BucketSeries WITH
  Ordered <- FALSE, open <- bar # NoBar

(* Every candle that push accepts, in whatever order within a bucket, is in *)
(* exactly one coarser candle, and those are the buckets in order; a late   *)
(* candle of an earlier bucket is refused and leaves no trace.              *)
ImplementsBucketSeries == Buckets!Spec
=============================================================================
