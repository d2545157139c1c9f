--------------------------- MODULE TickAggregator ---------------------------
(***************************************************************************)
(* Trades into candles (wickra_data/aggregator.rs TickAggregator): one     *)
(* open bar; a tick of a later bucket closes it and, where gaps are        *)
(* filled, every empty bucket between.                                     *)
(***************************************************************************)
EXTENDS Timeframe

CONSTANTS
  Ticks,      \* the trades that may be offered
  MaxVolume   \* the largest finite volume

VARIABLES
  bucket, fill,  \* the configuration
  bar,           \* open_bar
  taken,         \* history: the ticks consumed since a bar was first opened
  closed         \* history: the candles handed out since

vars == <<bucket, fill, bar, taken, closed>>

NoBar == [time |-> "none"]

FromTick(t) ==
  [time |-> Floor(t.time, bucket), last |-> t.time, open |-> t.price, high |-> t.price,
   low |-> t.price, close |-> t.price, volume |-> t.volume]

Absorb(t) ==
  [bar EXCEPT !.high = IF t.price > @ THEN t.price ELSE @,
              !.low = IF t.price < @ THEN t.price ELSE @,
              !.close = t.price, !.volume = @ + t.volume, !.last = t.time]

Finite(b) == b.volume <= MaxVolume

(* into_candle, of a bar whose volume is finite. *)
IntoCandle(b) ==
  [time |-> b.time, open |-> b.open, high |-> b.high, low |-> b.low, close |-> b.close,
   volume |-> b.volume]

(* The candles that a bucket further on closes. *)
Closes(next) ==
  <<IntoCandle(bar)>> \o (IF fill THEN FlatCandles(bar, next, bucket) ELSE <<>>)

(* push reports an error, and leaves the aggregator as it was. *)
Refused(t) ==
  LET next == Floor(t.time, bucket)
  IN  /\ bar # NoBar
      /\ \/ next < bar.time
         \/ next = bar.time /\ t.time < bar.last
         \/ next > bar.time /\ (~Finite(bar) \/ (fill /\ FillRefused(bar, next, bucket)))

(* push: what it answers is appended to closed. *)
Push(t) ==
  LET next == Floor(t.time, bucket)
  IN  /\ ~Refused(t)
      /\ UNCHANGED <<bucket, fill>>
      /\ \/ /\ bar = NoBar
            /\ bar' = FromTick(t) /\ taken' = <<t>> /\ closed' = <<>>
         \/ /\ bar # NoBar /\ next = bar.time
            /\ bar' = Absorb(t) /\ taken' = Append(taken, t) /\ UNCHANGED closed
         \/ /\ bar # NoBar /\ next > bar.time
            /\ bar' = FromTick(t) /\ taken' = Append(taken, t)
            /\ closed' = closed \o Closes(next)

(* flush: the bar is taken out even if it makes no candle. *)
Flush ==
  /\ bar # NoBar
  /\ bar' = NoBar
  /\ closed' = IF Finite(bar) THEN Append(closed, IntoCandle(bar)) ELSE closed
  /\ UNCHANGED <<bucket, fill, taken>>

Init == bar = NoBar /\ taken = <<>> /\ closed = <<>>

-----------------------------------------------------------------------------
(* Properties                                                              *)

AsItem(t) ==
  [time |-> t.time, open |-> t.price, high |-> t.price, low |-> t.price, close |-> t.price,
   volume |-> t.volume]

Buckets == INSTANCE BucketSeries WITH
  offered <- {AsItem(t) : t \in Ticks}, Ordered <- TRUE,
  taken <- [i \in DOMAIN taken |-> AsItem(taken[i])],
  open  <- bar # NoBar

(* Every tick that push accepts is in exactly one candle, and the candles   *)
(* are the buckets of the ticks in order - with flat ones between them, one  *)
(* for each empty bucket, if gaps are filled.  A refused tick, a gap too     *)
(* long or a volume that overflows leaves no trace.                          *)
ImplementsBucketSeries == Buckets!Spec
=============================================================================
