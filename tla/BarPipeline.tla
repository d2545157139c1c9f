---------------------------- MODULE BarPipeline ----------------------------
(***************************************************************************)
(* From ticks to coarse candles on the two ways the library offers: one    *)
(* aggregator makes fine candles that a resampler rolls up, as             *)
(* resample_all does with a series (wickra_data/resample.rs); another      *)
(* aggregator makes the coarse candles of the ticks themselves.            *)
(***************************************************************************)
EXTENDS Timeframe, SequencesExt

CONSTANTS
  Ticks, MaxVolume,
  Timeframes,  \* the fine and the coarse bucket, a multiple of it
  Fills,       \* which of the three stages fill gaps
  MaxTicks,    \* bound of the model: ticks in one series
  MaxQueue     \* bound of the model: candles on their way when a tick comes

Spans == {Timeframes.fine, Timeframes.coarse}

ASSUME BarPipelineAssumption ==
  /\ MinTime \in Int /\ MinTime <= 0 /\ MaxTime \in Nat /\ MaxFill \in Nat /\ MaxVolume \in Nat
  /\ Ticks \subseteq [time: MinTime .. MaxTime, price: Int, volume: 0 .. MaxVolume]
  /\ Timeframes.coarse % Timeframes.fine = 0
  /\ \A bucket \in Spans : bucket \in Nat \ {0} /\ MaxFill * bucket < MaxTime
  /\ Fills \subseteq [fine: BOOLEAN, coarse: BOOLEAN]

VARIABLES
  fineBar, fineTaken, fineClosed,        \* ticks to fine candles
  rolledBar, rolledTaken, rolledClosed,  \* fine to coarse candles
  directBar, directTaken, directClosed,  \* ticks to coarse candles
  fills,                                 \* which stages fill gaps
  queue                                  \* fine candles on their way

fineVars   == <<fineBar, fineTaken, fineClosed>>
rolledVars == <<rolledBar, rolledTaken, rolledClosed>>
directVars == <<directBar, directTaken, directClosed>>
vars       == <<fineVars, rolledVars, directVars, fills, queue>>

Fine == INSTANCE TickAggregator WITH
  bucket <- Timeframes.fine, fill <- fills.fine,
  bar <- fineBar, taken <- fineTaken, closed <- fineClosed

Direct == INSTANCE TickAggregator WITH
  bucket <- Timeframes.coarse, fill <- fills.coarse,
  bar <- directBar, taken <- directTaken, closed <- directClosed

Prices == {t.price : t \in Ticks}

Candles ==
  {c \in [time: MinTime .. MaxTime, open: Prices, high: Prices, low: Prices, close: Prices,
          volume: 0 .. MaxVolume] :
     /\ c.low <= c.open /\ c.low <= c.close /\ c.open <= c.high /\ c.close <= c.high}

Rolled == INSTANCE Resampler WITH
  offered <- ToSet(queue),
  bucket <- Timeframes.coarse, fill <- fills.coarse,
  bar <- rolledBar, taken <- rolledTaken, closed <- rolledClosed

-----------------------------------------------------------------------------

(* What the fine stage has handed out by the step under way. *)
Handed(before) == SubSeq(fineClosed', Len(before) + 1, Len(fineClosed'))

(* A stage that was flushed is as a new one: the model follows one series. *)
Unused(bar, taken) == bar # Fine!NoBar \/ taken = <<>>

(* A tick for both aggregators; a stage that refuses it stays as it is. *)
Trade(t) ==
  /\ UNCHANGED fills
  /\ Unused(fineBar, fineTaken) /\ Unused(directBar, directTaken)
  /\ Len(fineTaken) < MaxTicks /\ Len(directTaken) < MaxTicks /\ Len(queue) < MaxQueue
  /\ IF Fine!Refused(t) THEN UNCHANGED fineVars ELSE Fine!Push(t)
  /\ IF Direct!Refused(t) THEN UNCHANGED directVars ELSE Direct!Push(t)
  /\ queue' = queue \o IF fineBar = Fine!NoBar THEN <<>> ELSE Handed(fineClosed)
  /\ UNCHANGED rolledVars

(* The caller hands a fine candle on; a refused one is lost. *)
Deliver(i) ==
  /\ UNCHANGED fills
  /\ i \in DOMAIN queue /\ Unused(rolledBar, rolledTaken)
  /\ queue' = RemoveAt(queue, i)
  /\ IF Rolled!Refused(queue[i]) THEN UNCHANGED rolledVars ELSE Rolled!Push(queue[i])
  /\ UNCHANGED <<fineVars, directVars>>

FlushFine ==
  /\ UNCHANGED fills
  /\ Fine!Flush /\ Len(queue) < MaxQueue
  /\ queue' = queue \o Handed(fineClosed)
  /\ UNCHANGED <<rolledVars, directVars>>

FlushRolled == UNCHANGED fills /\ Rolled!Flush /\ UNCHANGED <<fineVars, directVars, queue>>

FlushDirect == UNCHANGED fills /\ Direct!Flush /\ UNCHANGED <<fineVars, rolledVars, queue>>

Init ==
  /\ Fine!Init /\ Rolled!Init /\ Direct!Init
  /\ fills \in Fills /\ queue = <<>>

Next ==
  \/ \E t \in Ticks : Trade(t)
  \/ \E i \in 1 .. 2 : Deliver(i)
  \/ FlushFine
  \/ FlushRolled
  \/ FlushDirect

Spec == Init /\ [][Next]_vars

-----------------------------------------------------------------------------
(* Properties                                                              *)

(* Every tick that push accepts is in exactly one candle, and the candles   *)
(* are the buckets of the ticks in order - with flat ones between them, one  *)
(* for each empty bucket, if gaps are filled.  A refused tick, a gap too     *)
(* long or a volume that overflows leaves no trace.                          *)
TicksAreBucketed == Fine!ImplementsBucketSeries /\ Direct!ImplementsBucketSeries

(* Every candle that push accepts, in whatever order within a bucket, is in *)
(* exactly one coarser candle, and those are the buckets in order; a late   *)
(* candle of an earlier bucket is refused and leaves no trace.              *)
CandlesAreBucketed == Rolled!ImplementsBucketSeries

Sum(items) ==
  LET sum[k \in 0 .. Len(items)] == IF k = 0 THEN 0 ELSE sum[k - 1] + items[k].volume
  IN  sum[Len(items)]

Whole(bar, closed) == IF bar = Fine!NoBar THEN closed ELSE Append(closed, Fine!IntoCandle(bar))

(* "Used to derive 5m bars from a 1m feed ... without touching the original *)
(* tick stream" (wickra_data/resample.rs): as long as the fine candles are   *)
(* handed on in order and only observed ones are, the coarse candles are     *)
(* those the ticks themselves would have made, and at the end all of them.   *)
ResampledIsDirect ==
  /\ fineTaken = directTaken
  /\ ~fills.fine
  /\ IsPrefix(rolledTaken, fineClosed)
  => /\ rolledBar # Rolled!NoBar
        => IsPrefix(rolledClosed, Whole(directBar, directClosed))
     /\ /\ fineBar = Fine!NoBar /\ Sum(fineClosed) = Sum(fineTaken)
        /\ rolledTaken = fineClosed
        /\ (rolledBar = Rolled!NoBar) = (directBar = Direct!NoBar)
        => Whole(rolledBar, rolledClosed) = Whole(directBar, directClosed)
=============================================================================
