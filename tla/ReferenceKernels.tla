-------------------------- MODULE ReferenceKernels --------------------------
(***************************************************************************)
(* The R1 kernels behind the engine's reference profiles                   *)
(* (engine/reference.rs and the algorithms of wickra/ it adapts): what     *)
(* each keeps between two bars, how one bar moves it on, when it yields a  *)
(* value, and the shape a restored one must have.                          *)
(*                                                                         *)
(* A number that rests on a sum of earlier bars is kept as what it is      *)
(* computed from - an average as the sequence of its inputs, a band as the *)
(* middle of its bar and the average of then - and evaluated, exactly, as  *)
(* a fraction where the code compares it.  Sums that the code recomputes   *)
(* from a window after every push are not kept beside the window.          *)
(***************************************************************************)
EXTENDS Integers, Sequences, SequencesExt

CONSTANTS
  Period,  \* the bars of a window: 9, 10 or 14 in the registered profiles
  Width    \* twice the multiplier of SuperTrend's bands

ASSUME PeriodAssumption == Period \in Nat \ {0} /\ Width \in Nat

ReferenceKinds == {"alma", "supertrend", "stoch_rsi", "vortex", "ulcer"}

Pair   == Int \X Int
Triple == Int \X Int \X Int

-----------------------------------------------------------------------------
(* Fractions and averages                                                  *)

Less(a, b) == a[1] * b[2] < b[1] * a[2]

(* Wilder's average: the mean of the first Period inputs, smoothed by the rest. *)
WilderStep(a, n, x) ==
  IF n <= Period THEN <<a[1] + x, Period>>
  ELSE <<a[1] * (Period - 1) + x * a[2], a[2] * Period>>

Smoothing(inputs) ==
  LET after[n \in 0 .. Len(inputs)] ==
        IF n = 0 THEN <<0, Period>> ELSE WilderStep(after[n - 1], n, inputs[n])
  IN  after

Wilder(inputs) == Smoothing(inputs)[Len(inputs)]

(* rsi_from_avgs of <<gains, losses>>, as a part of 1; no movement is the middle. *)
RsiValue(averages) ==
  LET gain == Wilder(averages[1])[1]
      loss == Wilder(averages[2])[1]
  IN  IF gain + loss = 0 THEN <<1, 2>> ELSE <<gain, gain + loss>>

-----------------------------------------------------------------------------
(* The states                                                              *)

Average == Seq(Int)
Atr     == [previous: Int, seed: Average, seeded: BOOLEAN, average: Average]
Rsi     == [previous: Int, seedGains: Average, seedLosses: Average, seeded: BOOLEAN,
            averages: Average \X Average]
Band    == [middle: Int, average: Average]
Bands   == [upper: Band, lower: Band, close: Int, direction: {1, -1}]

NoBands == [direction |-> 0]

Alma       == [kind: {"alma"}, window: Seq(Int), current: Seq(Int)]
SuperTrend == [kind: {"supertrend"}, atr: Atr, bands: Bands \cup {NoBands}]
StochRsi   == [kind: {"stoch_rsi"}, rsi: Rsi, window: Seq(Average \X Average), last: BOOLEAN,
               defined: Seq(BOOLEAN)]
Vortex     == [kind: {"vortex"}, previous: {<<>>} \cup Triple, window: Seq(Triple),
               last: BOOLEAN]
Ulcer      == [kind: {"ulcer"}, count: Nat, maxima: Seq(Nat \X Int), drawdowns: Seq(Pair),
               last: BOOLEAN]

ReferenceKernel == Alma \cup SuperTrend \cup StochRsi \cup Vortex \cup Ulcer

NewAtr == [previous |-> 0, seed |-> <<>>, seeded |-> FALSE, average |-> <<>>]
NewRsi == [previous |-> 0, seedGains |-> <<>>, seedLosses |-> <<>>, seeded |-> FALSE,
           averages |-> <<<<>>, <<>>>>]

NewReference(kind) ==
  CASE kind = "alma"       -> [kind |-> kind, window |-> <<>>, current |-> <<>>]
    [] kind = "supertrend" -> [kind |-> kind, atr |-> NewAtr, bands |-> NoBands]
    [] kind = "stoch_rsi"  -> [kind |-> kind, rsi |-> NewRsi, window |-> <<>>,
                               last |-> FALSE, defined |-> <<>>]
    [] kind = "vortex"     -> [kind |-> kind, previous |-> <<>>, window |-> <<>>,
                               last |-> FALSE]
    [] OTHER               -> [kind |-> kind, count |-> 0, maxima |-> <<>>,
                               drawdowns |-> <<>>, last |-> FALSE]

-----------------------------------------------------------------------------
(* One bar into one kernel                                                 *)

Larger(a, b) == IF a < b THEN b ELSE a
Smaller(a, b) == IF a < b THEN a ELSE b

(* A window's oldest member leaves it before a new one enters, if it is full. *)
Push(window, x) ==
  Append(IF Len(window) = Period THEN Tail(window) ELSE window, x)

(* true_range; the first bar has no previous close. *)
TrueRange(c, previous) ==
  IF previous = 0 THEN c.high - c.low
  ELSE Larger(c.high, previous) - Smaller(c.low, previous)

AlmaStep(k, c) ==
  LET window == Push(k.window, c.close)
  IN  [k EXCEPT !.window = window,
                !.current = IF Len(window) < Period THEN @ ELSE window]

AtrUpdate(a, c) ==
  LET range == TrueRange(c, a.previous)
      seed  == Append(a.seed, range)
  IN  IF a.seeded
      THEN [a EXCEPT !.previous = c.close, !.average = Append(@, range)]
      ELSE IF Len(seed) < Period
      THEN [a EXCEPT !.previous = c.close, !.seed = seed]
      ELSE [previous |-> c.close, seed |-> seed, seeded |-> TRUE, average |-> seed]

(* The value of a band, doubled: sign is 1 for the upper one, -1 for the lower. *)
BandValue(band, sign) ==
  LET a == Wilder(band.average)
  IN  <<band.middle * a[2] + sign * Width * a[1], a[2]>>

Twice(price) == <<2 * price, 1>>

(* Mutant: a band that was closed through is kept. *)
UpperBand_Kept(old, basic) ==
  IF Less(BandValue(basic, 1), BandValue(old.upper, 1)) THEN basic ELSE old.upper

UpperBand(old, basic) ==
  IF \/ Less(BandValue(basic, 1), BandValue(old.upper, 1))
     \/ Less(BandValue(old.upper, 1), Twice(old.close))
  THEN basic ELSE old.upper

LowerBand(old, basic) ==
  IF \/ Less(BandValue(old.lower, -1), BandValue(basic, -1))
     \/ Less(Twice(old.close), BandValue(old.lower, -1))
  THEN basic ELSE old.lower

Direction(old, upper, lower, close) ==
  IF old.direction < 0
  THEN IF Less(BandValue(upper, 1), Twice(close)) THEN 1 ELSE -1
  ELSE IF Less(Twice(close), BandValue(lower, -1)) THEN -1 ELSE 1

NextBands(old, average, c) ==
  LET basic == [middle |-> c.high + c.low, average |-> average]
      upper == UpperBand(old, basic)
      lower == LowerBand(old, basic)
  IN  IF old = NoBands
      THEN [upper |-> basic, lower |-> basic, close |-> c.close, direction |-> 1]
      ELSE [upper |-> upper, lower |-> lower, close |-> c.close,
            direction |-> Direction(old, upper, lower, c.close)]

SuperTrendStep(k, c) ==
  LET atr == AtrUpdate(k.atr, c)
  IN  [k EXCEPT !.atr = atr,
                !.bands = IF atr.seeded THEN NextBands(@, atr.average, c) ELSE @]

RsiUpdate(r, close) ==
  LET gain   == Larger(close - r.previous, 0)
      loss   == Larger(r.previous - close, 0)
      gains  == Append(r.seedGains, gain)
      losses == Append(r.seedLosses, loss)
  IN  IF r.previous = 0
      THEN [r EXCEPT !.previous = close]
      ELSE IF r.seeded
      THEN [r EXCEPT !.previous = close,
                     !.averages = <<Append(@[1], gain), Append(@[2], loss)>>]
      ELSE [previous |-> close, seedGains |-> gains, seedLosses |-> losses,
            seeded |-> Len(gains) = Period,
            averages |-> IF Len(gains) = Period THEN <<gains, losses>> ELSE r.averages]

Moved(averages) == Wilder(averages[1])[1] + Wilder(averages[2])[1] > 0

(* Mutant: the mark of the oldest RSI stays. *)
StochRsiStep_OldMarks(k, c) ==
  LET rsi    == RsiUpdate(k.rsi, c.close)
      window == Push(k.window, rsi.averages)
  IN  IF ~rsi.seeded THEN [k EXCEPT !.rsi = rsi]
      ELSE [k EXCEPT !.rsi = rsi, !.window = window, !.last = @ \/ Len(window) = Period,
                     !.defined = IF Len(@) = Period THEN @ ELSE Append(@, Moved(rsi.averages))]

(* Every RSI has its mark beside it: whether there was movement behind it. *)
StochRsiStep(k, c) ==
  LET rsi    == RsiUpdate(k.rsi, c.close)
      window == Push(k.window, rsi.averages)
  IN  IF ~rsi.seeded THEN [k EXCEPT !.rsi = rsi]
      ELSE [k EXCEPT !.rsi = rsi, !.window = window, !.last = @ \/ Len(window) = Period,
                     !.defined = Push(@, Moved(rsi.averages))]

Distance(a, b) == Larger(a - b, b - a)

(* previous is <<high, low, close>>; a member of the window is <<VM+, VM-, TR>>. *)
VortexStep(k, c) ==
  LET p      == k.previous
      moves  == <<Distance(c.high, p[2]), Distance(c.low, p[1]), TrueRange(c, p[3])>>
      window == Push(k.window, moves)
  IN  IF p = <<>> THEN [k EXCEPT !.previous = <<c.high, c.low, c.close>>]
      ELSE [k EXCEPT !.previous = <<c.high, c.low, c.close>>, !.window = window,
                     !.last = @ \/ Len(window) = Period]

(* Mutant: a price equal to the new one stays. *)
Dominating_Equal(maxima, price) ==
  SubSeq(maxima, 1,
         CHOOSE n \in 0 .. Len(maxima) :
           /\ \A i \in n + 1 .. Len(maxima) : maxima[i][2] < price
           /\ n > 0 => maxima[n][2] >= price)

(* What is left of the deque when its tail is popped as long as it does not *)
(* exceed the new price.                                                    *)
Dominating(maxima, price) ==
  SubSeq(maxima, 1,
         CHOOSE n \in 0 .. Len(maxima) :
           /\ \A i \in n + 1 .. Len(maxima) : maxima[i][2] <= price
           /\ n > 0 => maxima[n][2] > price)

(* What is left when its head is popped as long as it is older than first. *)
Recent(maxima, first) ==
  SubSeq(maxima,
         CHOOSE n \in 1 .. Len(maxima) :
           /\ \A i \in 1 .. n - 1 : maxima[i][1] < first
           /\ maxima[n][1] >= first,
         Len(maxima))

(* Mutant: the head expires a bar late. *)
Maxima_Late(k, price) ==
  LET count == k.count + 1
  IN  Recent(Append(Dominating(k.maxima, price), <<count, price>>),
             Larger(count - Period, 0))

Maxima(k, price) ==
  LET count == k.count + 1
  IN  Recent(Append(Dominating(k.maxima, price), <<count, price>>),
             Larger(count - (Period - 1), 0))

(* A drawdown is the close and the highest close of the window that ends with it. *)
UlcerStep(k, c) ==
  LET maxima    == Maxima(k, c.close)
      drawdowns == Push(k.drawdowns, <<c.close, maxima[1][2]>>)
  IN  IF k.count + 1 < Period
      THEN [k EXCEPT !.count = @ + 1, !.maxima = maxima]
      ELSE [k EXCEPT !.count = @ + 1, !.maxima = maxima, !.drawdowns = drawdowns,
                     !.last = @ \/ Len(drawdowns) = Period]

ReferenceStep(k, c) ==
  CASE k.kind = "alma"       -> AlmaStep(k, c)
    [] k.kind = "supertrend" -> SuperTrendStep(k, c)
    [] k.kind = "stoch_rsi"  -> StochRsiStep(k, c)
    [] k.kind = "vortex"     -> VortexStep(k, c)
    [] OTHER                 -> UlcerStep(k, c)

(* Whether the stepped kernel yields its values. *)
ReferenceDefined(k) ==
  CASE k.kind = "alma"       -> Len(k.window) = Period
    [] k.kind = "supertrend" -> k.atr.seeded
    [] k.kind = "stoch_rsi"  -> /\ Len(k.defined) = Period
                                /\ \A i \in DOMAIN k.defined : k.defined[i]
                                /\ \E i, j \in DOMAIN k.window :
                                     Less(RsiValue(k.window[i]), RsiValue(k.window[j]))
    [] k.kind = "vortex"     -> /\ Len(k.window) = Period
                                /\ \E i \in DOMAIN k.window : k.window[i][3] > 0
    [] OTHER                 -> Len(k.drawdowns) = Period

-----------------------------------------------------------------------------
(* Reference::valid_for                                                    *)

Filled(samples, before) == Smaller(Larger(samples - before, 0), Period)

AtrValid(a, samples) ==
  /\ (a.previous # 0) <=> (samples > 0)
  /\ a.previous >= 0
  /\ Len(a.seed) = Filled(samples, 0)
  /\ \A i \in DOMAIN a.seed : a.seed[i] >= 0
  /\ a.seeded <=> (samples >= Period)
  /\ a.seeded \/ a.average = <<>>

RsiValid(r, samples) ==
  /\ (r.previous # 0) <=> (samples > 0)
  /\ r.previous >= 0
  /\ Len(r.seedGains) = Filled(samples, 1) /\ Len(r.seedLosses) = Filled(samples, 1)
  /\ \A i \in DOMAIN r.seedGains : r.seedGains[i] >= 0
  /\ \A i \in DOMAIN r.seedLosses : r.seedLosses[i] >= 0
  /\ r.seeded <=> (samples >= Period + 1)

SuperTrendValid(k, samples) ==
  /\ AtrValid(k.atr, samples)
  /\ (k.bands # NoBands) <=> (samples >= Period)
  /\ k.bands # NoBands => k.bands.close = k.atr.previous

StochRsiValid(k, samples) ==
  /\ RsiValid(k.rsi, samples)
  /\ Len(k.window) = Filled(samples, Period)
  /\ k.last <=> (samples >= 2 * Period)
  /\ Len(k.defined) = Len(k.window)

VortexValid(k, samples) ==
  /\ (k.previous # <<>>) <=> (samples > 0)
  /\ Len(k.window) = Filled(samples, 1)
  /\ \A i \in DOMAIN k.window : \A n \in 1 .. 3 : k.window[i][n] >= 0
  /\ k.last <=> (samples >= Period + 1)

UlcerValid(k, samples) ==
  /\ k.count = samples
  /\ (k.maxima = <<>>) <=> (samples = 0)
  /\ Len(k.maxima) <= Filled(samples, 0)
  /\ \A i \in DOMAIN k.maxima :
       /\ k.maxima[i][1] > 0 /\ k.maxima[i][1] <= samples
       /\ k.maxima[i][1] >= samples - (Period - 1)
       /\ k.maxima[i][2] > 0
  /\ \A i \in 1 .. Len(k.maxima) - 1 : /\ k.maxima[i][1] < k.maxima[i + 1][1]
                                       /\ k.maxima[i][2] > k.maxima[i + 1][2]
  /\ Len(k.drawdowns) = Filled(samples, Period - 1)
  /\ k.last <=> (samples >= 2 * Period - 1)

ReferenceValid(k, kind, samples) ==
  CASE kind = "alma"       -> /\ Len(k.window) = Filled(samples, 0)
                              /\ \A i \in DOMAIN k.window : k.window[i] > 0
                              /\ (k.current # <<>>) <=> (samples >= Period)
    [] kind = "supertrend" -> SuperTrendValid(k, samples)
    [] kind = "stoch_rsi"  -> StochRsiValid(k, samples)
    [] kind = "vortex"     -> VortexValid(k, samples)
    [] OTHER               -> UlcerValid(k, samples)
=============================================================================
