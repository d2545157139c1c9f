----------------------------- MODULE KernelFeed -----------------------------
(***************************************************************************)
(* One stream of any kind fed with a long series (engine/mod.rs            *)
(* Stream::update), beside the series itself: what a kernel keeps, and     *)
(* when it says what, against what its series would tell.                  *)
(***************************************************************************)
EXTENDS StreamState

CONSTANT MaxBars  \* bound of the model: the length of the series

(* The bars each reference profile needs for its first value: its registered *)
(* minimum_bars.                                                             *)
FirstValue(kind) ==
  CASE kind \in {"alma", "supertrend"} -> Period
    [] kind = "stoch_rsi"              -> 2 * Period
    [] kind = "vortex"                 -> Period + 1
    [] OTHER                           -> 2 * Period - 1

ASSUME FeedAssumption ==
  /\ Period > 1
  /\ \A p \in Profiles \cap ReferenceKinds : MinimumBars[p] = FirstValue(p)
  /\ "rsi" \in Profiles => MinimumBars["rsi"] > 1

VARIABLES
  feed,  \* the State of the stream that is fed
  bars   \* history: the candles consumed

feedVars == <<feed, bars>>

FeedInit ==
  /\ \E id \in Identities, p \in Profiles : feed = NewStream(id, p)
  /\ bars = <<>>

(* Time only matters to the checks of a bar: closes here are one apart. *)
FeedBar(c) ==
  LET bar == [closed |-> feed.closed + 1, available |-> feed.closed + 1, candle |-> c]
  IN  /\ Len(bars) < MaxBars /\ feed.closed < MaxTime
      /\ Acceptable(bar, bar.available, feed)
      /\ feed' = Consume(feed, bar)
      /\ bars' = Append(bars, c)

(* The series, or the clock, ends. *)
FeedEnds == (Len(bars) = MaxBars \/ feed.closed = MaxTime) /\ UNCHANGED feedVars

FeedNext == (\E c \in Candles : FeedBar(c)) \/ FeedEnds

FeedSpec == FeedInit /\ [][FeedNext]_feedVars

-----------------------------------------------------------------------------
(* What a series of candles tells, from its beginning                      *)

(* The last Period of the things numbered from first to n. *)
Trailing(n, first, things) ==
  LET from == Larger(first, n - Period + 1)
  IN  [i \in 1 .. Larger(n - from + 1, 0) |-> things[from + i - 1]]

Closes(s)    == [i \in DOMAIN s |-> s[i].close]
Turnovers(s) == [i \in DOMAIN s |-> <<s[i].close, s[i].volume>>]
Extremes(s)  == [i \in DOMAIN s |-> <<s[i].high, s[i].low>>]

RangeAt(s, i) ==
  IF i = 1 THEN s[i].high - s[i].low
  ELSE Larger(s[i].high, s[i - 1].close) - Smaller(s[i].low, s[i - 1].close)
Ranges(s, n)  == [i \in 1 .. n |-> RangeAt(s, i)]
BasicAt(s, i) == [middle |-> s[i].high + s[i].low, average |-> Ranges(s, i)]

Moves(s) ==
  [i \in 2 .. Len(s) |-> <<Distance(s[i].high, s[i - 1].low),
                           Distance(s[i].low, s[i - 1].high), RangeAt(s, i)>>]

Gains(s, n)  == [i \in 1 .. n - 1 |-> Larger(s[i + 1].close - s[i].close, 0)]
Losses(s, n) == [i \in 1 .. n - 1 |-> Larger(s[i].close - s[i + 1].close, 0)]
Averages(s)  == [i \in 2 .. Len(s) |-> <<Gains(s, i), Losses(s, i)>>]

(* The highest close of the Period bars that end with bar i. *)
HighestClose(s, i) ==
  LET closes == {s[j].close : j \in Larger(1, i - Period + 1) .. i}
  IN  CHOOSE x \in closes : \A y \in closes : y <= x
Drawdowns(s) == [i \in DOMAIN s |-> <<s[i].close, HighestClose(s, i)>>]

-----------------------------------------------------------------------------
(* Properties                                                              *)

(* What restore asks of a kernel - window lengths, seeds, marks, deque and  *)
(* last value after n bars - is met by every kernel after every series, so  *)
(* a snapshot can always be taken up again (Kernel::valid_for).             *)
KernelsRestorable ==
  Restorable(SnapshotOf(feed), feed.identity, feed.profile)

(* The window of a kernel that was fed the series s. *)
Trails(k, s) ==
  LET n == Len(s)
  IN  CASE k.kind = "vwma"       -> k.window = Trailing(n, 1, Turnovers(s))
        [] k.kind = "williams"   -> k.window = Trailing(n, 1, Extremes(s))
        [] k.kind = "alma"       -> k.window = Trailing(n, 1, Closes(s))
        [] k.kind = "vortex"     -> k.window = Trailing(n, 2, Moves(s))
        [] k.kind = "stoch_rsi"  -> k.window = Trailing(n, Period + 1, Averages(s))
        [] k.kind = "supertrend" -> k.atr.seeded => k.atr.average = Ranges(s, n)
        [] k.kind = "ulcer"      -> /\ k.drawdowns = Trailing(n, Period, Drawdowns(s))
                                    /\ n > 0 => k.maxima[1][2] = HighestClose(s, n)
        [] OTHER                 -> TRUE

(* A kernel's window is the end of its series and nothing else: no bar stays *)
(* too long, is left out or counted twice; each drawdown of Ulcer rests on   *)
(* the highest close of its own window, and the front of the deque is the    *)
(* highest close of the present one; SuperTrend's ATR rests on every range   *)
(* from the first (docs/contracts/reference-r1.md).                          *)
WindowsAreTrailing == Trails(feed.kernel, bars)

(* Whether a profile has a value at the end of the series s: StochRSI unless *)
(* one of its RSIs had no movement behind it or all are equal, Vortex unless *)
(* its pairs have no range, VWMA and Williams %R unless theirs have no       *)
(* volume or no range.                                                       *)
Stated(profile, s) ==
  LET n     == Len(s)
      last  == Larger(1, n - Period + 1) .. n
      since == Larger(Period + 1, n - Period + 1) .. n
  IN  CASE profile = "stoch_rsi" ->
             /\ \A i \in since : \E j \in 1 .. i - 1 : s[j].close # s[j + 1].close
             /\ \E i, j \in since : Less(RsiValue(Averages(s)[i]), RsiValue(Averages(s)[j]))
        [] profile = "vortex"   -> \E i \in last : RangeAt(s, i) > 0
        [] profile = "vwma"     -> \E i \in last : s[i].volume > 0
        [] profile = "williams" -> \E i, j \in last : s[i].high > s[j].low
        [] OTHER                -> TRUE

(* What docs/contracts/reference-r1.md and the profiles promise of a row:   *)
(* it is warming up exactly as long as no series of that length has a value; *)
(* then it is undefined while one of the cases above lasts, and recovers     *)
(* once those bars are out of the window.                                    *)
UndefinedAsStated ==
  LET n      == Len(bars)
      status == feed.latest.status
  IN  /\ n < MinimumBars[feed.profile] =>
           /\ status = "WarmingUp"
           /\ feed.profile \in ReferenceKinds => ~Defined(feed.kernel)
      /\ n >= MinimumBars[feed.profile] =>
           status = IF Stated(feed.profile, bars) THEN "Ready" ELSE "UndefinedResult"

(* A final band of the series s is the tightest of the basic bands since     *)
(* some bar, and no close since then, but the last, lies beyond it.          *)
UpperRatchets(band, s) ==
  \E m \in Period .. Len(s) :
    /\ band = BasicAt(s, m)
    /\ \A i \in m .. Len(s) : ~Less(BandValue(BasicAt(s, i), 1), BandValue(band, 1))
    /\ \A i \in m .. Len(s) - 1 : ~Less(BandValue(band, 1), Twice(s[i].close))
LowerRatchets(band, s) ==
  \E m \in Period .. Len(s) :
    /\ band = BasicAt(s, m)
    /\ \A i \in m .. Len(s) : ~Less(BandValue(band, -1), BandValue(BasicAt(s, i), -1))
    /\ \A i \in m .. Len(s) - 1 : ~Less(Twice(s[i].close), BandValue(band, -1))

(* "The final bands ratchet - the upper band only moves down (and the lower *)
(* band only moves up) until price closes through it" (wickra/super_trend.rs). *)
BandsRatchet ==
  feed.profile = "supertrend" /\ Len(bars) >= Period =>
    UpperRatchets(feed.kernel.bands.upper, bars) /\ LowerRatchets(feed.kernel.bands.lower, bars)

-----------------------------------------------------------------------------
(* The inductive invariants                                                *)

(* Behind KernelsRestorable: the stream is linked to the log of some series. *)
FeedInv == feed \in State /\ \E l \in Seq(Entry) : Linked(feed, l)

(* What a kernel keeps of the series s besides its window: the previous     *)
(* close, the averages before they are seeded, a mark beside each RSI, and   *)
(* in Ulcer's deque closes of the series, one as late and as high as each of *)
(* the window's.                                                             *)
Keeps(k, s) ==
  LET n        == Len(s)
      previous == IF n = 0 THEN 0 ELSE s[n].close
  IN  CASE k.kind = "stoch_rsi" ->
             /\ k.rsi.previous = previous
             /\ ~k.rsi.seeded => k.rsi.seedGains = Gains(s, n) /\ k.rsi.seedLosses = Losses(s, n)
             /\ k.rsi.seeded => k.rsi.averages = <<Gains(s, n), Losses(s, n)>>
             /\ k.defined = Trailing(n, Period + 1, [i \in 2 .. n |-> Moved(Averages(s)[i])])
        [] k.kind = "supertrend" ->
             /\ k.atr.previous = previous
             /\ ~k.atr.seeded => k.atr.seed = Ranges(s, n)
             /\ n >= Period => UpperRatchets(k.bands.upper, s) /\ LowerRatchets(k.bands.lower, s)
        [] k.kind = "vortex" -> k.previous = IF n = 0 THEN <<>> ELSE <<s[n].high, s[n].low, s[n].close>>
        [] k.kind = "ulcer" ->
             /\ \A m \in DOMAIN k.maxima : k.maxima[m][2] = s[k.maxima[m][1]].close
             /\ \A j \in Larger(1, n - Period + 1) .. n :
                  \E m \in DOMAIN k.maxima : k.maxima[m][1] >= j /\ k.maxima[m][2] >= s[j].close
        [] OTHER -> TRUE

SeriesInv ==
  /\ FeedInv
  /\ bars \in Seq(Candles) /\ Len(bars) = feed.samples
  /\ \A i \in DOMAIN bars : ValidCandle(bars[i])
  /\ Trails(feed.kernel, bars) /\ Keeps(feed.kernel, bars)
  /\ feed.latest.status = IF bars = <<>> THEN "WarmingUp"
                          ELSE RowStatus(feed.profile, Len(bars), feed.kernel)
=============================================================================
