---------------------------- MODULE StreamProofs ----------------------------
(***************************************************************************)
(* Proofs about a stream of the engine: what one fed with a long series    *)
(* keeps (KernelFeed), and what holds whatever its owner does with it and  *)
(* with its snapshots (EngineStream), for any identities, profiles,        *)
(* candles, clock range and window length.                                 *)
(***************************************************************************)
EXTENDS EngineStream, KernelFeed, StreamStateProofs

-----------------------------------------------------------------------------
(* A stream fed with a series                                              *)

(* Every accepted bar, of whatever kind of stream, keeps the state linked to *)
(* the log of its bars (Stream::update).                                     *)
THEOREM FeedInvariance == FeedSpec => []FeedInv
<1>1. FeedInit => FeedInv
  <2> SUFFICES ASSUME FeedInit PROVE FeedInv
    OBVIOUS
  <2>1. PICK id \in Identities, p \in Profiles : feed = NewStream(id, p)
    BY DEF FeedInit
  <2>2. <<>> \in Seq(Entry)
    OBVIOUS
  <2>3. QED
    BY <2>1, <2>2, NewStreamLinked DEF FeedInv
<1>2. FeedInv /\ [FeedNext]_feedVars => FeedInv'
  <2> SUFFICES ASSUME FeedInv, [FeedNext]_feedVars PROVE FeedInv'
    OBVIOUS
  <2>1. CASE UNCHANGED feed
    BY <2>1 DEF FeedInv
  <2>2. CASE \E c \in Candles : FeedBar(c)
    <3>1. PICK c \in Candles : FeedBar(c)
      BY <2>2
    <3>2. PICK l \in Seq(Entry) : Linked(feed, l)
      BY DEF FeedInv
    <3> DEFINE bar == [closed |-> feed.closed + 1, available |-> feed.closed + 1,
                       candle |-> c]
               e   == [series |-> <<feed.identity, feed.profile>>, bar |-> bar]
    <3>3. /\ feed \in State /\ feed.closed \in Nat /\ feed.closed < MaxTime
          /\ feed.identity \in Identities /\ feed.profile \in Profiles
      BY <3>1 DEF FeedInv, State, FeedBar
    <3>4. bar \in Bar /\ bar.available \in Time
      BY <3>3, EngineAssumption DEF Bar, Time
    <3>5. e \in Entry /\ e.bar = bar
      BY <3>3, <3>4 DEF Entry
    <3>6. Acceptable(bar, bar.available, feed) /\ feed' = Consume(feed, bar)
      BY <3>1 DEF FeedBar
    <3> HIDE DEF bar
    <3>7. Consume(feed, bar) \in State /\ Linked(Consume(feed, bar), Append(l, e))
      BY <3>2, <3>3, <3>4, <3>5, <3>6, ConsumeLinked
    <3>8. Append(l, e) \in Seq(Entry)
      BY <3>5
    <3> HIDE DEF e
    <3> DEFINE m == Append(l, e)
    <3>9. feed' \in State /\ Linked(feed', m)
      BY <3>6, <3>7
    <3> HIDE DEF m
    <3>10. QED
      BY <3>8, <3>9 DEF FeedInv, m
  <2>3. QED
    BY <2>1, <2>2 DEF FeedNext, FeedEnds, feedVars
<1>3. QED
  BY <1>1, <1>2, PTL DEF FeedSpec

(* A snapshot of any kernel, after any series, can be taken up again: what   *)
(* valid_for and restore ask of it is what the steps establish, for every    *)
(* period (Kernel::valid_for, ReferenceKernel::valid_for).                   *)
THEOREM FeedsRestorable == FeedSpec => []KernelsRestorable
<1>1. FeedInv => KernelsRestorable
  BY LinkedRestorable DEF FeedInv, KernelsRestorable
<1>2. QED
  BY <1>1, FeedInvariance, PTL

-----------------------------------------------------------------------------
(* The end of a series                                                     *)

(* The members of the end of a series, and how many there are. *)
LEMMA TrailingParts ==
  ASSUME NEW n \in Nat, NEW first \in Nat \ {0}, NEW t
  PROVE  LET from == Larger(first, n - Period + 1)
             w    == Trailing(n, first, t)
         IN  /\ from \in Nat \ {0} /\ first <= from
             /\ DOMAIN w = 1 .. Filled(n, first - 1)
             /\ \A i \in DOMAIN w : w[i] = t[from + i - 1] /\ from + i - 1 \in from .. n
             /\ \A j \in from .. n : j - from + 1 \in DOMAIN w /\ w[j - from + 1] = t[j]
<1> DEFINE from == Larger(first, n - Period + 1)
           w    == Trailing(n, first, t)
<1>1. from \in Nat \ {0} /\ first <= from
  BY PeriodAssumption DEF Larger
<1>2. w = [i \in 1 .. Larger(n - from + 1, 0) |-> t[from + i - 1]]
  BY DEF Trailing
<1>3. Larger(n - from + 1, 0) = Filled(n, first - 1)
  BY PeriodAssumption DEF Larger, Smaller, Filled
<1> HIDE DEF from, w
<1>4. \A i \in 1 .. Larger(n - from + 1, 0) : from + i - 1 \in from .. n
  BY <1>1 DEF Larger
<1>5. \A j \in from .. n : /\ j - from + 1 \in 1 .. Larger(n - from + 1, 0)
                           /\ from + (j - from + 1) - 1 = j
  BY <1>1 DEF Larger
<1>6. QED BY <1>1, <1>2, <1>3, <1>4, <1>5 DEF from, w

(* Things that agree on the series so far have the same end. *)
LEMMA TrailingSame ==
  ASSUME NEW n \in Nat, NEW first \in Nat \ {0}, NEW t, NEW u,
         \A i \in first .. n : u[i] = t[i]
  PROVE  Trailing(n, first, u) = Trailing(n, first, t)
<1> DEFINE from == Larger(first, n - Period + 1)
<1>1. \A i \in 1 .. Larger(n - from + 1, 0) : from + i - 1 \in first .. n
  BY PeriodAssumption DEF Larger
<1>2. \A i \in 1 .. Larger(n - from + 1, 0) : u[from + i - 1] = t[from + i - 1]
  BY <1>1
<1>3. QED BY <1>2 DEF Trailing

(* A thing pushed onto the end of a series gives the end of the longer one. *)
LEMMA TrailingNext ==
  ASSUME NEW n \in Nat, NEW first \in Nat \ {0}, first <= n + 1, NEW t, NEW u,
         \A i \in first .. n : u[i] = t[i]
  PROVE  Push(Trailing(n, first, t), u[n + 1]) = Trailing(n + 1, first, u)
<1> DEFINE from == Larger(first, n - Period + 1)
           next == Larger(first, (n + 1) - Period + 1)
           m    == n - from + 1
           w    == [i \in 1 .. m |-> u[from + i - 1]]
           v    == [i \in 1 .. (n + 1) - next + 1 |-> u[next + i - 1]]
           x    == u[n + 1]
           S    == {u[i] : i \in first .. n + 1}
<1>1. /\ from \in Nat \ {0} /\ first <= from /\ m \in 0 .. Period /\ from + m = n + 1
      /\ next = IF m = Period THEN from + 1 ELSE from
      /\ Larger(n - from + 1, 0) = m /\ Larger((n + 1) - next + 1, 0) = (n + 1) - next + 1
  BY PeriodAssumption DEF Larger
<1>2. Trailing(n, first, t) = w
  <2>1. Trailing(n, first, u) = w
    BY <1>1 DEF Trailing
  <2>2. QED BY <2>1, TrailingSame
<1>3. Trailing(n + 1, first, u) = v
  <2>1. Trailing(n + 1, first, u)
          = [i \in 1 .. Larger((n + 1) - next + 1, 0) |-> u[next + i - 1]]
    BY DEF Trailing
  <2> HIDE DEF next
  <2>2. QED BY <1>1, <2>1
<1>4. w \in Seq(S) /\ Len(w) = m /\ x \in S
  <2>0. \A i \in first .. n + 1 : u[i] \in S
    OBVIOUS
  <2>1. x \in S
    BY <2>0
  <2> HIDE DEF from, next, m, x, S
  <2>2. \A i \in 1 .. m : from + i - 1 \in first .. n + 1
    BY <1>1
  <2>3. m \in Nat /\ \A i \in 1 .. m : u[from + i - 1] \in S
    BY <1>1, <2>0, <2>2
  <2>4. QED BY <2>1, <2>3 DEF w
<1>5. \A i \in 1 .. m : w[i] = u[from + i - 1]
  OBVIOUS
<1> HIDE DEF from, next, m, w, S
<1>6. CASE m = Period
  <2>1. w # <<>> /\ Tail(w) \in Seq(S) /\ Len(Tail(w)) = m - 1
    BY <1>1, <1>4, <1>6, PeriodAssumption
  <2>2. \A i \in 1 .. m - 1 : Tail(w)[i] = u[next + i - 1]
    BY <1>1, <1>4, <1>5, <1>6, <2>1
  <2>3. Push(w, x) = Append(Tail(w), x)
    BY <1>4, <1>6 DEF Push
  <2>4. (n + 1) - next + 1 = m /\ next + m - 1 = n + 1
    BY <1>1, <1>6
  <2>5. Append(Tail(w), x) = [i \in 1 .. m |-> IF i = m THEN x ELSE Tail(w)[i]]
    BY <1>1, <1>4, <2>1
  <2>6. \A i \in 1 .. m : u[next + i - 1] = IF i = m THEN x ELSE Tail(w)[i]
    <3> SUFFICES ASSUME NEW i \in 1 .. m
                 PROVE  u[next + i - 1] = IF i = m THEN x ELSE Tail(w)[i]
      OBVIOUS
    <3>1. CASE i = m
      BY <2>4, <3>1
    <3>2. CASE i # m
      <4>1. i \in 1 .. m - 1
        BY <1>1, <3>2
      <4>2. QED BY <2>2, <3>2, <4>1
    <3>3. QED BY <3>1, <3>2
  <2>7. v = [i \in 1 .. m |-> u[next + i - 1]]
    BY <2>4
  <2> HIDE DEF v
  <2>8. QED BY <1>2, <1>3, <2>3, <2>5, <2>6, <2>7 DEF x
<1>7. CASE m # Period
  <2>1. Push(w, x) = Append(w, x)
    BY <1>4, <1>7 DEF Push
  <2>2. (n + 1) - next + 1 = m + 1 /\ next + (m + 1) - 1 = n + 1 /\ next = from
    BY <1>1, <1>7
  <2>3. Append(w, x) = [i \in 1 .. m + 1 |-> IF i = m + 1 THEN x ELSE w[i]]
    BY <1>1, <1>4
  <2>4. \A i \in 1 .. m + 1 : u[next + i - 1] = IF i = m + 1 THEN x ELSE w[i]
    BY <1>1, <1>5, <2>2
  <2>5. v = [i \in 1 .. m + 1 |-> u[next + i - 1]]
    BY <2>2
  <2> HIDE DEF v
  <2>6. QED BY <1>2, <1>3, <2>1, <2>3, <2>4, <2>5 DEF x
<1>8. QED BY <1>6, <1>7

(* Before the first of the things there is none. *)
LEMMA TrailingNone ==
  ASSUME NEW n \in Nat, NEW first \in Nat \ {0}, n < first, NEW t
  PROVE  Trailing(n, first, t) = <<>>
<1>1. Larger(n - Larger(first, n - Period + 1) + 1, 0) = 0
  BY PeriodAssumption DEF Larger
<1>2. QED BY <1>1 DEF Trailing

(* A candle that passed validation has its prices, and a volume. *)
LEMMA Quoted ==
  ASSUME NEW c \in Candles, ValidCandle(c)
  PROVE  Priced(c) /\ c.volume \in Nat
BY EngineAssumption DEF ValidCandle, Priced

(* The candle after a series. *)
LEMMA Longer ==
  ASSUME NEW s \in Seq(Candles), NEW c \in Candles
  PROVE  LET u == Append(s, c)
         IN  /\ Len(s) \in Nat /\ Len(u) = Len(s) + 1
             /\ DOMAIN s = 1 .. Len(s) /\ DOMAIN u = 1 .. Len(s) + 1
             /\ u \in Seq(Candles) /\ u # <<>> /\ u[Len(s) + 1] = c
             /\ \A i \in 1 .. Len(s) : u[i] = s[i] /\ s[i] \in Candles
             /\ \A i \in 1 .. Len(s) + 1 : u[i] \in Candles
OBVIOUS

(* The data of candles are numbers. *)
LEMMA Numbers ==
  \A c \in Candles : /\ c.open \in Int /\ c.high \in Int /\ c.low \in Int
                     /\ c.close \in Int /\ c.volume \in Int
BY EngineAssumption

(* VwmaState::next, WilliamsState::next, Alma::update *)
LEMMA PlainWindows ==
  ASSUME NEW s \in Seq(Candles), NEW c \in Candles, NEW k \in Kernel,
         k.kind \in {"vwma", "williams", "alma"}, Trails(k, s)
  PROVE  Trails(KernelStep(k, c), Append(s, c))
<1> DEFINE n == Len(s)
           u == Append(s, c)
           v == KernelStep(k, c)
<1>1. /\ n \in Nat /\ Len(u) = n + 1 /\ DOMAIN s = 1 .. n /\ DOMAIN u = 1 .. n + 1
      /\ u[n + 1] = c /\ \A i \in 1 .. n : u[i] = s[i] /\ s[i] \in Candles
      /\ \A i \in 1 .. n + 1 : u[i] \in Candles
  BY Longer
<1>f. n \in Nat /\ 1 \in Nat \ {0} /\ 1 <= n + 1
  BY <1>1
<1> HIDE DEF n, u
<1>2. CASE k.kind = "vwma"
  <2>1. k \in [kind: {"vwma", "williams"}, window: Seq(Pair)]
    BY <1>2 DEF Kernel, OwnKernel, ReferenceKernel, Alma, SuperTrend, StochRsi, Vortex, Ulcer
  <2>2. v = [k EXCEPT !.window = Push(k.window, <<c.close, c.volume>>)]
    BY <1>2 DEF KernelStep, ReferenceKinds, OwnStep, VwmaStep
  <2>3. v.kind = "vwma" /\ v.window = Push(k.window, <<c.close, c.volume>>)
    BY <1>2, <2>1, <2>2
  <2>4. k.window = Trailing(n, 1, Turnovers(s))
    BY <1>2 DEF Trails, n
  <2>5. /\ \A i \in 1 .. n : Turnovers(u)[i] = Turnovers(s)[i]
        /\ Turnovers(u)[n + 1] = <<c.close, c.volume>>
    BY <1>1, Numbers DEF Turnovers
  <2>6. Push(Trailing(n, 1, Turnovers(s)), Turnovers(u)[n + 1]) = Trailing(n + 1, 1, Turnovers(u))
    <3> DEFINE first == 1
               old == Turnovers(s)
               new == Turnovers(u)
    <3>1. n \in Nat /\ first \in Nat \ {0} /\ first <= n + 1
      BY <1>f
    <3>2. \A i \in first .. n : new[i] = old[i]
      BY <2>5
    <3> HIDE DEF first, old, new
    <3>3. Push(Trailing(n, first, old), new[n + 1]) = Trailing(n + 1, first, new)
      BY <3>1, <3>2, TrailingNext
    <3>4. QED BY <3>3 DEF first, old, new
  <2>7. v.window = Trailing(Len(u), 1, Turnovers(u))
    BY <1>1, <2>3, <2>4, <2>5, <2>6
  <2>8. QED BY <2>3, <2>7 DEF Trails, u
<1>3. CASE k.kind = "williams"
  <2>1. k \in [kind: {"vwma", "williams"}, window: Seq(Pair)]
    BY <1>3 DEF Kernel, OwnKernel, ReferenceKernel, Alma, SuperTrend, StochRsi, Vortex, Ulcer
  <2>2. v = [k EXCEPT !.window = Push(k.window, <<c.high, c.low>>)]
    BY <1>3 DEF KernelStep, ReferenceKinds, OwnStep, WilliamsStep
  <2>3. v.kind = "williams" /\ v.window = Push(k.window, <<c.high, c.low>>)
    BY <1>3, <2>1, <2>2
  <2>4. k.window = Trailing(n, 1, Extremes(s))
    BY <1>3 DEF Trails, n
  <2>5. /\ \A i \in 1 .. n : Extremes(u)[i] = Extremes(s)[i]
        /\ Extremes(u)[n + 1] = <<c.high, c.low>>
    BY <1>1, Numbers DEF Extremes
  <2>6. Push(Trailing(n, 1, Extremes(s)), Extremes(u)[n + 1]) = Trailing(n + 1, 1, Extremes(u))
    <3> DEFINE first == 1
               old == Extremes(s)
               new == Extremes(u)
    <3>1. n \in Nat /\ first \in Nat \ {0} /\ first <= n + 1
      BY <1>f
    <3>2. \A i \in first .. n : new[i] = old[i]
      BY <2>5
    <3> HIDE DEF first, old, new
    <3>3. Push(Trailing(n, first, old), new[n + 1]) = Trailing(n + 1, first, new)
      BY <3>1, <3>2, TrailingNext
    <3>4. QED BY <3>3 DEF first, old, new
  <2>7. v.window = Trailing(Len(u), 1, Extremes(u))
    BY <1>1, <2>3, <2>4, <2>5, <2>6
  <2>8. QED BY <2>3, <2>7 DEF Trails, u
<1>4. CASE k.kind = "alma"
  <2>1. k \in Alma
    BY <1>4 DEF Kernel, OwnKernel, ReferenceKernel, Alma, SuperTrend, StochRsi, Vortex, Ulcer
  <2>2. v = AlmaStep(k, c)
    BY <1>4 DEF KernelStep, ReferenceKinds, ReferenceStep
  <2>3. v.kind = "alma" /\ v.window = Push(k.window, c.close)
    BY <1>4, <2>1, <2>2 DEF AlmaStep, Alma
  <2>4. k.window = Trailing(n, 1, Closes(s))
    BY <1>4 DEF Trails, n
  <2>5. /\ \A i \in 1 .. n : Closes(u)[i] = Closes(s)[i]
        /\ Closes(u)[n + 1] = c.close
    BY <1>1, Numbers DEF Closes
  <2>6. Push(Trailing(n, 1, Closes(s)), Closes(u)[n + 1]) = Trailing(n + 1, 1, Closes(u))
    <3> DEFINE first == 1
               old == Closes(s)
               new == Closes(u)
    <3>1. n \in Nat /\ first \in Nat \ {0} /\ first <= n + 1
      BY <1>f
    <3>2. \A i \in first .. n : new[i] = old[i]
      BY <2>5
    <3> HIDE DEF first, old, new
    <3>3. Push(Trailing(n, first, old), new[n + 1]) = Trailing(n + 1, first, new)
      BY <3>1, <3>2, TrailingNext
    <3>4. QED BY <3>3 DEF first, old, new
  <2>7. v.window = Trailing(Len(u), 1, Closes(u))
    BY <1>1, <2>3, <2>4, <2>5, <2>6
  <2>8. QED BY <2>3, <2>7 DEF Trails, u
<1>5. QED BY <1>2, <1>3, <1>4

(* Vortex::update: every pair is of two neighbours. *)
LEMMA VortexTrails ==
  ASSUME NEW s \in Seq(Candles), \A i \in DOMAIN s : ValidCandle(s[i]),
         NEW c \in Candles, ValidCandle(c),
         NEW k \in Vortex, Trails(k, s), Keeps(k, s)
  PROVE  Trails(VortexStep(k, c), Append(s, c)) /\ Keeps(VortexStep(k, c), Append(s, c))
<1> DEFINE n == Len(s)
           u == Append(s, c)
           v == VortexStep(k, c)
           d == s[n]
           moves == <<Distance(c.high, d.low), Distance(c.low, d.high), TrueRange(c, d.close)>>
<1>1. /\ n \in Nat /\ Len(u) = n + 1 /\ DOMAIN s = 1 .. n /\ DOMAIN u = 1 .. n + 1
      /\ u[n + 1] = c /\ \A i \in 1 .. n : u[i] = s[i] /\ s[i] \in Candles
      /\ \A i \in 1 .. n + 1 : u[i] \in Candles
  BY Longer
<1>2. /\ k.kind = "vortex" /\ k.window = Trailing(n, 2, Moves(s))
      /\ k.previous = IF n = 0 THEN <<>> ELSE <<d.high, d.low, d.close>>
  <2>1. k.kind = "vortex"
    BY DEF Vortex
  <2>2. QED BY <2>1 DEF Trails, Keeps
<1> HIDE DEF n, u, moves
<1>3. CASE n = 0
  <2>1. v = [k EXCEPT !.previous = <<c.high, c.low, c.close>>]
    BY <1>2, <1>3 DEF VortexStep
  <2>2. v.kind = "vortex" /\ v.previous = <<c.high, c.low, c.close>> /\ v.window = k.window
    BY <1>2, <2>1 DEF Vortex
  <2>3. Trailing(0, 2, Moves(s)) = <<>> /\ Trailing(1, 2, Moves(u)) = <<>>
    BY TrailingNone
  <2>4. v.window = Trailing(Len(u), 2, Moves(u))
    BY <1>1, <1>2, <1>3, <2>2, <2>3
  <2>5. QED BY <1>1, <1>3, <2>2, <2>4 DEF Trails, Keeps, u
<1>4. CASE n # 0
  <2>1. k.previous = <<d.high, d.low, d.close>> /\ k.previous # <<>>
    BY <1>2, <1>4
  <2>2. k.previous[1] = d.high /\ k.previous[2] = d.low /\ k.previous[3] = d.close
    BY <2>1
  <2>3. /\ v.kind = "vortex" /\ v.previous = <<c.high, c.low, c.close>>
        /\ v.window = Push(k.window, moves)
    BY <1>2, <2>1, <2>2 DEF VortexStep, Vortex, moves
  <2>4. n \in 1 .. n /\ d \in Candles /\ d.close > 0 /\ u[n] = d
    <3>1. n \in 1 .. n
      BY <1>1, <1>4
    <3>2. d \in Candles /\ u[n] = d /\ ValidCandle(d)
      BY <1>1, <3>1
    <3>3. d.low \in Int /\ d.close \in Int
      BY <3>2, Numbers
    <3>4. QED BY <3>1, <3>2, <3>3 DEF ValidCandle
  <2>5. /\ \A i \in 2 .. n : Moves(u)[i] = Moves(s)[i]
        /\ Moves(u)[n + 1] = moves
    <3>1. Moves(u) = [i \in 2 .. n + 1 |->
                       <<Distance(u[i].high, u[i - 1].low),
                         Distance(u[i].low, u[i - 1].high), RangeAt(u, i)>>]
      BY <1>1 DEF Moves
    <3>2. Moves(s) = [i \in 2 .. n |->
                       <<Distance(s[i].high, s[i - 1].low),
                         Distance(s[i].low, s[i - 1].high), RangeAt(s, i)>>]
      BY DEF Moves, n
    <3>3. \A i \in 2 .. n : i \in 1 .. n /\ i - 1 \in 1 .. n
      BY <1>1
    <3>4. \A i \in 2 .. n : u[i] = s[i] /\ u[i - 1] = s[i - 1] /\ RangeAt(u, i) = RangeAt(s, i)
      BY <1>1, <3>3 DEF RangeAt
    <3>7. n + 1 \in 2 .. n + 1 /\ n + 1 # 1 /\ (n + 1) - 1 = n
      BY <1>1, <1>4
    <3>8. RangeAt(u, n + 1) = TrueRange(c, d.close)
      BY <1>1, <2>4, <3>7, Numbers DEF RangeAt, TrueRange
    <3>9. Moves(u)[n + 1] = moves
      BY <1>1, <2>4, <3>1, <3>7, <3>8 DEF moves
    <3>10. \A i \in 2 .. n : Moves(u)[i] = Moves(s)[i]
      BY <1>1, <3>1, <3>2, <3>4
    <3>11. QED BY <3>9, <3>10
  <2>6. Push(Trailing(n, 2, Moves(s)), Moves(u)[n + 1]) = Trailing(n + 1, 2, Moves(u))
    <3>1. n \in Nat /\ 2 \in Nat \ {0} /\ 2 <= n + 1
      BY <1>1, <1>4
    <3>2. \A i \in 2 .. n : Moves(u)[i] = Moves(s)[i]
      BY <2>5
    <3> DEFINE first == 2
    <3>3. n \in Nat /\ first \in Nat \ {0} /\ first <= n + 1
      BY <3>1
    <3>4. \A i \in first .. n : Moves(u)[i] = Moves(s)[i]
      BY <3>2
    <3> HIDE DEF first
    <3>5. Push(Trailing(n, first, Moves(s)), Moves(u)[n + 1]) = Trailing(n + 1, first, Moves(u))
      BY <3>3, <3>4, TrailingNext
    <3>6. QED BY <3>5 DEF first
  <2>7. v.window = Trailing(Len(u), 2, Moves(u))
    BY <1>1, <1>2, <2>3, <2>5, <2>6
  <2>8. QED BY <1>1, <2>3, <2>7 DEF Trails, Keeps, u
<1>5. QED BY <1>3, <1>4

-----------------------------------------------------------------------------
(* Averages and bands over the whole series                                *)

(* A sequence with one member more, as a function. *)
LEMMA Appended ==
  ASSUME NEW S, NEW w \in Seq(S), NEW x \in S
  PROVE  Append(w, x) = [i \in 1 .. Len(w) + 1 |-> IF i = Len(w) + 1 THEN x ELSE w[i]]
<1>1. PICK n \in Nat : Len(w) = n
  OBVIOUS
<1>2. Append(w, x) = [i \in 1 .. n + 1 |-> IF i = n + 1 THEN x ELSE w[i]]
  <2>1. Append(w, x) \in Seq(S) /\ Len(Append(w, x)) = n + 1
    BY <1>1
  <2>2. \A i \in 1 .. n + 1 : Append(w, x)[i] = IF i = n + 1 THEN x ELSE w[i]
    BY <1>1
  <2> DEFINE v == Append(w, x)
  <2>3. v \in Seq(S) /\ Len(v) = n + 1
    BY <2>1
  <2> HIDE DEF v
  <2>4. v = [i \in 1 .. n + 1 |-> v[i]]
    BY <2>3
  <2>5. QED BY <2>2, <2>4 DEF v
<1>3. QED BY <1>1, <1>2

(* A range looks one bar back, so it is the same in a longer series. *)
LEMMA RangesNext ==
  ASSUME NEW s \in Seq(Candles), \A i \in DOMAIN s : ValidCandle(s[i]),
         NEW c \in Candles
  PROVE  LET u == Append(s, c)
             n == Len(s)
             previous == IF n = 0 THEN 0 ELSE s[n].close
         IN  /\ \A m \in 0 .. n : Ranges(u, m) = Ranges(s, m)
             /\ \A i \in 1 .. n : BasicAt(u, i) = BasicAt(s, i)
             /\ Ranges(u, n + 1) = Append(Ranges(s, n), TrueRange(c, previous))
             /\ Ranges(s, n) \in Seq(Int) /\ Len(Ranges(s, n)) = n
             /\ TrueRange(c, previous) \in Int
             /\ previous \in Int /\ (previous = 0 <=> n = 0)
<1> DEFINE n == Len(s)
           u == Append(s, c)
           previous == IF n = 0 THEN 0 ELSE s[n].close
           range == TrueRange(c, previous)
<1>1. /\ n \in Nat /\ Len(u) = n + 1 /\ DOMAIN s = 1 .. n /\ DOMAIN u = 1 .. n + 1
      /\ u[n + 1] = c /\ \A i \in 1 .. n : u[i] = s[i] /\ s[i] \in Candles
      /\ \A i \in 1 .. n + 1 : u[i] \in Candles
  BY Longer
<1>2. /\ previous \in Int /\ (previous = 0 <=> n = 0)
      /\ n # 0 => n \in 1 .. n /\ previous = s[n].close
  <2> HIDE DEF n
  <2>1. n # 0 => n \in 1 .. n
    BY <1>1
  <2>2. ASSUME n # 0 PROVE s[n].close \in Int /\ s[n].close > 0
    <3>1. s[n] \in Candles /\ ValidCandle(s[n])
      BY <1>1, <2>1, <2>2
    <3>2. s[n].low \in Int /\ s[n].close \in Int
      BY <3>1, Numbers
    <3>3. QED BY <3>1, <3>2 DEF ValidCandle
  <2>3. QED BY <2>1, <2>2
<1> HIDE DEF n, u, previous
<1>3. \A i \in 1 .. n : RangeAt(u, i) = RangeAt(s, i) /\ RangeAt(s, i) \in Int
  <2> SUFFICES ASSUME NEW i \in 1 .. n
               PROVE  RangeAt(u, i) = RangeAt(s, i) /\ RangeAt(s, i) \in Int
    OBVIOUS
  <2>1. CASE i = 1
    BY <1>1, <2>1, Numbers DEF RangeAt
  <2>2. CASE i # 1
    <3>1. i - 1 \in 1 .. n
      BY <1>1, <2>2
    <3>2. /\ u[i] = s[i] /\ u[i - 1] = s[i - 1]
          /\ s[i].high \in Int /\ s[i].low \in Int /\ s[i - 1].close \in Int
      BY <1>1, <3>1, Numbers
    <3>3. QED BY <2>2, <3>2 DEF RangeAt, Larger, Smaller
  <2>3. QED BY <2>1, <2>2
<1>4. RangeAt(u, n + 1) = range /\ range \in Int
  <2>1. c.high \in Int /\ c.low \in Int
    BY Numbers
  <2>2. CASE n = 0
    BY <1>1, <1>2, <2>1, <2>2 DEF RangeAt, TrueRange
  <2>3. CASE n # 0
    <3>1. n + 1 # 1 /\ (n + 1) - 1 = n /\ u[n] = s[n] /\ u[n + 1] = c
      BY <1>1, <1>2, <2>3
    <3>2. RangeAt(u, n + 1) = Larger(c.high, previous) - Smaller(c.low, previous)
      BY <1>2, <2>3, <3>1 DEF RangeAt
    <3>3. QED BY <1>2, <2>1, <2>3, <3>2 DEF TrueRange, Larger, Smaller
  <2>4. QED BY <2>2, <2>3
<1> HIDE DEF range
<1>5. \A m \in 0 .. n : Ranges(u, m) = Ranges(s, m)
  <2> SUFFICES ASSUME NEW m \in 0 .. n PROVE Ranges(u, m) = Ranges(s, m)
    OBVIOUS
  <2>1. \A i \in 1 .. m : i \in 1 .. n
    BY <1>1
  <2>2. \A i \in 1 .. m : RangeAt(u, i) = RangeAt(s, i)
    BY <1>3, <2>1
  <2>3. QED BY <2>2 DEF Ranges
<1>6. \A i \in 1 .. n : BasicAt(u, i) = BasicAt(s, i)
  <2>1. \A i \in 1 .. n : i \in 0 .. n
    BY <1>1
  <2>2. QED BY <1>1, <1>5, <2>1 DEF BasicAt
<1>7. Ranges(s, n) \in Seq(Int) /\ Len(Ranges(s, n)) = n
  BY <1>1, <1>3 DEF Ranges
<1>8. Ranges(u, n + 1) = Append(Ranges(s, n), range)
  <2>1. Append(Ranges(s, n), range)
          = [i \in 1 .. n + 1 |-> IF i = n + 1 THEN range ELSE Ranges(s, n)[i]]
    <3> DEFINE r == Ranges(s, n)
    <3>1. r \in Seq(Int) /\ Len(r) = n /\ n \in Nat /\ range \in Int
      BY <1>1, <1>4, <1>7
    <3> HIDE DEF r
    <3>2. Append(r, range) = [i \in 1 .. Len(r) + 1 |-> IF i = Len(r) + 1 THEN range ELSE r[i]]
      BY <3>1, Appended, SMTT(20)
    <3>3. QED BY <3>1, <3>2 DEF r
  <2>2. \A i \in 1 .. n + 1 : RangeAt(u, i) = IF i = n + 1 THEN range ELSE Ranges(s, n)[i]
    <3> SUFFICES ASSUME NEW i \in 1 .. n + 1
                 PROVE  RangeAt(u, i) = IF i = n + 1 THEN range ELSE Ranges(s, n)[i]
      OBVIOUS
    <3>1. i = n + 1 \/ i \in 1 .. n
      BY <1>1
    <3>2. i \in 1 .. n => Ranges(s, n)[i] = RangeAt(s, i) /\ i # n + 1
      BY <1>1 DEF Ranges
    <3>3. QED BY <1>3, <1>4, <3>1, <3>2
  <2>3. QED BY <2>1, <2>2 DEF Ranges
<1>9. QED BY <1>2, <1>4, <1>5, <1>6, <1>7, <1>8 DEF n, u, previous, range

(* Atr::update *)
LEMMA AtrTrails ==
  ASSUME NEW a \in Atr, NEW n \in Nat, AtrValid(a, n), NEW old \in Seq(Int), Len(old) = n,
         ~a.seeded => a.seed = old, a.seeded => a.average = old,
         NEW c, TrueRange(c, a.previous) \in Int
  PROVE  LET v == AtrUpdate(a, c)
             new == Append(old, TrueRange(c, a.previous))
         IN  /\ v.previous = c.close
             /\ v.seeded <=> n + 1 >= Period
             /\ ~v.seeded => v.seed = new
             /\ v.seeded => v.average = new
<1> DEFINE range == TrueRange(c, a.previous)
           new == Append(old, range)
           v == AtrUpdate(a, c)
<1>1. a.seeded \in BOOLEAN /\ (a.seeded <=> n >= Period) /\ Len(new) = n + 1
  BY DEF Atr, AtrValid
<1> HIDE DEF range
<1>2. CASE a.seeded
  <2>1. v = [a EXCEPT !.previous = c.close, !.average = Append(a.average, range)]
    BY <1>2 DEF AtrUpdate, range
  <2>2. v.previous = c.close /\ v.seeded = a.seeded /\ v.average = new
    BY <1>2, <2>1 DEF Atr
  <2>3. QED BY <1>1, <1>2, <2>2, PeriodAssumption DEF range
<1>3. CASE ~a.seeded /\ n + 1 < Period
  <2>1. v = [a EXCEPT !.previous = c.close, !.seed = new]
    BY <1>1, <1>3 DEF AtrUpdate, range
  <2>2. v.previous = c.close /\ v.seeded = a.seeded /\ v.seed = new
    BY <2>1 DEF Atr
  <2>3. QED BY <1>1, <1>3, <2>2, PeriodAssumption DEF range
<1>4. CASE ~a.seeded /\ ~(n + 1 < Period)
  <2>1. v = [previous |-> c.close, seed |-> new, seeded |-> TRUE, average |-> new]
    BY <1>1, <1>4 DEF AtrUpdate, range
  <2>2. QED BY <1>4, <2>1, PeriodAssumption DEF range
<1>5. QED BY <1>2, <1>3, <1>4

(* A comparison of a value with itself. *)
LEMMA NeverLess ==
  ASSUME NEW x \in Int \X Int
  PROVE  ~Less(x, x)
BY DEF Less

(* Every stage of Wilder's average is one more step of it. *)
LEMMA SmoothedInputs ==
  ASSUME NEW inputs \in Seq(Int)
  PROVE  /\ Smoothing(inputs)[0] = <<0, Period>>
         /\ \A n \in 1 .. Len(inputs) :
              Smoothing(inputs)[n] = WilderStep(Smoothing(inputs)[n - 1], n, inputs[n])
<1> DEFINE None == <<0, Period>>
           Stages(f, m) ==
             f = [n \in 0 .. m |-> IF n = 0 THEN None ELSE WilderStep(f[n - 1], n, inputs[n])]
           Missing == {m \in 0 .. Len(inputs) : ~\E f : Stages(f, m)}
<1>0. Len(inputs) \in Nat /\ Len(inputs) \in 0 .. Len(inputs)
  OBVIOUS
<1>1. Missing = {}
  <2> SUFFICES ASSUME Missing # {} PROVE FALSE
    OBVIOUS
  <2>1. PICK m \in Missing : \A k \in Missing : m <= k
    <3>1. Missing \in SUBSET Nat
      OBVIOUS
    <3> HIDE DEF Missing
    <3>2. QED BY <3>1, LeastNumber
  <2>2. m # 0
    <3> DEFINE f == [n \in 0 .. 0 |-> None]
    <3>1. Stages(f, 0)
      <4> HIDE DEF None
      <4> QED OBVIOUS
    <3> HIDE DEF Stages, f
    <3>2. QED BY <3>1
  <2>3. PICK f : Stages(f, m - 1)
    <3>1. m - 1 \in 0 .. Len(inputs) /\ m - 1 < m
      BY <1>0, <2>1, <2>2
    <3> HIDE DEF Stages
    <3>2. QED BY <2>1, <3>1
  <2> DEFINE g == [n \in 0 .. m |-> IF n = m THEN WilderStep(f[m - 1], m, inputs[m]) ELSE f[n]]
  <2>4. Stages(g, m)
    <3> HIDE DEF None
    <3>1. m \in Nat /\ m > 0
      BY <2>2
    <3>2. QED BY <2>3, <3>1
  <2> HIDE DEF Stages
  <2>5. QED BY <2>4
<1>2. \E f : Stages(f, Len(inputs))
  <2> HIDE DEF Stages
  <2> QED BY <1>0, <1>1
<1> DEFINE f == Smoothing(inputs)
<1>3. Stages(f, Len(inputs))
  BY <1>2 DEF Smoothing
<1>4. QED
  <2> HIDE DEF None, f
  <2>1. f[0] = None /\ \A n \in 1 .. Len(inputs) : f[n] = WilderStep(f[n - 1], n, inputs[n])
    BY <1>0, <1>3
  <2>2. QED BY <2>1 DEF None, f

(* One step keeps a fraction. *)
LEMMA WilderStepFraction ==
  ASSUME NEW a \in Int \X Nat, a[2] > 0, NEW n \in Nat, NEW x \in Int
  PROVE  WilderStep(a, n, x) \in Int \X Nat /\ WilderStep(a, n, x)[2] > 0
<1>1. a[1] \in Int /\ a[2] \in Nat /\ Period \in Nat /\ Period > 0
  BY PeriodAssumption
<1>2. \A y, z \in Nat : y > 0 /\ z > 0 => y * z \in Nat /\ y * z > 0
  OBVIOUS
<1>3. a[2] * Period \in Nat /\ a[2] * Period > 0
  BY <1>1, <1>2
<1>4. \A y, z \in Int : y * z \in Int
  OBVIOUS
<1>5. a[1] * (Period - 1) \in Int /\ x * a[2] \in Int
  BY <1>1, <1>4
<1>6. a[1] * (Period - 1) + x * a[2] \in Int /\ a[1] + x \in Int
  BY <1>1, <1>5
<1>7. QED BY <1>1, <1>3, <1>6 DEF WilderStep

(* An average is a fraction. *)
LEMMA WilderFraction ==
  ASSUME NEW inputs \in Seq(Int)
  PROVE  /\ \A n \in 0 .. Len(inputs) :
              Smoothing(inputs)[n] \in Int \X Nat /\ Smoothing(inputs)[n][2] > 0
         /\ Wilder(inputs) \in Int \X Nat
<1> DEFINE f == Smoothing(inputs)
           Bad == {n \in 0 .. Len(inputs) : ~(f[n] \in Int \X Nat /\ f[n][2] > 0)}
<1>1. /\ f[0] = <<0, Period>>
      /\ \A n \in 1 .. Len(inputs) : f[n] = WilderStep(f[n - 1], n, inputs[n])
  BY SmoothedInputs
<1>2. Len(inputs) \in Nat /\ \A n \in 1 .. Len(inputs) : inputs[n] \in Int
  OBVIOUS
<1> HIDE DEF f
<1>3. Bad = {}
  <2> SUFFICES ASSUME Bad # {} PROVE FALSE
    OBVIOUS
  <2>1. PICK n \in Bad : \A m \in Bad : n <= m
    <3>1. Bad \in SUBSET Nat
      OBVIOUS
    <3> HIDE DEF Bad
    <3>2. QED BY <3>1, LeastNumber
  <2>2. n # 0
    <3>1. f[0] \in Int \X Nat /\ f[0][2] > 0
      BY <1>1, PeriodAssumption
    <3>2. QED BY <2>1, <3>1
  <2>3. n \in 1 .. Len(inputs) /\ n \in Nat /\ n - 1 \in 0 .. Len(inputs) /\ n - 1 < n
    BY <1>2, <2>1, <2>2
  <2>4. f[n - 1] \in Int \X Nat /\ f[n - 1][2] > 0
    BY <2>1, <2>3
  <2>5. WilderStep(f[n - 1], n, inputs[n]) \in Int \X Nat /\ WilderStep(f[n - 1], n, inputs[n])[2] > 0
    BY <1>2, <2>3, <2>4, WilderStepFraction
  <2>6. QED BY <1>1, <2>1, <2>3, <2>5
<1>4. Len(inputs) \in 0 .. Len(inputs)
  BY <1>2
<1>5. QED BY <1>3, <1>4 DEF Wilder, f

(* Unless a window is of one bar, an average forgets no movement: it is *)
(* positive when some input was.                                        *)
LEMMA WilderPositive ==
  ASSUME NEW inputs \in Seq(Int), \A i \in 1 .. Len(inputs) : inputs[i] >= 0, Period > 1
  PROVE  /\ Wilder(inputs)[1] >= 0
         /\ Wilder(inputs)[1] > 0 <=> \E i \in 1 .. Len(inputs) : inputs[i] > 0
<1> DEFINE f == Smoothing(inputs)
           Right(n) == /\ f[n][1] >= 0
                       /\ f[n][1] > 0 <=> \E i \in 1 .. n : inputs[i] > 0
           Bad == {n \in 0 .. Len(inputs) : ~Right(n)}
<1>1. /\ f[0] = <<0, Period>>
      /\ \A n \in 1 .. Len(inputs) : f[n] = WilderStep(f[n - 1], n, inputs[n])
  BY SmoothedInputs
<1>2. Len(inputs) \in Nat /\ \A n \in 1 .. Len(inputs) : inputs[n] \in Nat
  OBVIOUS
<1>3. \A n \in 0 .. Len(inputs) : f[n] \in Int \X Nat /\ f[n][2] > 0
  BY WilderFraction
<1> HIDE DEF f
<1>4. Bad = {}
  <2> SUFFICES ASSUME Bad # {} PROVE FALSE
    OBVIOUS
  <2>1. PICK n \in Bad : \A m \in Bad : n <= m
    <3>1. Bad \in SUBSET Nat
      OBVIOUS
    <3> HIDE DEF Bad
    <3>2. QED BY <3>1, LeastNumber
  <2>2. n # 0
    BY <1>1, <2>1
  <2>3. n \in 1 .. Len(inputs) /\ n \in Nat /\ n - 1 \in 0 .. Len(inputs) /\ n - 1 < n
    BY <1>2, <2>1, <2>2
  <2>4. Right(n - 1)
    <3> HIDE DEF Right
    <3> QED BY <2>1, <2>3
  <2> DEFINE a == f[n - 1]
             x == inputs[n]
             y == a[1]
             z == a[2]
  <2>5. y \in Nat /\ z \in Nat /\ z > 0 /\ x \in Nat /\ f[n] = WilderStep(a, n, x)
    <3>1. f[n - 1] \in Int \X Nat /\ f[n - 1][2] > 0
      BY <1>3, <2>3
    <3>2. f[n - 1][1] \in Int /\ f[n - 1][2] \in Nat /\ f[n - 1][1] >= 0
      BY <2>4, <3>1
    <3>3. QED BY <1>1, <1>2, <2>3, <3>1, <3>2
  <2>6. f[n][1] = IF n <= Period THEN y + x ELSE y * (Period - 1) + x * z
    BY <2>5 DEF WilderStep
  <2>7. (\E i \in 1 .. n : inputs[i] > 0) <=> (\E i \in 1 .. n - 1 : inputs[i] > 0) \/ x > 0
    <3>1. \A i : i \in 1 .. n <=> i \in 1 .. n - 1 \/ i = n
      BY <2>3
    <3>2. QED BY <3>1
  <2>8. y > 0 <=> \E i \in 1 .. n - 1 : inputs[i] > 0
    BY <2>4
  <2> HIDE DEF x, y, z, a
  <2>9. f[n][1] >= 0 /\ (f[n][1] > 0 <=> y > 0 \/ x > 0)
    <3>1. \A p, q \in Nat : p * q \in Nat /\ (p * q > 0 <=> p > 0 /\ q > 0)
      OBVIOUS
    <3>2. Period - 1 \in Nat /\ Period - 1 > 0
      BY PeriodAssumption
    <3>3. /\ y * (Period - 1) \in Nat /\ (y * (Period - 1) > 0 <=> y > 0)
          /\ x * z \in Nat /\ (x * z > 0 <=> x > 0)
      BY <2>5, <3>1, <3>2
    <3>4. \A p, q \in Nat : p + q >= 0 /\ (p + q > 0 <=> p > 0 \/ q > 0)
      OBVIOUS
    <3>5. CASE n <= Period
      BY <2>5, <2>6, <3>4, <3>5
    <3>6. CASE ~(n <= Period)
      <4> DEFINE p == y * (Period - 1)
                 q == x * z
      <4>1. p \in Nat /\ q \in Nat /\ (p > 0 <=> y > 0) /\ (q > 0 <=> x > 0)
        BY <2>5, <3>3
      <4>2. f[n][1] = p + q
        BY <2>6, <3>6
      <4> HIDE DEF p, q
      <4>3. QED BY <3>4, <4>1, <4>2
    <3>7. QED BY <3>5, <3>6
  <2>10. Right(n)
    BY <2>7, <2>8, <2>9
  <2>11. QED BY <2>1, <2>10
<1>5. Len(inputs) \in 0 .. Len(inputs)
  BY <1>2
<1>6. Right(Len(inputs))
  <2> HIDE DEF Right
  <2> QED BY <1>4, <1>5
<1>7. QED BY <1>6 DEF Wilder, f

(* The newest band is the tightest since itself. *)
LEMMA NewBand ==
  ASSUME NEW u, NEW n \in Nat, Len(u) = n, n >= Period,
         \A sign \in {1, -1} : BandValue(BasicAt(u, n), sign) \in Int \X Int
  PROVE  UpperRatchets(BasicAt(u, n), u) /\ LowerRatchets(BasicAt(u, n), u)
<1>1. n \in Period .. n /\ (\A i \in n .. n : i = n) /\ \A i \in n .. n - 1 : FALSE
  BY PeriodAssumption
<1>2. /\ ~Less(BandValue(BasicAt(u, n), 1), BandValue(BasicAt(u, n), 1))
      /\ ~Less(BandValue(BasicAt(u, n), -1), BandValue(BasicAt(u, n), -1))
  BY NeverLess
<1>3. QED BY <1>1, <1>2 DEF UpperRatchets, LowerRatchets

(* The value of a band is a fraction. *)
LEMMA BandFraction ==
  ASSUME NEW band \in Band, NEW sign \in {1, -1}
  PROVE  BandValue(band, sign) \in Int \X Int
<1>1. band.middle \in Int /\ band.average \in Seq(Int)
  BY DEF Band, Average
<1>2. Wilder(band.average) \in Int \X Nat
  BY <1>1, WilderFraction
<1> DEFINE a == Wilder(band.average)
<1>3. a[1] \in Int /\ a[2] \in Int /\ Width \in Int
  BY <1>2, PeriodAssumption
<1> HIDE DEF a
<1>4. \A x, y \in Int : x * y \in Int
  OBVIOUS
<1>5. sign * Width \in Int
  BY <1>3
<1>6. band.middle * a[2] \in Int /\ sign * Width * a[1] \in Int
  BY <1>1, <1>3, <1>4, <1>5
<1>7. BandValue(band, sign) = <<band.middle * a[2] + sign * Width * a[1], a[2]>>
  BY DEF BandValue, a
<1>8. QED BY <1>3, <1>6, <1>7

(* A band that is kept - no tighter one came, and the close before the last *)
(* was not beyond it - ratchets on.                                         *)
LEMMA KeptBands ==
  ASSUME NEW s \in Seq(Candles), NEW c \in Candles, Len(s) >= Period,
         \A i \in 1 .. Len(s) : BasicAt(Append(s, c), i) = BasicAt(s, i),
         NEW band
  PROVE  LET u == Append(s, c)
             basic == BasicAt(u, Len(s) + 1)
         IN  /\ /\ UpperRatchets(band, s) /\ ~Less(BandValue(basic, 1), BandValue(band, 1))
                /\ ~Less(BandValue(band, 1), Twice(s[Len(s)].close))
                => UpperRatchets(band, u)
             /\ /\ LowerRatchets(band, s) /\ ~Less(BandValue(band, -1), BandValue(basic, -1))
                /\ ~Less(Twice(s[Len(s)].close), BandValue(band, -1))
                => LowerRatchets(band, u)
<1> DEFINE n == Len(s)
           u == Append(s, c)
           basic == BasicAt(u, n + 1)
<1>1. /\ n \in Nat /\ Len(u) = n + 1 /\ \A i \in 1 .. n : u[i] = s[i]
      /\ n \in 1 .. n
  BY Longer, PeriodAssumption
<1>2. \A i \in 1 .. n : BasicAt(u, i) = BasicAt(s, i)
  OBVIOUS
<1> HIDE DEF n, u, basic
<1>3. \A m \in Period .. n : /\ m \in Period .. n + 1 /\ m \in 1 .. n
                             /\ \A i \in m .. n + 1 : i = n + 1 \/ i \in m .. n
                             /\ \A i \in m .. n : i \in 1 .. n
                             /\ \A i \in m .. (n + 1) - 1 : i = n \/ i \in m .. n - 1
                             /\ \A i \in m .. n - 1 : i \in 1 .. n
  BY <1>1, PeriodAssumption
<1>4. ASSUME UpperRatchets(band, s), ~Less(BandValue(basic, 1), BandValue(band, 1)),
             ~Less(BandValue(band, 1), Twice(s[n].close))
      PROVE  UpperRatchets(band, u)
  <2>1. PICK m \in Period .. n :
          /\ band = BasicAt(s, m)
          /\ \A i \in m .. n : ~Less(BandValue(BasicAt(s, i), 1), BandValue(band, 1))
          /\ \A i \in m .. n - 1 : ~Less(BandValue(band, 1), Twice(s[i].close))
    BY <1>4 DEF UpperRatchets, n
  <2>2. m \in Period .. n + 1 /\ band = BasicAt(u, m)
    BY <1>2, <1>3, <2>1
  <2>3. \A i \in m .. n + 1 : ~Less(BandValue(BasicAt(u, i), 1), BandValue(band, 1))
    BY <1>2, <1>3, <1>4, <2>1 DEF basic
  <2>4. \A i \in m .. (n + 1) - 1 : ~Less(BandValue(band, 1), Twice(u[i].close))
    BY <1>1, <1>3, <1>4, <2>1
  <2>5. QED BY <1>1, <2>2, <2>3, <2>4 DEF UpperRatchets
<1>5. ASSUME LowerRatchets(band, s), ~Less(BandValue(band, -1), BandValue(basic, -1)),
             ~Less(Twice(s[n].close), BandValue(band, -1))
      PROVE  LowerRatchets(band, u)
  <2>1. PICK m \in Period .. n :
          /\ band = BasicAt(s, m)
          /\ \A i \in m .. n : ~Less(BandValue(band, -1), BandValue(BasicAt(s, i), -1))
          /\ \A i \in m .. n - 1 : ~Less(Twice(s[i].close), BandValue(band, -1))
    BY <1>5 DEF LowerRatchets, n
  <2>2. m \in Period .. n + 1 /\ band = BasicAt(u, m)
    BY <1>2, <1>3, <2>1
  <2>3. \A i \in m .. n + 1 : ~Less(BandValue(band, -1), BandValue(BasicAt(u, i), -1))
    BY <1>2, <1>3, <1>5, <2>1 DEF basic
  <2>4. \A i \in m .. (n + 1) - 1 : ~Less(Twice(u[i].close), BandValue(band, -1))
    BY <1>1, <1>3, <1>5, <2>1
  <2>5. QED BY <1>1, <2>2, <2>3, <2>4 DEF LowerRatchets
<1>6. QED BY <1>4, <1>5 DEF n, u, basic

(* SuperTrend::update *)
LEMMA SuperTrendTrails ==
  ASSUME NEW s \in Seq(Candles), \A i \in DOMAIN s : ValidCandle(s[i]),
         NEW c \in Candles, ValidCandle(c),
         NEW k \in SuperTrend, SuperTrendValid(k, Len(s)), Trails(k, s), Keeps(k, s)
  PROVE  /\ Trails(SuperTrendStep(k, c), Append(s, c))
         /\ Keeps(SuperTrendStep(k, c), Append(s, c))
<1> DEFINE n == Len(s)
           u == Append(s, c)
           v == SuperTrendStep(k, c)
           old == Ranges(s, n)
           new == Ranges(u, n + 1)
           atr == AtrUpdate(k.atr, c)
           basic == BasicAt(u, n + 1)
           bands == NextBands(k.bands, new, c)
           previous == IF n = 0 THEN 0 ELSE s[n].close
<1>1. /\ n \in Nat /\ Len(u) = n + 1 /\ u[n + 1] = c
      /\ \A i \in 1 .. n : u[i] = s[i] /\ s[i] \in Candles
  BY Longer
<1>2. /\ \A i \in 1 .. n : BasicAt(u, i) = BasicAt(s, i)
      /\ new = Append(old, TrueRange(c, previous))
      /\ old \in Seq(Int) /\ Len(old) = n /\ TrueRange(c, previous) \in Int
  BY RangesNext
<1>3. /\ k.kind = "supertrend" /\ k.atr \in Atr /\ k.atr.seeded \in BOOLEAN
      /\ k.atr.previous = previous
      /\ k.atr.seeded => k.atr.average = old
      /\ ~k.atr.seeded => k.atr.seed = old
      /\ n >= Period => UpperRatchets(k.bands.upper, s) /\ LowerRatchets(k.bands.lower, s)
      /\ AtrValid(k.atr, n)
      /\ (k.bands # NoBands) <=> (n >= Period)
      /\ k.bands # NoBands => k.bands.close = previous
  <2>1. k.kind = "supertrend"
    BY DEF SuperTrend
  <2>2. QED BY <2>1 DEF Trails, Keeps, SuperTrendValid, SuperTrend, Atr
<1> HIDE DEF n, u, old, new, previous, basic
<1>4. /\ atr.previous = c.close /\ (atr.seeded <=> n + 1 >= Period)
      /\ ~atr.seeded => atr.seed = new
      /\ atr.seeded => atr.average = new
  BY <1>1, <1>2, <1>3, AtrTrails
<1>5. /\ v.kind = "supertrend" /\ v.atr = atr
      /\ v.bands = IF atr.seeded THEN bands ELSE k.bands
  <2> HIDE DEF atr
  <2>1. v = [k EXCEPT !.atr = atr,
                      !.bands = IF atr.seeded THEN NextBands(k.bands, atr.average, c) ELSE k.bands]
    BY DEF SuperTrendStep, atr
  <2>2. QED BY <1>4, <2>1 DEF SuperTrend
<1> HIDE DEF atr, v
<1>6. basic = [middle |-> c.high + c.low, average |-> new]
  BY <1>1 DEF BasicAt, basic, new
<1>7. \A sign \in {1, -1} : BandValue(basic, sign) \in Int \X Int
  <2>1. new \in Seq(Int)
    BY <1>2
  <2>2. basic \in Band
    BY <1>6, <2>1, Numbers DEF Band, Average
  <2>3. QED BY <2>2, BandFraction
<1>8. n + 1 >= Period => UpperRatchets(basic, u) /\ LowerRatchets(basic, u)
  <2> SUFFICES ASSUME n + 1 >= Period
               PROVE  UpperRatchets(basic, u) /\ LowerRatchets(basic, u)
    OBVIOUS
  <2> DEFINE m == n + 1
  <2>1. m \in Nat /\ Len(u) = m /\ m >= Period /\ basic = BasicAt(u, m)
    BY <1>1 DEF basic
  <2> HIDE DEF m
  <2>2. QED BY <1>7, <2>1, NewBand
<1>9. n + 1 >= Period => UpperRatchets(v.bands.upper, u) /\ LowerRatchets(v.bands.lower, u)
  <2> SUFFICES ASSUME n + 1 >= Period
               PROVE  UpperRatchets(v.bands.upper, u) /\ LowerRatchets(v.bands.lower, u)
    OBVIOUS
  <2>1. v.bands = bands
    BY <1>4, <1>5
  <2>2. CASE n < Period
    <3>1. bands.upper = basic /\ bands.lower = basic
      BY <1>1, <1>3, <1>6, <2>2, PeriodAssumption DEF NextBands
    <3>2. QED BY <1>8, <2>1, <3>1
  <2>3. CASE n >= Period
    <3>1. k.bands # NoBands /\ n # 0 /\ k.bands.close = s[n].close
      BY <1>1, <1>3, <2>3, PeriodAssumption DEF previous
    <3>2. bands.upper = UpperBand(k.bands, basic) /\ bands.lower = LowerBand(k.bands, basic)
      BY <1>6, <3>1 DEF NextBands
    <3>3. UpperBand(k.bands, basic) = basic
          \/ /\ UpperBand(k.bands, basic) = k.bands.upper
             /\ ~Less(BandValue(basic, 1), BandValue(k.bands.upper, 1))
             /\ ~Less(BandValue(k.bands.upper, 1), Twice(s[n].close))
      BY <3>1 DEF UpperBand
    <3>4. LowerBand(k.bands, basic) = basic
          \/ /\ LowerBand(k.bands, basic) = k.bands.lower
             /\ ~Less(BandValue(k.bands.lower, -1), BandValue(basic, -1))
             /\ ~Less(Twice(s[n].close), BandValue(k.bands.lower, -1))
      BY <3>1 DEF LowerBand
    <3> HIDE DEF bands
    <3>5. UpperRatchets(bands.upper, u)
      <4>1. ASSUME /\ UpperRatchets(k.bands.upper, s)
                   /\ ~Less(BandValue(basic, 1), BandValue(k.bands.upper, 1))
                   /\ ~Less(BandValue(k.bands.upper, 1), Twice(s[n].close))
            PROVE  UpperRatchets(k.bands.upper, u)
        BY <1>2, <2>3, <4>1, KeptBands DEF n, u, basic
      <4>2. QED BY <1>3, <1>8, <2>3, <3>2, <3>3, <4>1
    <3>6. LowerRatchets(bands.lower, u)
      <4>1. ASSUME /\ LowerRatchets(k.bands.lower, s)
                   /\ ~Less(BandValue(k.bands.lower, -1), BandValue(basic, -1))
                   /\ ~Less(Twice(s[n].close), BandValue(k.bands.lower, -1))
            PROVE  LowerRatchets(k.bands.lower, u)
        BY <1>2, <2>3, <4>1, KeptBands DEF n, u, basic
      <4>2. QED BY <1>3, <1>8, <2>3, <3>2, <3>4, <4>1
    <3>7. QED BY <2>1, <3>5, <3>6
  <2>4. QED BY <1>1, <2>2, <2>3, PeriodAssumption
<1>10. Trails(v, u)
  <2>1. v.atr.seeded => v.atr.average = Ranges(u, Len(u))
    BY <1>1, <1>4, <1>5 DEF new
  <2>2. QED BY <1>5, <2>1 DEF Trails
<1>11. Keeps(v, u)
  <2>1. v.atr.previous = IF Len(u) = 0 THEN 0 ELSE u[Len(u)].close
    BY <1>1, <1>4, <1>5
  <2>2. ~v.atr.seeded => v.atr.seed = Ranges(u, Len(u))
    BY <1>1, <1>4, <1>5 DEF new
  <2>3. QED BY <1>1, <1>5, <1>9, <2>1, <2>2 DEF Keeps
<1>12. QED BY <1>10, <1>11 DEF v, u

-----------------------------------------------------------------------------
(* Movements and drawdowns                                                 *)

(* A movement looks one bar back, so it is the same in a longer series. *)
LEMMA GainsNext ==
  ASSUME NEW s \in Seq(Candles), NEW c \in Candles
  PROVE  LET u == Append(s, c)
             n == Len(s)
         IN  /\ \A m \in 1 .. n : Gains(u, m) = Gains(s, m) /\ Losses(u, m) = Losses(s, m)
             /\ \A m \in 1 .. n + 1 : /\ Gains(u, m) \in Seq(Int) /\ Len(Gains(u, m)) = m - 1
                                      /\ Losses(u, m) \in Seq(Int) /\ Len(Losses(u, m)) = m - 1
             /\ n # 0 => /\ Gains(u, n + 1) = Append(Gains(s, n), Larger(c.close - s[n].close, 0))
                         /\ Losses(u, n + 1) = Append(Losses(s, n), Larger(s[n].close - c.close, 0))
<1> DEFINE n == Len(s)
           u == Append(s, c)
<1>1. /\ n \in Nat /\ Len(u) = n + 1 /\ DOMAIN s = 1 .. n /\ DOMAIN u = 1 .. n + 1
      /\ u[n + 1] = c /\ \A i \in 1 .. n : u[i] = s[i] /\ s[i] \in Candles
      /\ \A i \in 1 .. n + 1 : u[i] \in Candles
  BY Longer
<1> HIDE DEF n, u
<1>2. \A m \in 1 .. n : Gains(u, m) = Gains(s, m) /\ Losses(u, m) = Losses(s, m)
  <2> SUFFICES ASSUME NEW m \in 1 .. n
               PROVE  Gains(u, m) = Gains(s, m) /\ Losses(u, m) = Losses(s, m)
    OBVIOUS
  <2>1. \A i \in 1 .. m - 1 : i \in 1 .. n /\ i + 1 \in 1 .. n
    BY <1>1
  <2>2. \A i \in 1 .. m - 1 : u[i] = s[i] /\ u[i + 1] = s[i + 1]
    BY <1>1, <2>1
  <2>3. QED BY <2>2 DEF Gains, Losses
<1>3. ASSUME NEW m \in 1 .. n + 1
      PROVE  /\ Gains(u, m) \in Seq(Int) /\ Len(Gains(u, m)) = m - 1
             /\ Losses(u, m) \in Seq(Int) /\ Len(Losses(u, m)) = m - 1
  <2> DEFINE w == m - 1
  <2>1. w \in Nat /\ \A i \in 1 .. w : i \in 1 .. n + 1 /\ i + 1 \in 1 .. n + 1
    BY <1>1
  <2>2. \A i \in 1 .. w : u[i].close \in Int /\ u[i + 1].close \in Int
    BY <1>1, <2>1, Numbers
  <2> HIDE DEF w
  <2>3. \A i \in 1 .. w : /\ Larger(u[i + 1].close - u[i].close, 0) \in Int
                          /\ Larger(u[i].close - u[i + 1].close, 0) \in Int
    BY <2>2 DEF Larger
  <2>4. /\ Gains(u, m) = [i \in 1 .. w |-> Larger(u[i + 1].close - u[i].close, 0)]
        /\ Losses(u, m) = [i \in 1 .. w |-> Larger(u[i].close - u[i + 1].close, 0)]
    BY DEF Gains, Losses, w
  <2>5. Gains(u, m) \in [1 .. w -> Int] /\ Losses(u, m) \in [1 .. w -> Int]
    BY <2>3, <2>4
  <2>6. \A f \in [1 .. w -> Int] : f \in Seq(Int) /\ Len(f) = w
    BY <2>1
  <2>7. QED BY <2>5, <2>6 DEF w
<1>4. ASSUME n # 0
      PROVE  /\ Gains(u, n + 1) = Append(Gains(s, n), Larger(c.close - s[n].close, 0))
             /\ Losses(u, n + 1) = Append(Losses(s, n), Larger(s[n].close - c.close, 0))
  <2> DEFINE w == n - 1
             g == Gains(s, n)
             l == Losses(s, n)
             x == Larger(c.close - s[n].close, 0)
             y == Larger(s[n].close - c.close, 0)
  <2>1. w \in Nat /\ w + 1 = n /\ (n + 1) - 1 = n /\ n \in 1 .. n /\ n \in 1 .. n + 1
    BY <1>1, <1>4
  <2>2. s[n].close \in Int /\ c.close \in Int /\ u[n] = s[n]
    BY <1>1, <2>1, Numbers
  <2>3. x \in Int /\ y \in Int
    BY <2>2 DEF Larger
  <2>4. /\ g \in Seq(Int) /\ Len(g) = w /\ l \in Seq(Int) /\ Len(l) = w
    BY <1>2, <1>3, <2>1
  <2>5. /\ \A i \in 1 .. w : g[i] = Larger(u[i + 1].close - u[i].close, 0)
        /\ \A i \in 1 .. w : l[i] = Larger(u[i].close - u[i + 1].close, 0)
    <3>1. g = Gains(u, n) /\ l = Losses(u, n)
      BY <1>2, <2>1
    <3>2. QED BY <3>1 DEF Gains, Losses
  <2>6. /\ Gains(u, n + 1) = [i \in 1 .. n |-> Larger(u[i + 1].close - u[i].close, 0)]
        /\ Losses(u, n + 1) = [i \in 1 .. n |-> Larger(u[i].close - u[i + 1].close, 0)]
    BY <2>1 DEF Gains, Losses
  <2>7. /\ x = Larger(u[n + 1].close - u[n].close, 0)
        /\ y = Larger(u[n].close - u[n + 1].close, 0)
    BY <1>1, <2>2
  <2> HIDE DEF g, l, w, x, y
  <2>8. \A i \in 1 .. n : i = n \/ i \in 1 .. w
    BY <2>1
  <2>9. \A i \in 1 .. w : i # n
    BY <2>1
  <2>10. /\ Append(g, x) = [i \in 1 .. n |-> IF i = n THEN x ELSE g[i]]
         /\ Append(l, y) = [i \in 1 .. n |-> IF i = n THEN y ELSE l[i]]
    <3>1. Len(g) + 1 = n /\ Len(l) + 1 = n
      BY <2>1, <2>4
    <3>0. \A q \in Seq(Int), z \in Int :
            Append(q, z) = [i \in 1 .. Len(q) + 1 |-> IF i = Len(q) + 1 THEN z ELSE q[i]]
      BY Appended
    <3>2. Append(g, x) = [i \in 1 .. Len(g) + 1 |-> IF i = Len(g) + 1 THEN x ELSE g[i]]
      BY <2>3, <2>4, <3>0
    <3>3. Append(l, y) = [i \in 1 .. Len(l) + 1 |-> IF i = Len(l) + 1 THEN y ELSE l[i]]
      BY <2>3, <2>4, <3>0
    <3>4. QED BY <3>1, <3>2, <3>3
  <2>11. \A i \in 1 .. n : /\ Larger(u[i + 1].close - u[i].close, 0) = IF i = n THEN x ELSE g[i]
                           /\ Larger(u[i].close - u[i + 1].close, 0) = IF i = n THEN y ELSE l[i]
    <3> SUFFICES ASSUME NEW i \in 1 .. n
                 PROVE  /\ Larger(u[i + 1].close - u[i].close, 0) = IF i = n THEN x ELSE g[i]
                        /\ Larger(u[i].close - u[i + 1].close, 0) = IF i = n THEN y ELSE l[i]
      OBVIOUS
    <3>1. CASE i = n
      BY <2>7, <3>1
    <3>2. CASE i \in 1 .. w
      BY <2>5, <2>9, <3>2
    <3>3. QED BY <2>8, <3>1, <3>2
  <2>12. /\ [i \in 1 .. n |-> Larger(u[i + 1].close - u[i].close, 0)]
               = [i \in 1 .. n |-> IF i = n THEN x ELSE g[i]]
         /\ [i \in 1 .. n |-> Larger(u[i].close - u[i + 1].close, 0)]
               = [i \in 1 .. n |-> IF i = n THEN y ELSE l[i]]
    BY <2>11, Zenon
  <2>13. Gains(u, n + 1) = Append(g, x) /\ Losses(u, n + 1) = Append(l, y)
    BY <2>6, <2>10, <2>12, Zenon
  <2>14. QED BY <2>13 DEF g, l, x, y
<1>5. QED BY <1>2, <1>3, <1>4 DEF n, u

(* Rsi::update, after the first bar *)
LEMMA RsiTrails ==
  ASSUME NEW r \in Rsi, NEW n \in Nat, n # 0, RsiValid(r, n),
         NEW g \in Seq(Int), Len(g) = n - 1, NEW l \in Seq(Int), Len(l) = n - 1,
         ~r.seeded => r.seedGains = g /\ r.seedLosses = l,
         r.seeded => r.averages = <<g, l>>,
         NEW close \in Int
  PROVE  LET v == RsiUpdate(r, close)
             gains == Append(g, Larger(close - r.previous, 0))
             losses == Append(l, Larger(r.previous - close, 0))
         IN  /\ v.previous = close
             /\ v.seeded <=> n + 1 >= Period + 1
             /\ ~v.seeded => v.seedGains = gains /\ v.seedLosses = losses
             /\ v.seeded => v.averages = <<gains, losses>>
<1> DEFINE v == RsiUpdate(r, close)
           x == Larger(close - r.previous, 0)
           y == Larger(r.previous - close, 0)
           gains == Append(g, x)
           losses == Append(l, y)
<1>1. /\ r.seeded \in BOOLEAN /\ (r.seeded <=> n >= Period + 1) /\ r.previous # 0
      /\ r.previous \in Int
  BY DEF Rsi, RsiValid
<1>2. x \in Int /\ y \in Int
  BY <1>1 DEF Larger
<1> HIDE DEF x, y
<1>3. Len(gains) = n
  BY <1>2
<1>4. CASE r.seeded
  <2>1. v = [r EXCEPT !.previous = close,
                      !.averages = <<Append(r.averages[1], x), Append(r.averages[2], y)>>]
    BY <1>1, <1>4 DEF RsiUpdate, x, y
  <2>2. r.averages[1] = g /\ r.averages[2] = l
    BY <1>4
  <2>3. v.previous = close /\ v.seeded = r.seeded /\ v.averages = <<gains, losses>>
    BY <2>1, <2>2 DEF Rsi
  <2>4. QED BY <1>1, <1>4, <2>3, PeriodAssumption DEF x, y
<1>5. CASE ~r.seeded
  <2>1. v = [previous |-> close, seedGains |-> gains, seedLosses |-> losses,
             seeded |-> Len(gains) = Period,
             averages |-> IF Len(gains) = Period THEN <<gains, losses>> ELSE r.averages]
    BY <1>1, <1>5 DEF RsiUpdate, x, y
  <2> HIDE DEF v, gains, losses
  <2>2. /\ v.previous = close /\ v.seedGains = gains /\ v.seedLosses = losses
        /\ v.seeded = (n = Period)
        /\ n = Period => v.averages = <<gains, losses>>
    BY <1>3, <2>1
  <2>3. n = Period <=> n + 1 >= Period + 1
    BY <1>1, <1>5, PeriodAssumption
  <2>4. QED BY <2>2, <2>3 DEF v, gains, losses, x, y
<1>6. QED BY <1>1, <1>4, <1>5

(* Whether the averages at each bar moved. *)
Marks(s) == [i \in 2 .. Len(s) |-> Moved(Averages(s)[i])]

(* StochRsi::update *)
LEMMA StochRsiTrails ==
  ASSUME NEW s \in Seq(Candles), \A i \in DOMAIN s : ValidCandle(s[i]),
         NEW c \in Candles, ValidCandle(c),
         NEW k \in StochRsi, StochRsiValid(k, Len(s)), Trails(k, s), Keeps(k, s)
  PROVE  /\ Trails(StochRsiStep(k, c), Append(s, c))
         /\ Keeps(StochRsiStep(k, c), Append(s, c))
<1> DEFINE n == Len(s)
           u == Append(s, c)
           v == StochRsiStep(k, c)
           r == k.rsi
           rsi == RsiUpdate(r, c.close)
           first == Period + 1
<1>1. /\ n \in Nat /\ Len(u) = n + 1 /\ u[n + 1] = c /\ (n # 0 => n \in 1 .. n)
      /\ \A i \in 1 .. n : u[i] = s[i] /\ s[i] \in Candles
      /\ first \in Nat \ {0} /\ first > 1
  <2>1. n \in Nat /\ (n # 0 => n \in 1 .. n)
    OBVIOUS
  <2>2. QED BY <2>1, Longer, PeriodAssumption
<1>2. /\ \A m \in 1 .. n : Gains(u, m) = Gains(s, m) /\ Losses(u, m) = Losses(s, m)
      /\ \A m \in 1 .. n + 1 : /\ Gains(u, m) \in Seq(Int) /\ Len(Gains(u, m)) = m - 1
                               /\ Losses(u, m) \in Seq(Int) /\ Len(Losses(u, m)) = m - 1
      /\ n # 0 => /\ Gains(u, n + 1) = Append(Gains(s, n), Larger(c.close - s[n].close, 0))
                  /\ Losses(u, n + 1) = Append(Losses(s, n), Larger(s[n].close - c.close, 0))
  BY GainsNext
<1>3. /\ k.kind = "stoch_rsi" /\ r \in Rsi /\ RsiValid(r, n) /\ r.seeded \in BOOLEAN
      /\ k.window = Trailing(n, first, Averages(s))
      /\ k.defined = Trailing(n, first, Marks(s))
      /\ r.previous = IF n = 0 THEN 0 ELSE s[n].close
      /\ ~r.seeded => r.seedGains = Gains(s, n) /\ r.seedLosses = Losses(s, n)
      /\ r.seeded => r.averages = <<Gains(s, n), Losses(s, n)>>
  <2>1. k.kind = "stoch_rsi"
    BY DEF StochRsi
  <2>2. QED BY <2>1 DEF Trails, Keeps, StochRsiValid, StochRsi, Rsi, Marks
<1> HIDE DEF n, u, r
<1>4. /\ rsi.previous = c.close /\ (rsi.seeded <=> n + 1 >= first)
      /\ ~rsi.seeded => rsi.seedGains = Gains(u, n + 1) /\ rsi.seedLosses = Losses(u, n + 1)
      /\ rsi.seeded => rsi.averages = <<Gains(u, n + 1), Losses(u, n + 1)>>
  <2>1. CASE n = 0
    <3>1. rsi = [r EXCEPT !.previous = c.close]
      BY <1>3, <2>1 DEF RsiUpdate
    <3>2. ~r.seeded
      BY <1>3, <2>1, PeriodAssumption DEF RsiValid
    <3>3. /\ rsi.previous = c.close /\ ~rsi.seeded /\ rsi.seedGains = r.seedGains
          /\ rsi.seedLosses = r.seedLosses
      BY <1>3, <3>1, <3>2 DEF Rsi
    <3>4. Gains(u, 1) = Gains(s, 0) /\ Losses(u, 1) = Losses(s, 0)
      BY DEF Gains, Losses
    <3>5. QED BY <1>3, <2>1, <3>2, <3>3, <3>4, PeriodAssumption
  <2>2. CASE n # 0
    <3> DEFINE g == Gains(s, n)
               l == Losses(s, n)
    <3>1. n \in 1 .. n /\ n \in 1 .. n + 1
      BY <1>1, <2>2
    <3>2. /\ g \in Seq(Int) /\ Len(g) = n - 1 /\ l \in Seq(Int) /\ Len(l) = n - 1
      BY <1>2, <3>1
    <3>3. c.close \in Int /\ r.previous = s[n].close
      BY <1>3, <2>2, Numbers
    <3>4. /\ ~r.seeded => r.seedGains = g /\ r.seedLosses = l
          /\ r.seeded => r.averages = <<g, l>>
      BY <1>3
    <3>5. /\ Gains(u, n + 1) = Append(g, Larger(c.close - r.previous, 0))
          /\ Losses(u, n + 1) = Append(l, Larger(r.previous - c.close, 0))
      BY <1>2, <2>2, <3>3
    <3> HIDE DEF g, l, rsi, first, v
    <3>f. r \in Rsi /\ n \in Nat /\ RsiValid(r, n)
      BY <1>1, <1>3
    <3> DEFINE close == c.close
    <3> HIDE DEF close
    <3>c. close \in Int
      BY <3>3 DEF close
    <3>6. /\ rsi.previous = c.close
          /\ rsi.seeded <=> n + 1 >= Period + 1
          /\ ~rsi.seeded => /\ rsi.seedGains = Append(g, Larger(c.close - r.previous, 0))
                            /\ rsi.seedLosses = Append(l, Larger(r.previous - c.close, 0))
          /\ rsi.seeded => rsi.averages = <<Append(g, Larger(c.close - r.previous, 0)),
                                            Append(l, Larger(r.previous - c.close, 0))>>
      <4>1. rsi = RsiUpdate(r, close)
        BY DEF rsi, close
      <4>2. /\ rsi.previous = close
            /\ rsi.seeded <=> n + 1 >= Period + 1
            /\ ~rsi.seeded => /\ rsi.seedGains = Append(g, Larger(close - r.previous, 0))
                              /\ rsi.seedLosses = Append(l, Larger(r.previous - close, 0))
            /\ rsi.seeded => rsi.averages = <<Append(g, Larger(close - r.previous, 0)),
                                              Append(l, Larger(r.previous - close, 0))>>
          <5>1. g \in Seq(Int) /\ l \in Seq(Int) /\ close \in Int /\ r \in Rsi /\ n \in Nat
            BY <3>2, <3>c, <3>f
          <5>2. /\ Len(g) = n - 1 /\ Len(l) = n - 1 /\ n # 0 /\ RsiValid(r, n)
                /\ ~r.seeded => r.seedGains = g /\ r.seedLosses = l
                /\ r.seeded => r.averages = <<g, l>>
            BY <2>2, <3>2, <3>4, <3>f
          <5>3. LET next == RsiUpdate(r, close)
                    gains == Append(g, Larger(close - r.previous, 0))
                    losses == Append(l, Larger(r.previous - close, 0))
                IN  /\ next.previous = close
                    /\ next.seeded <=> n + 1 >= Period + 1
                    /\ ~next.seeded => next.seedGains = gains /\ next.seedLosses = losses
                    /\ next.seeded => next.averages = <<gains, losses>>
            BY <5>1, <5>2, RsiTrails, SMTT(20)
          <5>4. QED BY <4>1, <5>3
      <4>3. QED BY <4>2 DEF close
    <3>7. QED BY <3>5, <3>6 DEF first
  <2>3. QED BY <2>1, <2>2
<1> HIDE DEF rsi, first
<1>5. /\ \A i \in 2 .. n : Averages(u)[i] = Averages(s)[i] /\ Marks(u)[i] = Marks(s)[i]
      /\ n # 0 => /\ Averages(u)[n + 1] = <<Gains(u, n + 1), Losses(u, n + 1)>>
                  /\ Marks(u)[n + 1] = Moved(<<Gains(u, n + 1), Losses(u, n + 1)>>)
  <2>1. /\ Averages(u) = [i \in 2 .. n + 1 |-> <<Gains(u, i), Losses(u, i)>>]
        /\ Averages(s) = [i \in 2 .. n |-> <<Gains(s, i), Losses(s, i)>>]
        /\ Marks(u) = [i \in 2 .. n + 1 |-> Moved(Averages(u)[i])]
        /\ Marks(s) = [i \in 2 .. n |-> Moved(Averages(s)[i])]
    BY <1>1 DEF Averages, Marks, n
  <2>2. \A i \in 2 .. n : i \in 1 .. n /\ i \in 2 .. n + 1
    BY <1>1
  <2>3. \A i \in 2 .. n : Averages(u)[i] = Averages(s)[i]
    <3> SUFFICES ASSUME NEW i \in 2 .. n PROVE Averages(u)[i] = Averages(s)[i]
      OBVIOUS
    <3>1. Gains(u, i) = Gains(s, i) /\ Losses(u, i) = Losses(s, i)
      BY <1>2, <2>2
    <3>2. Averages(u)[i] = <<Gains(u, i), Losses(u, i)>>
      BY <2>1, <2>2
    <3>3. Averages(s)[i] = <<Gains(s, i), Losses(s, i)>>
      BY <2>1
    <3>4. QED BY <3>1, <3>2, <3>3
  <2>4. \A i \in 2 .. n : Marks(u)[i] = Marks(s)[i]
    BY <2>1, <2>2, <2>3
  <2>5. n # 0 => n + 1 \in 2 .. n + 1
    BY <1>1
  <2>6. QED BY <2>1, <2>3, <2>4, <2>5
<1>6. \A i \in first .. n : i \in 2 .. n
  BY <1>1
<1>7. CASE ~rsi.seeded
  <2>1. v = [k EXCEPT !.rsi = rsi]
    BY <1>7 DEF StochRsiStep, rsi, r
  <2>2. v.kind = "stoch_rsi" /\ v.rsi = rsi /\ v.window = k.window /\ v.defined = k.defined
    BY <1>3, <2>1 DEF StochRsi
  <2>3. n < first /\ n + 1 < first
    BY <1>1, <1>4, <1>7
  <2>4. /\ Trailing(n, first, Averages(s)) = <<>> /\ Trailing(n, first, Marks(s)) = <<>>
        /\ Trailing(n + 1, first, Averages(u)) = <<>> /\ Trailing(n + 1, first, Marks(u)) = <<>>
    BY <1>1, <2>3, TrailingNone
  <2>5. /\ v.window = Trailing(Len(u), first, Averages(u))
        /\ v.defined = Trailing(Len(u), first, Marks(u))
    BY <1>1, <1>3, <2>2, <2>4
  <2>6. QED BY <1>1, <1>4, <1>7, <2>2, <2>5 DEF Trails, Keeps, Marks, first, v, u
<1>8. CASE rsi.seeded
  <2> DEFINE a == rsi.averages
             w == Push(k.window, a)
             marks == Push(k.defined, Moved(a))
             last == k.last \/ Len(w) = Period
  <2>1. v = [k EXCEPT !.rsi = rsi, !.window = w, !.last = last, !.defined = marks]
    BY <1>8 DEF StochRsiStep, rsi, r
  <2> HIDE DEF w, marks, last, a
  <2>2. v.kind = "stoch_rsi" /\ v.rsi = rsi /\ v.window = w /\ v.defined = marks
    BY <1>3, <2>1 DEF StochRsi
  <2>3. first <= n + 1 /\ n # 0
    BY <1>1, <1>4, <1>8
  <2>4. a = Averages(u)[n + 1] /\ Moved(a) = Marks(u)[n + 1]
    BY <1>4, <1>5, <1>8, <2>3 DEF a
  <2>5. \A i \in first .. n : Averages(u)[i] = Averages(s)[i] /\ Marks(u)[i] = Marks(s)[i]
    BY <1>5, <1>6
  <2>6. n \in Nat /\ first \in Nat \ {0}
    BY <1>1
  <2>7. w = Trailing(n + 1, first, Averages(u))
    <3>1. Push(Trailing(n, first, Averages(s)), Averages(u)[n + 1])
            = Trailing(n + 1, first, Averages(u))
      BY <2>3, <2>5, <2>6, TrailingNext
    <3>2. QED BY <1>3, <2>4, <3>1 DEF w
  <2>8. marks = Trailing(n + 1, first, Marks(u))
    <3>1. Push(Trailing(n, first, Marks(s)), Marks(u)[n + 1]) = Trailing(n + 1, first, Marks(u))
      BY <2>3, <2>5, <2>6, TrailingNext
    <3>2. QED BY <1>3, <2>4, <3>1 DEF marks
  <2>9. /\ v.window = Trailing(Len(u), first, Averages(u))
        /\ v.defined = Trailing(Len(u), first, Marks(u))
    BY <1>1, <2>2, <2>7, <2>8
  <2>10. v.rsi.previous = IF Len(u) = 0 THEN 0 ELSE u[Len(u)].close
    BY <1>1, <1>4, <2>2
  <2>11. v.rsi.seeded /\ v.rsi.averages = <<Gains(u, Len(u)), Losses(u, Len(u))>>
    BY <1>1, <1>4, <1>8, <2>2
  <2>12. Trails(v, u)
    BY <2>2, <2>9 DEF Trails, first
  <2>13. Keeps(v, u)
    BY <2>2, <2>9, <2>10, <2>11 DEF Keeps, Marks, first
  <2>14. QED BY <2>12, <2>13 DEF u
<1>9. QED BY <1>7, <1>8

(* Along a deque the first price is the highest. *)
LEMMA FrontIsHighest ==
  ASSUME NEW q \in Seq(Mark), Descending(q)
  PROVE  \A i \in 1 .. Len(q) : q[i][2] <= q[1][2]
<1> DEFINE T == {i \in 1 .. Len(q) : ~(q[i][2] <= q[1][2])}
<1>1. Len(q) \in Nat /\ \A i \in 1 .. Len(q) : q[i][2] \in Int
  BY DEF Mark
<1>2. SUFFICES ASSUME T # {} PROVE FALSE
  OBVIOUS
<1>3. T \in SUBSET Nat
  BY <1>1
<1>4. PICK i \in T : \A y \in T : i <= y
  <2> HIDE DEF T
  <2> QED BY <1>2, <1>3, LeastNumber
<1>5. i \in 1 .. Len(q) /\ i # 1
  BY <1>1, <1>4
<1>6. i - 1 \in 1 .. Len(q) - 1 /\ i - 1 \in 1 .. Len(q) /\ (i - 1) + 1 = i /\ i - 1 < i
  BY <1>1, <1>5
<1>7. q[i - 1][2] <= q[1][2]
  BY <1>4, <1>6
<1>8. q[i - 1][2] > q[i][2]
  BY <1>6 DEF Descending
<1>9. /\ q[i][2] \in Int /\ q[i - 1][2] \in Int /\ q[1][2] \in Int
  <2>1. 1 \in 1 .. Len(q)
    BY <1>1, <1>5
  <2>2. QED BY <1>1, <1>5, <1>6, <2>1
<1>10. ~(q[i][2] <= q[1][2])
  BY <1>4
<1>11. QED BY <1>7, <1>8, <1>9, <1>10

(* The highest of the closes, once it is known. *)
LEMMA HighestIs ==
  ASSUME NEW s, NEW i \in Nat, NEW x,
         x \in {s[j].close : j \in Larger(1, i - Period + 1) .. i},
         \A j \in Larger(1, i - Period + 1) .. i : s[j].close \in Int /\ s[j].close <= x
  PROVE  HighestClose(s, i) = x
<1> DEFINE closes == {s[j].close : j \in Larger(1, i - Period + 1) .. i}
<1>1. x \in closes /\ \A y \in closes : y \in Int /\ y <= x
  OBVIOUS
<1> HIDE DEF closes
<1>2. (CHOOSE z \in closes : \A y \in closes : y <= z) = x
  <2>1. \A z \in closes : (\A y \in closes : y <= z) => z = x
    BY <1>1
  <2>2. \E z \in closes : \A y \in closes : y <= z
    BY <1>1
  <2>3. QED BY <2>1, <2>2
<1>3. QED BY <1>2 DEF HighestClose, closes

(* The highest close of a window is that of a longer series' same window. *)
LEMMA HighestSame ==
  ASSUME NEW s \in Seq(Candles), NEW c \in Candles
  PROVE  \A i \in 1 .. Len(s) : HighestClose(Append(s, c), i) = HighestClose(s, i)
<1> DEFINE u == Append(s, c)
<1> SUFFICES ASSUME NEW i \in 1 .. Len(s) PROVE HighestClose(u, i) = HighestClose(s, i)
  OBVIOUS
<1>1. Len(s) \in Nat /\ \A j \in 1 .. Len(s) : u[j] = s[j]
  BY Longer
<1>2. \A j \in Larger(1, i - Period + 1) .. i : j \in 1 .. Len(s)
  BY <1>1, PeriodAssumption DEF Larger
<1> HIDE DEF u
<1>3. {u[j].close : j \in Larger(1, i - Period + 1) .. i}
        = {s[j].close : j \in Larger(1, i - Period + 1) .. i}
  BY <1>1, <1>2
<1>4. QED BY <1>3 DEF HighestClose

(* The marks of the deque are closes of the series, and every close of the  *)
(* window has one as late and as high: what was popped from the end was not *)
(* above the new close, and what was popped from the front has left.        *)
LEMMA MaximaCover ==
  ASSUME NEW s \in Seq(Candles), NEW c \in Candles, ValidCandle(c),
         NEW k \in Ulcer, UlcerValid(k, Len(s)), Keeps(k, s)
  PROVE  LET t == Maxima(k, c.close)
             u == Append(s, c)
             n == Len(s)
         IN  /\ \A m \in DOMAIN t : t[m][2] = u[t[m][1]].close
             /\ \A j \in Larger(1, (n + 1) - Period + 1) .. n + 1 :
                  \E m \in DOMAIN t : t[m][1] >= j /\ t[m][2] >= u[j].close
<1> DEFINE n == Len(s)
           u == Append(s, c)
           price == c.close
           m == k.maxima
           d == Dominating(m, price)
           q == Append(d, <<n + 1, price>>)
           first == Larger((n + 1) - (Period - 1), 0)
           t == Maxima(k, price)
<1>1. /\ n \in Nat /\ u[n + 1] = c /\ \A i \in 1 .. n : u[i] = s[i] /\ s[i] \in Candles
      /\ price \in Int
  BY Longer, Numbers
<1>2. /\ m \in Seq(Mark) /\ k.count = n /\ Len(m) \in Nat /\ DOMAIN m = 1 .. Len(m)
      /\ \A i \in 1 .. Len(m) : m[i] \in Mark /\ m[i][1] \in 1 .. n /\ m[i][2] \in Int
  <2>1. m \in Seq(Mark) /\ k.count = n /\ DOMAIN m = 1 .. Len(m) /\ Len(m) \in Nat
    BY DEF Ulcer, UlcerValid, Mark
  <2>2. \A i \in 1 .. Len(m) : m[i] \in Mark
    BY <2>1
  <2>3. \A i \in 1 .. Len(m) : m[i][1] > 0 /\ m[i][1] <= n
    BY <2>1 DEF UlcerValid
  <2> HIDE DEF m, n
  <2>4. \A i \in 1 .. Len(m) : m[i][1] \in Nat /\ m[i][2] \in Int
    BY <2>2 DEF Mark
  <2>5. QED BY <1>1, <2>1, <2>2, <2>3, <2>4
<1>3. /\ \A i \in 1 .. Len(m) : m[i][2] = s[m[i][1]].close
      /\ \A j \in Larger(1, n - Period + 1) .. n :
           \E i \in 1 .. Len(m) : m[i][1] >= j /\ m[i][2] >= s[j].close
  <2>1. k.kind = "ulcer"
    BY DEF Ulcer
  <2>2. QED BY <1>2, <2>1 DEF Keeps
<1>4. t = Recent(q, first)
  BY <1>2 DEF Maxima
<1> HIDE DEF n, u, price, m, d, first, t
<1>5. PICK a \in 0 .. Len(m) : d = SubSeq(m, 1, a) /\ \A i \in a + 1 .. Len(m) : m[i][2] <= price
  BY <1>1, <1>2, DominatingPrefix DEF d
<1>6. d \in Seq(Mark) /\ Len(d) = a /\ a \in Nat /\ \A i \in 1 .. a : d[i] = m[i]
  BY <1>2, <1>5
<1>7. /\ q \in Seq(Mark) /\ q # <<>> /\ Len(q) = a + 1 /\ q[a + 1] = <<n + 1, price>>
      /\ \A i \in 1 .. a : q[i] = m[i]
  <2> DEFINE x == <<n + 1, price>>
  <2>1. x \in Mark
    BY <1>1 DEF Mark
  <2>2. q = Append(d, x)
    OBVIOUS
  <2> HIDE DEF x, q
  <2>3. /\ q \in Seq(Mark) /\ q # <<>> /\ Len(q) = Len(d) + 1 /\ q[Len(d) + 1] = x
        /\ \A i \in 1 .. Len(d) : q[i] = d[i]
    BY <1>6, <2>1, <2>2
  <2>4. QED BY <1>6, <2>3 DEF x
<1> HIDE DEF q
<1>8. first \in Int /\ q[Len(q)][1] >= first
  <2>1. first \in Int /\ n + 1 >= first
    BY <1>1, PeriodAssumption DEF first, Larger
  <2>2. QED BY <1>7, <2>1
<1>9. PICK h \in 1 .. Len(q) : t = SubSeq(q, h, Len(q)) /\ \A i \in 1 .. h - 1 : q[i][1] < first
  BY <1>4, <1>7, <1>8, RecentSuffix
<1>10. /\ DOMAIN t = 1 .. (a + 1) - h + 1 /\ \A i \in 1 .. (a + 1) - h + 1 : t[i] = q[h + i - 1]
       /\ h \in 1 .. a + 1
  BY <1>6, <1>7, <1>9
<1>11. \A i \in h .. a + 1 : i - h + 1 \in DOMAIN t /\ t[i - h + 1] = q[i]
  <2> SUFFICES ASSUME NEW i \in h .. a + 1
               PROVE  i - h + 1 \in DOMAIN t /\ t[i - h + 1] = q[i]
    OBVIOUS
  <2>1. i - h + 1 \in 1 .. (a + 1) - h + 1 /\ h + (i - h + 1) - 1 = i
    BY <1>6, <1>10
  <2>2. QED BY <1>10, <2>1
<1>12. \A i \in 1 .. a + 1 : q[i][2] = u[q[i][1]].close
  <2> SUFFICES ASSUME NEW i \in 1 .. a + 1 PROVE q[i][2] = u[q[i][1]].close
    OBVIOUS
  <2>1. CASE i = a + 1
    BY <1>1, <1>7, <2>1 DEF price
  <2>2. CASE i # a + 1
    <3>1. i \in 1 .. a /\ i \in 1 .. Len(m)
      BY <1>2, <1>6, <2>2
    <3>2. q[i] = m[i] /\ m[i][1] \in 1 .. n /\ m[i][2] = s[m[i][1]].close
      BY <1>2, <1>3, <1>7, <3>1
    <3>3. QED BY <1>1, <3>2
  <2>3. QED BY <2>1, <2>2
<1>13. \A i \in DOMAIN t : t[i][2] = u[t[i][1]].close
  <2> SUFFICES ASSUME NEW i \in DOMAIN t PROVE t[i][2] = u[t[i][1]].close
    OBVIOUS
  <2>1. h + i - 1 \in 1 .. a + 1 /\ t[i] = q[h + i - 1]
    BY <1>6, <1>10
  <2>2. QED BY <1>12, <2>1
<1>14. ASSUME NEW j \in Larger(1, (n + 1) - Period + 1) .. n + 1
       PROVE  \E i \in DOMAIN t : t[i][1] >= j /\ t[i][2] >= u[j].close
  <2>0. j \in Nat /\ j >= 1 /\ j <= n + 1 /\ j >= first
    BY <1>1, PeriodAssumption DEF Larger, first
  <2> DEFINE e == (a + 1) - h + 1
  <2>1. e \in DOMAIN t /\ t[e][1] = n + 1 /\ t[e][2] = price
    <3>1. a + 1 \in h .. a + 1
      BY <1>6, <1>10
    <3>2. t[e] = q[a + 1] /\ e \in DOMAIN t
      BY <1>11, <3>1
    <3>3. QED BY <1>7, <3>2
  <2> HIDE DEF e
  <2>2. CASE j = n + 1
    <3>1. t[e][1] >= j /\ t[e][2] >= u[j].close
      BY <1>1, <2>0, <2>1, <2>2 DEF price
    <3>2. QED BY <2>1, <3>1
  <2>3. CASE j # n + 1
    <3>1. j \in Larger(1, n - Period + 1) .. n /\ j \in 1 .. n
      BY <1>1, <2>0, <2>3, PeriodAssumption DEF Larger
    <3>2. PICK i \in 1 .. Len(m) : m[i][1] >= j /\ m[i][2] >= s[j].close
      BY <1>3, <3>1
    <3>3. u[j] = s[j] /\ u[j].close \in Int /\ m[i][1] \in Int /\ m[i][2] \in Int
      BY <1>1, <1>2, <3>1, <3>2, Numbers
    <3>4. CASE i <= a
      <4>1. i \in 1 .. a /\ q[i] = m[i]
        BY <1>6, <1>7, <3>2, <3>4
      <4>2. i \notin 1 .. h - 1
        <5>1. ~(q[i][1] < first)
          BY <1>8, <2>0, <3>2, <3>3, <4>1
        <5>2. QED BY <1>9, <5>1
      <4>3. i \in h .. a + 1
        BY <1>6, <1>10, <4>1, <4>2
      <4>4. i - h + 1 \in DOMAIN t /\ t[i - h + 1] = m[i]
        BY <1>11, <4>1, <4>3
      <4>5. QED BY <3>2, <3>3, <4>4
    <3>5. CASE ~(i <= a)
      <4>1. i \in a + 1 .. Len(m)
        BY <1>2, <1>6, <3>2, <3>5
      <4>2. m[i][2] <= price
        BY <1>5, <4>1
      <4>3. t[e][1] >= j /\ t[e][2] >= u[j].close
        BY <1>1, <2>0, <2>1, <3>2, <3>3, <4>2
      <4>4. QED BY <2>1, <4>3
    <3>6. QED BY <3>4, <3>5
  <2>4. QED BY <2>2, <2>3
<1>15. QED BY <1>13, <1>14 DEF t, u, n, price

(* Ulcer::update *)
LEMMA UlcerTrails ==
  ASSUME NEW s \in Seq(Candles), NEW c \in Candles, ValidCandle(c),
         NEW k \in Ulcer, UlcerValid(k, Len(s)), Trails(k, s), Keeps(k, s)
  PROVE  /\ Trails(UlcerStep(k, c), Append(s, c))
         /\ Keeps(UlcerStep(k, c), Append(s, c))
<1> DEFINE n == Len(s)
           u == Append(s, c)
           v == UlcerStep(k, c)
           t == Maxima(k, c.close)
           from == Larger(1, (n + 1) - Period + 1)
           pair == <<c.close, t[1][2]>>
           w == Push(k.drawdowns, pair)
           last == k.last \/ Len(w) = Period
<1>1. /\ n \in Nat /\ Len(u) = n + 1 /\ u[n + 1] = c /\ DOMAIN s = 1 .. n
      /\ DOMAIN u = 1 .. n + 1 /\ \A i \in 1 .. n : u[i] = s[i]
      /\ \A i \in 1 .. n + 1 : u[i] \in Candles
  BY Longer
<1>2. /\ k.kind = "ulcer" /\ k.count = n /\ k.drawdowns = Trailing(n, Period, Drawdowns(s))
  <2>1. k.kind = "ulcer"
    BY DEF Ulcer
  <2>2. QED BY <2>1 DEF Trails, UlcerValid
<1>3. /\ t \in Seq(Mark) /\ t # <<>> /\ Descending(t)
      /\ \A i \in DOMAIN t : /\ t[i][1] > 0 /\ t[i][1] <= n + 1
                             /\ t[i][1] >= (n + 1) - (Period - 1)
  <2>1. n \in Nat /\ c.close \in Int /\ c.close > 0
    BY Numbers DEF ValidCandle
  <2>2. QED BY <2>1, MaximaNext
<1>4. /\ \A i \in DOMAIN t : t[i][2] = u[t[i][1]].close
      /\ \A j \in from .. n + 1 : \E i \in DOMAIN t : t[i][1] >= j /\ t[i][2] >= u[j].close
  BY MaximaCover
<1> HIDE DEF n, u, t
<1>5. \A i \in 1 .. n : HighestClose(u, i) = HighestClose(s, i)
  BY HighestSame DEF u, n
<1>6. HighestClose(u, n + 1) = t[1][2]
  <2>1. DOMAIN t = 1 .. Len(t) /\ 1 \in DOMAIN t /\ t[1] \in Mark
    BY <1>3
  <2>2. t[1][1] \in from .. n + 1 /\ t[1][2] = u[t[1][1]].close
    <3>1. t[1][1] \in Int
      BY <2>1 DEF Mark
    <3>2. t[1][1] > 0 /\ t[1][1] <= n + 1 /\ t[1][1] >= (n + 1) - (Period - 1)
      BY <1>3, <2>1
    <3>3. QED BY <1>1, <1>4, <2>1, <3>1, <3>2, PeriodAssumption DEF Larger
  <2>3. \A j \in from .. n + 1 : u[j].close \in Int /\ u[j].close <= t[1][2]
    <3> SUFFICES ASSUME NEW j \in from .. n + 1
                 PROVE  u[j].close \in Int /\ u[j].close <= t[1][2]
      OBVIOUS
    <3>1. j \in 1 .. n + 1
      BY <1>1, PeriodAssumption DEF Larger
    <3>2. u[j].close \in Int
      BY <1>1, <3>1, Numbers
    <3>3. PICK i \in DOMAIN t : t[i][2] >= u[j].close
      BY <1>4
    <3>4. t[i][2] <= t[1][2]
      BY <1>3, <2>1, FrontIsHighest
    <3>5. t[i][2] \in Int /\ t[1][2] \in Int
      BY <1>3, <2>1 DEF Mark
    <3>6. QED BY <3>2, <3>3, <3>4, <3>5
  <2> DEFINE m == n + 1
             x == t[1][2]
  <2> HIDE DEF x
  <2>4. x \in {u[j].close : j \in from .. m}
    BY <2>2 DEF x
  <2>5. m \in Nat /\ from = Larger(1, m - Period + 1)
    BY <1>1
  <2>6. \A j \in from .. m : u[j].close \in Int /\ u[j].close <= x
    BY <2>3 DEF x
  <2> HIDE DEF m, from
  <2>7. HighestClose(u, m) = x
    BY <2>4, <2>5, <2>6, HighestIs
  <2>8. QED BY <2>7 DEF m, x
<1>7. /\ \A i \in Period .. n : Drawdowns(u)[i] = Drawdowns(s)[i]
      /\ Drawdowns(u)[n + 1] = pair
  <2>1. \A i \in Period .. n : i \in 1 .. n /\ i \in 1 .. n + 1
    BY <1>1, PeriodAssumption
  <2>2. n + 1 \in 1 .. n + 1
    BY <1>1
  <2>3. /\ Drawdowns(u) = [i \in 1 .. n + 1 |-> <<u[i].close, HighestClose(u, i)>>]
        /\ Drawdowns(s) = [i \in 1 .. n |-> <<s[i].close, HighestClose(s, i)>>]
    BY <1>1 DEF Drawdowns
  <2>4. Drawdowns(u)[n + 1] = pair
    BY <1>1, <1>6, <2>2, <2>3
  <2>5. ASSUME NEW i \in Period .. n PROVE Drawdowns(u)[i] = Drawdowns(s)[i]
    <3>1. i \in 1 .. n /\ i \in 1 .. n + 1 /\ u[i] = s[i] /\ HighestClose(u, i) = HighestClose(s, i)
      BY <1>1, <1>5, <2>1
    <3>2. QED BY <2>3, <3>1
  <2>6. QED BY <2>4, <2>5
<1> HIDE DEF pair, w, last, from
<1>8. /\ v.kind = "ulcer" /\ v.maxima = t
      /\ v.drawdowns = IF n + 1 < Period THEN k.drawdowns ELSE w
  <2>1. CASE n + 1 < Period
    <3>1. v = [k EXCEPT !.count = n + 1, !.maxima = t]
      BY <1>2, <2>1 DEF UlcerStep, t
    <3> HIDE DEF v
    <3>2. QED BY <1>2, <2>1, <3>1 DEF Ulcer
  <2>2. CASE ~(n + 1 < Period)
    <3>1. v = [k EXCEPT !.count = n + 1, !.maxima = t, !.drawdowns = w, !.last = last]
      BY <1>2, <2>2 DEF UlcerStep, t, pair, w, last
    <3> HIDE DEF v
    <3>2. QED BY <1>2, <2>2, <3>1 DEF Ulcer
  <2>3. QED BY <2>1, <2>2
<1>9. v.drawdowns = Trailing(n + 1, Period, Drawdowns(u))
  <2>1. n \in Nat /\ n + 1 \in Nat /\ Period \in Nat \ {0}
    BY <1>1, PeriodAssumption
  <2>2. CASE n + 1 < Period
    <3>1. n < Period
      BY <2>1, <2>2
    <3>2. Trailing(n, Period, Drawdowns(s)) = <<>> /\ Trailing(n + 1, Period, Drawdowns(u)) = <<>>
      BY <2>1, <2>2, <3>1, TrailingNone
    <3>3. QED BY <1>2, <1>8, <2>2, <3>2
  <2>3. CASE ~(n + 1 < Period)
    <3>1. Period <= n + 1
      BY <2>1, <2>3
    <3>2. \A i \in Period .. n : Drawdowns(u)[i] = Drawdowns(s)[i]
      BY <1>7
    <3>3. Push(Trailing(n, Period, Drawdowns(s)), Drawdowns(u)[n + 1])
            = Trailing(n + 1, Period, Drawdowns(u))
      BY <2>1, <3>1, <3>2, TrailingNext
    <3>4. QED BY <1>2, <1>7, <1>8, <2>3, <3>3 DEF w
  <2>4. QED BY <2>2, <2>3
<1>10. Trails(v, u)
  <2>1. v.maxima[1][2] = HighestClose(u, Len(u)) /\ v.drawdowns = Trailing(Len(u), Period, Drawdowns(u))
    BY <1>1, <1>6, <1>8, <1>9
  <2> HIDE DEF v
  <2>2. QED BY <1>8, <2>1 DEF Trails
<1>11. Keeps(v, u)
  <2>1. \A m \in DOMAIN v.maxima : v.maxima[m][2] = u[v.maxima[m][1]].close
    BY <1>4, <1>8
  <2>2. \A j \in Larger(1, Len(u) - Period + 1) .. Len(u) :
          \E m \in DOMAIN v.maxima : v.maxima[m][1] >= j /\ v.maxima[m][2] >= u[j].close
    BY <1>1, <1>4, <1>8 DEF from
  <2> HIDE DEF v
  <2>3. QED BY <1>8, <2>1, <2>2 DEF Keeps
<1>12. QED BY <1>10, <1>11 DEF v, u

-----------------------------------------------------------------------------
(* Every kernel                                                            *)

(* A kernel is of the shape its kind names. *)
LEMMA KernelShapes ==
  ASSUME NEW k \in Kernel
  PROVE  /\ k.kind = "vortex" => k \in Vortex
         /\ k.kind = "stoch_rsi" => k \in StochRsi
         /\ k.kind = "supertrend" => k \in SuperTrend
         /\ k.kind = "ulcer" => k \in Ulcer
BY DEF Kernel, OwnKernel, ReferenceKernel, Alma, SuperTrend, StochRsi, Vortex, Ulcer

(* Kernel::new: no candle, nothing kept. *)
LEMMA NewTrails ==
  ASSUME NEW p \in Kinds
  PROVE  Trails(NewKernel(p), <<>>) /\ Keeps(NewKernel(p), <<>>)
<1> DEFINE k == NewKernel(p)
<1>1. /\ Len(<<>>) = 0 /\ 0 \in Nat
      /\ \A t : Trailing(0, 1, t) = <<>> /\ Trailing(0, 2, t) = <<>>
      /\ \A t : Trailing(0, Period + 1, t) = <<>> /\ Trailing(0, Period, t) = <<>>
      /\ ~(0 >= Period) /\ ~(0 > 0)
  BY TrailingNone, PeriodAssumption
<1>2. k.kind = p
  BY NewKernelValid DEF ValidFor
<1>3. CASE p \in {"vwma", "williams", "alma"}
  <2>1. k.window = <<>>
    BY <1>3 DEF NewKernel, NewReference, NewOwn, ReferenceKinds
  <2> HIDE DEF k
  <2>2. QED BY <1>1, <1>2, <1>3, <2>1 DEF Trails, Keeps, k
<1>4. CASE p = "vortex"
  <2>1. k.window = <<>> /\ k.previous = <<>>
    BY <1>4 DEF NewKernel, NewReference, ReferenceKinds
  <2> HIDE DEF k
  <2>2. QED BY <1>1, <1>2, <1>4, <2>1 DEF Trails, Keeps, k
<1>5. CASE p = "ulcer"
  <2>1. k.drawdowns = <<>> /\ k.maxima = <<>>
    BY <1>5 DEF NewKernel, NewReference, ReferenceKinds
  <2>2. DOMAIN k.maxima = {}
    BY <2>1
  <2>3. Larger(1, 0 - Period + 1) .. 0 = {}
    BY PeriodAssumption DEF Larger
  <2> HIDE DEF k
  <2>4. Trails(k, <<>>)
    BY <1>1, <1>2, <1>5, <2>1 DEF Trails
  <2>5. Keeps(k, <<>>)
    BY <1>1, <1>2, <1>5, <2>2, <2>3 DEF Keeps
  <2>6. QED BY <2>4, <2>5 DEF k
<1>6. CASE p = "stoch_rsi"
  <2>1. k.window = <<>> /\ k.rsi = NewRsi /\ k.defined = <<>>
    BY <1>6 DEF NewKernel, NewReference, ReferenceKinds
  <2>2. Gains(<<>>, 0) = <<>> /\ Losses(<<>>, 0) = <<>>
    BY DEF Gains, Losses
  <2>3. /\ k.rsi.previous = 0 /\ k.rsi.seeded = FALSE
        /\ k.rsi.seedGains = <<>> /\ k.rsi.seedLosses = <<>>
    BY <2>1 DEF NewRsi
  <2> HIDE DEF k
  <2>4. Trails(k, <<>>)
    BY <1>1, <1>2, <1>6, <2>1 DEF Trails
  <2>5. Keeps(k, <<>>)
    BY <1>1, <1>2, <1>6, <2>1, <2>2, <2>3 DEF Keeps
  <2>6. QED BY <2>4, <2>5 DEF k
<1>7. CASE p = "supertrend"
  <2>1. k.atr = NewAtr
    BY <1>7 DEF NewKernel, NewReference, ReferenceKinds
  <2>2. Ranges(<<>>, 0) = <<>>
    BY DEF Ranges
  <2>3. k.atr.previous = 0 /\ k.atr.seeded = FALSE /\ k.atr.seed = <<>>
    BY <2>1 DEF NewAtr
  <2> HIDE DEF k
  <2>4. Trails(k, <<>>)
    BY <1>2, <1>7, <2>3 DEF Trails
  <2>5. Keeps(k, <<>>)
    BY <1>1, <1>2, <1>7, <2>2, <2>3 DEF Keeps
  <2>6. QED BY <2>4, <2>5 DEF k
<1>8. CASE p \in {"ema", "rsi", "atr", "obv"}
  BY <1>2, <1>8 DEF Trails, Keeps
<1>9. QED
  BY <1>3, <1>4, <1>5, <1>6, <1>7, <1>8 DEF Kinds, OwnKinds, ReferenceKinds

(* One more candle, whatever the kernel (Kernel::next). *)
LEMMA KernelTrails ==
  ASSUME NEW s \in Seq(Candles), \A i \in DOMAIN s : ValidCandle(s[i]),
         NEW c \in Candles, ValidCandle(c),
         NEW p \in Kinds, NEW k \in Kernel, ValidFor(k, p, Len(s)), Trails(k, s), Keeps(k, s)
  PROVE  Trails(KernelStep(k, c), Append(s, c)) /\ Keeps(KernelStep(k, c), Append(s, c))
<1> DEFINE v == KernelStep(k, c)
           u == Append(s, c)
           n == Len(s)
<1>1. k.kind = p /\ v.kind = p
  <2>1. n \in Nat
    OBVIOUS
  <2>2. ValidFor(v, p, n + 1)
    BY <2>1, KernelStepValid
  <2>3. QED BY <2>2 DEF ValidFor
<1>2. CASE p \in {"vwma", "williams", "alma"}
  <2>1. Trails(v, u)
    BY <1>1, <1>2, PlainWindows
  <2> HIDE DEF v, u
  <2>2. Keeps(v, u)
    BY <1>1, <1>2 DEF Keeps
  <2>3. QED BY <2>1, <2>2 DEF v, u
<1>3. CASE p = "vortex"
  <2>1. k \in Vortex /\ v = VortexStep(k, c)
    BY <1>1, <1>3, KernelShapes DEF KernelStep, ReferenceStep, ReferenceKinds
  <2>2. QED BY <2>1, VortexTrails
<1>4. CASE p = "stoch_rsi"
  <2>1. k \in StochRsi /\ v = StochRsiStep(k, c) /\ StochRsiValid(k, n)
    BY <1>1, <1>4, KernelShapes
    DEF KernelStep, ReferenceStep, ReferenceKinds, ValidFor, ReferenceValid
  <2>2. QED BY <2>1, StochRsiTrails
<1>5. CASE p = "supertrend"
  <2>1. k \in SuperTrend /\ v = SuperTrendStep(k, c) /\ SuperTrendValid(k, n)
    BY <1>1, <1>5, KernelShapes
    DEF KernelStep, ReferenceStep, ReferenceKinds, ValidFor, ReferenceValid
  <2>2. QED BY <2>1, SuperTrendTrails
<1>6. CASE p = "ulcer"
  <2>1. k \in Ulcer /\ v = UlcerStep(k, c) /\ UlcerValid(k, n)
    BY <1>1, <1>6, KernelShapes
    DEF KernelStep, ReferenceStep, ReferenceKinds, ValidFor, ReferenceValid
  <2>2. QED BY <2>1, UlcerTrails
<1>7. CASE p \in {"ema", "rsi", "atr", "obv"}
  BY <1>1, <1>7 DEF Trails, Keeps
<1>8. QED
  BY <1>2, <1>3, <1>4, <1>5, <1>6, <1>7 DEF Kinds, OwnKinds, ReferenceKinds

(* What a stream keeps of its series, at every length of it. *)
THEOREM SeriesInvariance == FeedSpec => []SeriesInv
<1>1. FeedInit => SeriesInv
  <2> SUFFICES ASSUME FeedInit PROVE SeriesInv
    OBVIOUS
  <2>1. PICK id \in Identities, p \in Profiles : feed = NewStream(id, p)
    BY DEF FeedInit
  <2>2. /\ feed.kernel = NewKernel(p) /\ feed.samples = 0
        /\ feed.latest.status = "WarmingUp"
    BY <2>1 DEF NewStream, NoRow
  <2>3. p \in Kinds
    BY EngineAssumption
  <2>4. Trails(feed.kernel, <<>>) /\ Keeps(feed.kernel, <<>>)
    BY <2>2, <2>3, NewTrails
  <2>5. bars = <<>>
    BY DEF FeedInit
  <2>6. FeedInv
    <3>1. <<>> \in Seq(Entry)
      OBVIOUS
    <3>2. QED BY <2>1, <3>1, NewStreamLinked DEF FeedInv
  <2>7. bars \in Seq(Candles) /\ Len(bars) = feed.samples /\ DOMAIN bars = {}
    BY <2>2, <2>5
  <2>8. QED BY <2>2, <2>4, <2>5, <2>6, <2>7 DEF SeriesInv
<1>2. SeriesInv /\ FeedInv' /\ [FeedNext]_feedVars => SeriesInv'
  <2> SUFFICES ASSUME SeriesInv, FeedInv', [FeedNext]_feedVars PROVE SeriesInv'
    OBVIOUS
  <2>1. CASE UNCHANGED feedVars
    <3>1. feed' = feed /\ bars' = bars
      BY <2>1 DEF feedVars
    <3>2. QED BY <3>1 DEF SeriesInv, Trails, Keeps, UpperRatchets, LowerRatchets
  <2>2. CASE \E c \in Candles : FeedBar(c)
    <3>1. PICK c \in Candles : FeedBar(c)
      BY <2>2
    <3> DEFINE bar == [closed |-> feed.closed + 1, available |-> feed.closed + 1,
                       candle |-> c]
               k == KernelStep(feed.kernel, c)
               s == Append(bars, c)
               n == Len(bars)
    <3>2. /\ feed \in State /\ bars \in Seq(Candles) /\ n = feed.samples
          /\ \A i \in DOMAIN bars : ValidCandle(bars[i])
          /\ Trails(feed.kernel, bars) /\ Keeps(feed.kernel, bars)
      BY DEF SeriesInv, FeedInv
    <3>3. ValidCandle(c) /\ feed' = Consume(feed, bar) /\ bars' = s
      BY <3>1 DEF FeedBar, Acceptable
    <3>4. /\ feed.profile \in Kinds /\ feed.kernel \in Kernel
          /\ ValidFor(feed.kernel, feed.profile, n)
      <4>1. PICK l \in Seq(Entry) : Linked(feed, l)
        BY DEF SeriesInv, FeedInv
      <4>2. feed.profile \in Profiles /\ feed.kernel \in Kernel
        BY <3>2 DEF State
      <4>3. QED BY <3>2, <4>1, <4>2, EngineAssumption DEF Linked
    <3>5. Trails(k, s) /\ Keeps(k, s)
      BY <3>2, <3>3, <3>4, KernelTrails
    <3>6. /\ feed'.kernel = k /\ feed'.samples = n + 1 /\ feed'.profile = feed.profile
          /\ feed'.latest.status = RowStatus(feed.profile, n + 1, k)
      BY <3>2, <3>3 DEF Consume, State
    <3>7. /\ s \in Seq(Candles) /\ Len(s) = n + 1 /\ s # <<>>
          /\ \A i \in DOMAIN s : ValidCandle(s[i])
      BY <3>2, <3>3
    <3> HIDE DEF k, s, n, bar
    <3>8. /\ bars' \in Seq(Candles) /\ Len(bars') = feed'.samples /\ bars' # <<>>
          /\ \A i \in DOMAIN bars' : ValidCandle(bars'[i])
      BY <3>3, <3>6, <3>7
    <3>9. feed'.latest.status = RowStatus(feed'.profile, Len(bars'), feed'.kernel)
      BY <3>3, <3>6, <3>7
    <3>10. Trails(feed'.kernel, bars') /\ Keeps(feed'.kernel, bars')
      BY <3>3, <3>5, <3>6
    <3>11. (Trails(feed.kernel, bars))' /\ (Keeps(feed.kernel, bars))'
      BY <3>10 DEF Trails, Keeps, UpperRatchets, LowerRatchets
    <3>12. (RowStatus(feed.profile, Len(bars), feed.kernel))'
             = RowStatus(feed'.profile, Len(bars'), feed'.kernel)
      BY DEF RowStatus, Defined
    <3>13. QED BY <3>8, <3>9, <3>11, <3>12 DEF SeriesInv, ValidCandle
  <2>3. QED
    BY <2>1, <2>2 DEF FeedNext, FeedEnds
<1>3. QED
  BY <1>1, <1>2, FeedInvariance, PTL DEF FeedSpec

(* No bar stays too long in a window, is left out or counted twice, for any  *)
(* window length and any series.                                             *)
THEOREM TrailingWindows == FeedSpec => []WindowsAreTrailing
<1>1. SeriesInv => WindowsAreTrailing
  BY DEF SeriesInv, WindowsAreTrailing
<1>2. QED BY <1>1, SeriesInvariance, PTL

(* The final bands of SuperTrend are the tightest since some bar that no     *)
(* close but the last lies beyond, for any period and multiplier.            *)
THEOREM RatchetingBands == FeedSpec => []BandsRatchet
<1>1. SeriesInv => BandsRatchet
  <2> SUFFICES ASSUME SeriesInv, feed.profile = "supertrend", Len(bars) >= Period
               PROVE  /\ UpperRatchets(feed.kernel.bands.upper, bars)
                      /\ LowerRatchets(feed.kernel.bands.lower, bars)
    BY DEF BandsRatchet
  <2>1. feed.kernel.kind = "supertrend"
    BY DEF SeriesInv, FeedInv, Linked, ValidFor
  <2>2. QED BY <2>1 DEF SeriesInv, Keeps
<1>2. QED BY <1>1, SeriesInvariance, PTL

-----------------------------------------------------------------------------
(* When a row has a value                                                  *)

(* When a window that starts with the thing numbered first is full. *)
LEMMA FilledFull ==
  ASSUME NEW n \in Nat, NEW before \in Nat
  PROVE  Filled(n, before) = Period <=> n >= before + Period
BY PeriodAssumption DEF Filled, Smaller, Larger

(* The same, of a window that is known to be the end of a series. *)
LEMMA TrailingMembers ==
  ASSUME NEW n \in Nat, NEW first \in Nat \ {0}, NEW t,
         NEW w, w = Trailing(n, first, t), NEW from, from = Larger(first, n - Period + 1)
  PROVE  /\ from \in Nat \ {0}
         /\ \A i \in DOMAIN w : w[i] = t[from + i - 1] /\ from + i - 1 \in from .. n
         /\ \A j \in from .. n : j - from + 1 \in DOMAIN w /\ w[j - from + 1] = t[j]
BY TrailingParts

(* VWMA has a value when its window has a volume (VwmaState::value). *)
LEMMA VwmaStated ==
  ASSUME NEW s \in Seq(Candles), \A i \in DOMAIN s : ValidCandle(s[i]),
         NEW w, w = Trailing(Len(s), 1, Turnovers(s))
  PROVE  (\E i \in DOMAIN w : w[i][2] # 0)
           <=> \E i \in Larger(1, Len(s) - Period + 1) .. Len(s) : s[i].volume > 0
<1> DEFINE n == Len(s)
           from == Larger(1, n - Period + 1)
<1>1. n \in Nat /\ DOMAIN s = 1 .. n
  OBVIOUS
<1>2. /\ from \in Nat \ {0}
      /\ \A i \in DOMAIN w : w[i] = Turnovers(s)[from + i - 1] /\ from + i - 1 \in from .. n
      /\ \A j \in from .. n : j - from + 1 \in DOMAIN w /\ w[j - from + 1] = Turnovers(s)[j]
  <2> HIDE DEF n
  <2>1. 1 \in Nat \ {0} /\ n \in Nat /\ w = Trailing(n, 1, Turnovers(s))
    BY <1>1 DEF n
  <2>2. QED BY <2>1, TrailingParts
<1>3. \A j \in from .. n : j \in 1 .. n
  BY <1>1, <1>2
<1>4. \A j \in from .. n : Turnovers(s)[j][2] = s[j].volume /\ s[j].volume \in Nat
  <2> SUFFICES ASSUME NEW j \in from .. n
               PROVE  Turnovers(s)[j][2] = s[j].volume /\ s[j].volume \in Nat
    OBVIOUS
  <2>1. j \in DOMAIN s /\ s[j] \in Candles /\ ValidCandle(s[j])
    BY <1>1, <1>3
  <2>2. QED BY <2>1, Quoted DEF Turnovers
<1> HIDE DEF n, from
<1>5. ASSUME NEW i \in DOMAIN w, w[i][2] # 0
      PROVE  \E j \in from .. n : s[j].volume > 0
  <2>1. w[i] = Turnovers(s)[from + i - 1] /\ from + i - 1 \in from .. n
    BY <1>2
  <2>2. s[from + i - 1].volume \in Nat /\ s[from + i - 1].volume # 0
    BY <1>4, <1>5, <2>1
  <2>3. s[from + i - 1].volume > 0
    BY <2>2
  <2>4. QED BY <2>1, <2>3
<1>6. ASSUME NEW j \in from .. n, s[j].volume > 0
      PROVE  \E i \in DOMAIN w : w[i][2] # 0
  <2>1. j - from + 1 \in DOMAIN w /\ w[j - from + 1] = Turnovers(s)[j]
    BY <1>2
  <2>2. w[j - from + 1][2] # 0
    BY <1>4, <1>6, <2>1
  <2>3. QED BY <2>1, <2>2
<1>7. QED BY <1>5, <1>6 DEF n, from

(* Williams %R has a value when its window has a range (WilliamsState::value). *)
LEMMA WilliamsStated ==
  ASSUME NEW s \in Seq(Candles), \A i \in DOMAIN s : ValidCandle(s[i]),
         NEW w, w = Trailing(Len(s), 1, Extremes(s))
  PROVE  (\E i, j \in DOMAIN w : w[i][1] # w[j][2])
           <=> \E i, j \in Larger(1, Len(s) - Period + 1) .. Len(s) : s[i].high > s[j].low
<1> DEFINE n == Len(s)
           from == Larger(1, n - Period + 1)
<1>1. n \in Nat /\ DOMAIN s = 1 .. n
  OBVIOUS
<1>2. /\ from \in Nat \ {0}
      /\ \A i \in DOMAIN w : w[i] = Extremes(s)[from + i - 1] /\ from + i - 1 \in from .. n
      /\ \A j \in from .. n : j - from + 1 \in DOMAIN w /\ w[j - from + 1] = Extremes(s)[j]
  <2> HIDE DEF n
  <2>1. 1 \in Nat \ {0} /\ n \in Nat /\ w = Trailing(n, 1, Extremes(s))
    BY <1>1 DEF n
  <2>2. QED BY <2>1, TrailingParts
<1>3. \A j \in from .. n : j \in 1 .. n
  BY <1>1, <1>2
<1>4. \A j \in from .. n : /\ Extremes(s)[j][1] = s[j].high /\ Extremes(s)[j][2] = s[j].low
                           /\ s[j].high \in Int /\ s[j].low \in Int /\ s[j].high >= s[j].low
  <2> SUFFICES ASSUME NEW j \in from .. n
               PROVE  /\ Extremes(s)[j][1] = s[j].high /\ Extremes(s)[j][2] = s[j].low
                      /\ s[j].high \in Int /\ s[j].low \in Int /\ s[j].high >= s[j].low
    OBVIOUS
  <2>1. j \in DOMAIN s /\ s[j] \in Candles /\ ValidCandle(s[j])
    BY <1>1, <1>3
  <2>2. s[j].high \in Int /\ s[j].low \in Int /\ s[j].high >= s[j].low
    BY <2>1, Numbers DEF ValidCandle
  <2>3. QED BY <2>1, <2>2 DEF Extremes
<1> HIDE DEF n, from
<1>5. ASSUME NEW i \in DOMAIN w, NEW j \in DOMAIN w, w[i][1] # w[j][2]
      PROVE  \E a, b \in from .. n : s[a].high > s[b].low
  <2> DEFINE a == from + i - 1
             b == from + j - 1
  <2>1. w[i] = Extremes(s)[a] /\ a \in from .. n /\ w[j] = Extremes(s)[b] /\ b \in from .. n
    BY <1>2
  <2> HIDE DEF a, b
  <2>2. /\ s[a].high # s[b].low /\ s[a].high >= s[a].low /\ s[b].high >= s[b].low
        /\ s[a].high \in Int /\ s[a].low \in Int /\ s[b].high \in Int /\ s[b].low \in Int
    BY <1>4, <1>5, <2>1
  <2>3. s[a].high > s[b].low \/ s[b].high > s[a].low
    BY <2>2
  <2>4. QED BY <2>1, <2>3
<1>6. ASSUME NEW a \in from .. n, NEW b \in from .. n, s[a].high > s[b].low
      PROVE  \E i, j \in DOMAIN w : w[i][1] # w[j][2]
  <2>1. /\ a - from + 1 \in DOMAIN w /\ w[a - from + 1] = Extremes(s)[a]
        /\ b - from + 1 \in DOMAIN w /\ w[b - from + 1] = Extremes(s)[b]
    BY <1>2
  <2>2. w[a - from + 1][1] # w[b - from + 1][2]
    BY <1>4, <1>6, <2>1
  <2>3. QED BY <2>1, <2>2
<1>7. QED BY <1>5, <1>6 DEF n, from

(* Vortex has values when its full window has a range (Vortex::update). *)
LEMMA VortexStated ==
  ASSUME NEW s \in Seq(Candles), Len(s) >= Period + 1
  PROVE  LET w == Trailing(Len(s), 2, Moves(s))
         IN  (\E i \in DOMAIN w : w[i][3] > 0)
               <=> \E i \in Larger(1, Len(s) - Period + 1) .. Len(s) : RangeAt(s, i) > 0
<1> DEFINE n == Len(s)
           first == 2
           from == Larger(first, n - Period + 1)
           w == Trailing(n, first, Moves(s))
<1>1. n \in Nat /\ n >= Period + 1
  OBVIOUS
<1>2. from = n - Period + 1 /\ Larger(1, n - Period + 1) = from /\ from >= 2 /\ from \in Nat
  BY <1>1, PeriodAssumption DEF Larger
<1>3. /\ \A i \in DOMAIN w : w[i] = Moves(s)[from + i - 1] /\ from + i - 1 \in from .. n
      /\ \A j \in from .. n : j - from + 1 \in DOMAIN w /\ w[j - from + 1] = Moves(s)[j]
  <2> DEFINE t == Moves(s)
  <2>1. /\ first \in Nat \ {0} /\ n \in Nat /\ w = Trailing(n, first, t)
        /\ from = Larger(first, n - Period + 1)
    BY <1>1
  <2> HIDE DEF n, first, from, t, w
  <2>2. /\ \A i \in DOMAIN w : w[i] = t[from + i - 1] /\ from + i - 1 \in from .. n
        /\ \A j \in from .. n : j - from + 1 \in DOMAIN w /\ w[j - from + 1] = t[j]
    BY <2>1, TrailingMembers
  <2>3. QED BY <2>2 DEF t
<1>4. \A j \in from .. n : Moves(s)[j][3] = RangeAt(s, j)
  <2>1. \A j \in from .. n : j \in 2 .. n
    BY <1>1, <1>2
  <2> HIDE DEF from
  <2>2. QED BY <2>1 DEF Moves, n
<1> HIDE DEF n, from, w
<1>5. ASSUME NEW i \in DOMAIN w, w[i][3] > 0
      PROVE  \E j \in from .. n : RangeAt(s, j) > 0
  <2>1. w[i] = Moves(s)[from + i - 1] /\ from + i - 1 \in from .. n
    BY <1>3
  <2>2. RangeAt(s, from + i - 1) > 0
    BY <1>4, <1>5, <2>1
  <2>3. QED BY <2>1, <2>2
<1>6. ASSUME NEW j \in from .. n, RangeAt(s, j) > 0
      PROVE  \E i \in DOMAIN w : w[i][3] > 0
  <2>1. j - from + 1 \in DOMAIN w /\ w[j - from + 1] = Moves(s)[j]
    BY <1>3
  <2>2. w[j - from + 1][3] > 0
    BY <1>4, <1>6, <2>1
  <2>3. QED BY <2>1, <2>2
<1>7. QED BY <1>2, <1>5, <1>6 DEF n, w, first

(* There is movement behind an RSI when some close so far differed from the *)
(* one before it: Wilder's averages forget nothing.                         *)
LEMMA MovedStated ==
  ASSUME NEW s \in Seq(Candles), NEW i \in 2 .. Len(s), Period > 1
  PROVE  Moved(Averages(s)[i]) <=> \E j \in 1 .. i - 1 : s[j].close # s[j + 1].close
<1> DEFINE gains == Gains(s, i)
           losses == Losses(s, i)
<1>1. /\ Len(s) \in Nat /\ i \in Nat
      /\ \A j \in 1 .. i - 1 : s[j].close \in Int /\ s[j + 1].close \in Int
  <2>1. \A j \in 1 .. i - 1 : j \in 1 .. Len(s) /\ j + 1 \in 1 .. Len(s)
    OBVIOUS
  <2>2. \A j \in 1 .. Len(s) : s[j] \in Candles
    OBVIOUS
  <2>3. QED BY <2>1, <2>2, Numbers
<1>2. /\ gains = [j \in 1 .. i - 1 |-> Larger(s[j + 1].close - s[j].close, 0)]
      /\ losses = [j \in 1 .. i - 1 |-> Larger(s[j].close - s[j + 1].close, 0)]
  BY DEF Gains, Losses
<1> HIDE DEF gains, losses
<1>3. \A j \in 1 .. i - 1 : /\ Larger(s[j + 1].close - s[j].close, 0) \in Nat
                            /\ Larger(s[j].close - s[j + 1].close, 0) \in Nat
                            /\ \/ Larger(s[j + 1].close - s[j].close, 0) > 0
                               \/ Larger(s[j].close - s[j + 1].close, 0) > 0
                               <=> s[j].close # s[j + 1].close
  BY <1>1 DEF Larger
<1>4. /\ gains \in Seq(Int) /\ Len(gains) = i - 1 /\ losses \in Seq(Int) /\ Len(losses) = i - 1
      /\ \A j \in 1 .. i - 1 : gains[j] >= 0 /\ losses[j] >= 0
  BY <1>1, <1>2, <1>3
<1>5. /\ Wilder(gains)[1] >= 0 /\ Wilder(losses)[1] >= 0
      /\ Wilder(gains)[1] > 0 <=> \E j \in 1 .. i - 1 : gains[j] > 0
      /\ Wilder(losses)[1] > 0 <=> \E j \in 1 .. i - 1 : losses[j] > 0
  BY <1>4, WilderPositive
<1>6. Wilder(gains)[1] \in Int /\ Wilder(losses)[1] \in Int
  BY <1>4, WilderFraction
<1>7. Wilder(gains)[1] + Wilder(losses)[1] > 0 <=> Wilder(gains)[1] > 0 \/ Wilder(losses)[1] > 0
  BY <1>5, <1>6
<1>8. Averages(s)[i] = <<gains, losses>>
  BY DEF Averages, gains, losses
<1>9. Moved(Averages(s)[i]) <=> Wilder(gains)[1] > 0 \/ Wilder(losses)[1] > 0
  BY <1>7, <1>8 DEF Moved
<1>10. (\E j \in 1 .. i - 1 : gains[j] > 0) \/ (\E j \in 1 .. i - 1 : losses[j] > 0)
         <=> \E j \in 1 .. i - 1 : s[j].close # s[j + 1].close
  BY <1>2, <1>3
<1>11. QED BY <1>5, <1>9, <1>10

(* StochRSI has a value when its full window is of RSIs that all had movement *)
(* behind them, and not all equal (StochRsi::update, the engine's marks).     *)
LEMMA StochRsiStated ==
  ASSUME NEW s \in Seq(Candles), Len(s) >= 2 * Period, Period > 1
  PROVE  LET since == Larger(Period + 1, Len(s) - Period + 1) .. Len(s)
             w == Trailing(Len(s), Period + 1, Averages(s))
             d == Trailing(Len(s), Period + 1, [i \in 2 .. Len(s) |-> Moved(Averages(s)[i])])
         IN  /\ (\A i \in DOMAIN d : d[i])
                  <=> \A i \in since : \E j \in 1 .. i - 1 : s[j].close # s[j + 1].close
             /\ (\E i, j \in DOMAIN w : Less(RsiValue(w[i]), RsiValue(w[j])))
                  <=> \E i, j \in since : Less(RsiValue(Averages(s)[i]), RsiValue(Averages(s)[j]))
<1> DEFINE n == Len(s)
           first == Period + 1
           from == Larger(first, n - Period + 1)
           marks == [i \in 2 .. n |-> Moved(Averages(s)[i])]
           w == Trailing(n, first, Averages(s))
           d == Trailing(n, first, marks)
<1>1. n \in Nat /\ first \in Nat \ {0} /\ Period \in Nat
  BY PeriodAssumption
<1>2. w = Trailing(n, first, Averages(s)) /\ d = Trailing(n, first, marks)
  OBVIOUS
<1> HIDE DEF first, marks, w, d
<1>3. /\ \A i \in DOMAIN w : w[i] = Averages(s)[from + i - 1] /\ from + i - 1 \in from .. n
      /\ \A j \in from .. n : j - from + 1 \in DOMAIN w /\ w[j - from + 1] = Averages(s)[j]
  <2> DEFINE t == Averages(s)
  <2>1. /\ first \in Nat \ {0} /\ n \in Nat /\ w = Trailing(n, first, t)
        /\ from = Larger(first, n - Period + 1)
    BY <1>1, <1>2
  <2> HIDE DEF n, from, t
  <2>2. /\ \A i \in DOMAIN w : w[i] = t[from + i - 1] /\ from + i - 1 \in from .. n
        /\ \A j \in from .. n : j - from + 1 \in DOMAIN w /\ w[j - from + 1] = t[j]
    BY <2>1, TrailingMembers
  <2>3. QED BY <2>2 DEF t
<1>4. /\ \A i \in DOMAIN d : d[i] = marks[from + i - 1] /\ from + i - 1 \in from .. n
      /\ \A j \in from .. n : j - from + 1 \in DOMAIN d /\ d[j - from + 1] = marks[j]
  <2> DEFINE t == marks
  <2>1. /\ first \in Nat \ {0} /\ n \in Nat /\ d = Trailing(n, first, t)
        /\ from = Larger(first, n - Period + 1)
    BY <1>1, <1>2
  <2> HIDE DEF n, from, t
  <2>2. /\ \A i \in DOMAIN d : d[i] = t[from + i - 1] /\ from + i - 1 \in from .. n
        /\ \A j \in from .. n : j - from + 1 \in DOMAIN d /\ d[j - from + 1] = t[j]
    BY <2>1, TrailingMembers
  <2>3. QED BY <2>2 DEF t
<1>5. \A j \in from .. n : j \in 2 .. n
  BY <1>1 DEF Larger, first
<1>6. ASSUME NEW j \in from .. n
      PROVE  marks[j] <=> \E l \in 1 .. j - 1 : s[l].close # s[l + 1].close
  <2>1. j \in 2 .. n
    BY <1>5
  <2>2. Moved(Averages(s)[j]) <=> \E l \in 1 .. j - 1 : s[l].close # s[l + 1].close
    BY <2>1, MovedStated
  <2>3. marks[j] = Moved(Averages(s)[j])
    BY <2>1 DEF marks
  <2>4. QED BY <2>2, <2>3
<1> HIDE DEF n, from
<1>7. (\A i \in DOMAIN d : d[i]) <=> \A j \in from .. n : marks[j]
  <2>1. ASSUME \A i \in DOMAIN d : d[i], NEW j \in from .. n PROVE marks[j]
    <3>1. j - from + 1 \in DOMAIN d /\ d[j - from + 1] = marks[j]
      BY <1>4
    <3>2. d[j - from + 1]
      BY <2>1, <3>1
    <3>3. QED BY <3>1, <3>2
  <2>2. ASSUME \A j \in from .. n : marks[j], NEW i \in DOMAIN d PROVE d[i]
    <3>1. d[i] = marks[from + i - 1] /\ from + i - 1 \in from .. n
      BY <1>4
    <3>2. marks[from + i - 1]
      BY <2>2, <3>1
    <3>3. QED BY <3>1, <3>2
  <2>3. QED BY <2>1, <2>2
<1>8. ASSUME NEW i \in DOMAIN w, NEW j \in DOMAIN w, Less(RsiValue(w[i]), RsiValue(w[j]))
      PROVE  \E a, b \in from .. n : Less(RsiValue(Averages(s)[a]), RsiValue(Averages(s)[b]))
  <2>1. /\ w[i] = Averages(s)[from + i - 1] /\ from + i - 1 \in from .. n
        /\ w[j] = Averages(s)[from + j - 1] /\ from + j - 1 \in from .. n
    BY <1>3
  <2>2. Less(RsiValue(Averages(s)[from + i - 1]), RsiValue(Averages(s)[from + j - 1]))
    BY <1>8, <2>1
  <2>3. QED BY <2>1, <2>2
<1>9. ASSUME NEW a \in from .. n, NEW b \in from .. n,
             Less(RsiValue(Averages(s)[a]), RsiValue(Averages(s)[b]))
      PROVE  \E i, j \in DOMAIN w : Less(RsiValue(w[i]), RsiValue(w[j]))
  <2>1. /\ a - from + 1 \in DOMAIN w /\ w[a - from + 1] = Averages(s)[a]
        /\ b - from + 1 \in DOMAIN w /\ w[b - from + 1] = Averages(s)[b]
    BY <1>3
  <2>2. Less(RsiValue(w[a - from + 1]), RsiValue(w[b - from + 1]))
    BY <1>9, <2>1
  <2>3. QED BY <2>1, <2>2
<1>10. (\A i \in DOMAIN d : d[i])
         <=> \A i \in from .. n : \E j \in 1 .. i - 1 : s[j].close # s[j + 1].close
  BY <1>6, <1>7
<1>11. (\E i, j \in DOMAIN w : Less(RsiValue(w[i]), RsiValue(w[j])))
         <=> \E i, j \in from .. n : Less(RsiValue(Averages(s)[i]), RsiValue(Averages(s)[j]))
  BY <1>8, <1>9
<1>12. QED BY <1>10, <1>11 DEF from, n, first, w, d, marks

(* The windows of every kernel are full when its profile has a first value,  *)
(* and then it is defined when the series states a value (Kernel::next,      *)
(* ReferenceKernel::next).                                                   *)
LEMMA DefinedWhenStated ==
  ASSUME NEW s \in Seq(Candles), \A i \in DOMAIN s : ValidCandle(s[i]),
         NEW p \in Profiles, NEW k \in Kernel, ValidFor(k, p, Len(s)),
         Trails(k, s), Keeps(k, s)
  PROVE  /\ Len(s) >= MinimumBars[p] => (Defined(k) <=> Stated(p, s))
         /\ Len(s) < MinimumBars[p] /\ p \in ReferenceKinds => ~Defined(k)
<1> DEFINE n == Len(s)
           last == Larger(1, n - Period + 1) .. n
           since == Larger(Period + 1, n - Period + 1) .. n
<1>1. n \in Nat /\ Period \in Nat /\ Period > 1 /\ k.kind = p /\ p \in Kinds
  BY PeriodAssumption, FeedAssumption, EngineAssumption DEF ValidFor
<1>2. p \in ReferenceKinds => MinimumBars[p] = FirstValue(p)
  BY FeedAssumption
<1>3. CASE p \in {"ema", "atr", "obv"}
  BY <1>1, <1>3 DEF Defined, Stated, ReferenceKinds
<1>4. CASE p = "rsi"
  <2>1. k.seeded <=> n > 1
    BY <1>4 DEF ValidFor, OwnValid, ReferenceKinds
  <2>2. MinimumBars[p] > 1 /\ MinimumBars[p] \in Nat
    BY <1>4, FeedAssumption, EngineAssumption
  <2>3. Stated(p, s) /\ (Defined(k) <=> k.seeded) /\ p \notin ReferenceKinds
    BY <1>1, <1>4 DEF Defined, Stated, ReferenceKinds
  <2> HIDE DEF n
  <2>4. QED BY <1>1, <2>1, <2>2, <2>3 DEF n
<1>5. CASE p = "vwma"
  <2>1. k.window = Trailing(n, 1, Turnovers(s))
    BY <1>1, <1>5 DEF Trails
  <2>2. (\E i \in DOMAIN k.window : k.window[i][2] # 0) <=> \E i \in last : s[i].volume > 0
    BY <2>1, VwmaStated
  <2>3. Defined(k) <=> \E i \in DOMAIN k.window : k.window[i][2] # 0
    BY <1>1, <1>5 DEF Defined, ReferenceKinds
  <2>4. Stated(p, s) <=> \E i \in last : s[i].volume > 0
    BY <1>5 DEF Stated
  <2>5. QED BY <1>5, <2>2, <2>3, <2>4 DEF ReferenceKinds
<1>6. CASE p = "williams"
  <2>1. k.window = Trailing(n, 1, Extremes(s))
    BY <1>1, <1>6 DEF Trails
  <2>2. (\E i, j \in DOMAIN k.window : k.window[i][1] # k.window[j][2])
          <=> \E i, j \in last : s[i].high > s[j].low
    BY <2>1, WilliamsStated
  <2>3. Defined(k) <=> \E i, j \in DOMAIN k.window : k.window[i][1] # k.window[j][2]
    BY <1>1, <1>6 DEF Defined, ReferenceKinds
  <2>4. Stated(p, s) <=> \E i, j \in last : s[i].high > s[j].low
    BY <1>6 DEF Stated
  <2>5. QED BY <1>6, <2>2, <2>3, <2>4 DEF ReferenceKinds
<1>7. CASE p = "alma"
  <2>1. Len(k.window) = Filled(n, 0)
    BY <1>7 DEF ValidFor, ReferenceKinds, ReferenceValid
  <2>2. Filled(n, 0) = Period <=> n >= 0 + Period
    BY <1>1, FilledFull
  <2>3. (Defined(k) <=> Len(k.window) = Period) /\ Stated(p, s)
    BY <1>1, <1>7 DEF Defined, ReferenceDefined, ReferenceKinds, Stated
  <2>4. MinimumBars[p] = Period
    BY <1>2, <1>7 DEF FirstValue, ReferenceKinds
  <2> HIDE DEF n
  <2>5. QED BY <1>1, <2>1, <2>2, <2>3, <2>4 DEF n
<1>8. CASE p = "supertrend"
  <2>1. k.atr.seeded <=> n >= Period
    BY <1>8 DEF ValidFor, ReferenceKinds, ReferenceValid, SuperTrendValid, AtrValid
  <2>2. (Defined(k) <=> k.atr.seeded) /\ Stated(p, s)
    BY <1>1, <1>8 DEF Defined, ReferenceDefined, ReferenceKinds, Stated
  <2>3. MinimumBars[p] = Period
    BY <1>2, <1>8 DEF FirstValue, ReferenceKinds
  <2> HIDE DEF n
  <2>4. QED BY <1>1, <2>1, <2>2, <2>3 DEF n
<1>9. CASE p = "ulcer"
  <2>1. Len(k.drawdowns) = Filled(n, Period - 1)
    BY <1>9 DEF ValidFor, ReferenceKinds, ReferenceValid, UlcerValid
  <2>2. Filled(n, Period - 1) = Period <=> n >= (Period - 1) + Period
    <3>1. Period - 1 \in Nat
      BY <1>1
    <3>2. QED BY <1>1, <3>1, FilledFull
  <2>3. (Defined(k) <=> Len(k.drawdowns) = Period) /\ Stated(p, s)
    BY <1>1, <1>9 DEF Defined, ReferenceDefined, ReferenceKinds, Stated
  <2>4. MinimumBars[p] = 2 * Period - 1
    BY <1>2, <1>9 DEF FirstValue, ReferenceKinds
  <2> HIDE DEF n
  <2>5. QED BY <1>1, <2>1, <2>2, <2>3, <2>4 DEF n
<1>10. CASE p = "vortex"
  <2>1. Len(k.window) = Filled(n, 1) /\ k.window = Trailing(n, 2, Moves(s))
    BY <1>1, <1>10 DEF ValidFor, ReferenceKinds, ReferenceValid, VortexValid, Trails
  <2>2. Filled(n, 1) = Period <=> n >= 1 + Period
    BY <1>1, FilledFull
  <2>3. n >= Period + 1 => ((\E i \in DOMAIN k.window : k.window[i][3] > 0)
                             <=> \E i \in last : RangeAt(s, i) > 0)
    <3> DEFINE w == Trailing(n, 2, Moves(s))
    <3>1. n >= Period + 1 => ((\E i \in DOMAIN w : w[i][3] > 0)
                               <=> \E i \in last : RangeAt(s, i) > 0)
      BY VortexStated
    <3>2. k.window = w
      BY <2>1
    <3> HIDE DEF w
    <3>3. QED BY <3>1, <3>2
  <2>4. Defined(k) <=> /\ Len(k.window) = Period
                       /\ \E i \in DOMAIN k.window : k.window[i][3] > 0
    BY <1>1, <1>10 DEF Defined, ReferenceDefined, ReferenceKinds
  <2>5. Stated(p, s) <=> \E i \in last : RangeAt(s, i) > 0
    BY <1>10 DEF Stated
  <2>6. MinimumBars[p] = Period + 1
    BY <1>2, <1>10 DEF FirstValue, ReferenceKinds
  <2>7. n >= Period + 1 <=> Len(k.window) = Period
    BY <1>1, <2>1, <2>2
  <2>8. n < Period + 1 <=> ~(n >= Period + 1)
    BY <1>1
  <2> HIDE DEF n, last
  <2>9. QED BY <2>3, <2>4, <2>5, <2>6, <2>7, <2>8 DEF n
<1>11. CASE p = "stoch_rsi"
  <2>1. /\ Len(k.window) = Filled(n, Period) /\ Len(k.defined) = Len(k.window)
        /\ k.window = Trailing(n, Period + 1, Averages(s))
        /\ k.defined = Trailing(n, Period + 1, [i \in 2 .. n |-> Moved(Averages(s)[i])])
    BY <1>1, <1>11 DEF ValidFor, ReferenceKinds, ReferenceValid, StochRsiValid, Trails, Keeps
  <2>2. Filled(n, Period) = Period <=> n >= Period + Period
    BY <1>1, FilledFull
  <2>3. n >= 2 * Period =>
          /\ (\A i \in DOMAIN k.defined : k.defined[i])
               <=> \A i \in since : \E j \in 1 .. i - 1 : s[j].close # s[j + 1].close
          /\ (\E i, j \in DOMAIN k.window : Less(RsiValue(k.window[i]), RsiValue(k.window[j])))
               <=> \E i, j \in since : Less(RsiValue(Averages(s)[i]), RsiValue(Averages(s)[j]))
    <3> DEFINE w == Trailing(n, Period + 1, Averages(s))
               d == Trailing(n, Period + 1, [i \in 2 .. n |-> Moved(Averages(s)[i])])
    <3>1. n >= 2 * Period =>
            /\ (\A i \in DOMAIN d : d[i])
                 <=> \A i \in since : \E j \in 1 .. i - 1 : s[j].close # s[j + 1].close
            /\ (\E i, j \in DOMAIN w : Less(RsiValue(w[i]), RsiValue(w[j])))
                 <=> \E i, j \in since : Less(RsiValue(Averages(s)[i]), RsiValue(Averages(s)[j]))
      BY <1>1, StochRsiStated
    <3>2. k.window = w /\ k.defined = d
      BY <2>1
    <3> HIDE DEF w, d, since
    <3>3. QED BY <3>1, <3>2
  <2>4. Defined(k) <=> /\ Len(k.defined) = Period
                       /\ \A i \in DOMAIN k.defined : k.defined[i]
                       /\ \E i, j \in DOMAIN k.window :
                            Less(RsiValue(k.window[i]), RsiValue(k.window[j]))
    BY <1>1, <1>11 DEF Defined, ReferenceDefined, ReferenceKinds
  <2>5. Stated(p, s) <=>
          /\ \A i \in since : \E j \in 1 .. i - 1 : s[j].close # s[j + 1].close
          /\ \E i, j \in since : Less(RsiValue(Averages(s)[i]), RsiValue(Averages(s)[j]))
    BY <1>11 DEF Stated
  <2>6. MinimumBars[p] = 2 * Period
    BY <1>2, <1>11 DEF FirstValue, ReferenceKinds
  <2>7. n >= 2 * Period <=> Len(k.defined) = Period
    BY <1>1, <2>1, <2>2
  <2>8. n < 2 * Period <=> ~(n >= 2 * Period)
    BY <1>1
  <2> HIDE DEF n, since
  <2>9. QED BY <2>3, <2>4, <2>5, <2>6, <2>7, <2>8 DEF n
<1>12. QED
  BY <1>1, <1>3, <1>4, <1>5, <1>6, <1>7, <1>8, <1>9, <1>10, <1>11
  DEF Kinds, OwnKinds, ReferenceKinds

(* A row is warming up exactly as long as no series of its length has a      *)
(* value, and undefined exactly while the series says so: for any window     *)
(* length above one, any series, and any candles.                            *)
THEOREM StatedRows == FeedSpec => []UndefinedAsStated
<1>1. SeriesInv => UndefinedAsStated
  <2> SUFFICES ASSUME SeriesInv PROVE UndefinedAsStated
    OBVIOUS
  <2> DEFINE p == feed.profile
             k == feed.kernel
             n == Len(bars)
  <2>1. /\ p \in Profiles /\ k \in Kernel /\ ValidFor(k, p, n)
        /\ bars \in Seq(Candles) /\ \A i \in DOMAIN bars : ValidCandle(bars[i])
        /\ Trails(k, bars) /\ Keeps(k, bars)
        /\ feed.latest.status = IF bars = <<>> THEN "WarmingUp" ELSE RowStatus(p, n, k)
    BY DEF SeriesInv, FeedInv, Linked, State
  <2>2. /\ n >= MinimumBars[p] => (Defined(k) <=> Stated(p, bars))
        /\ n < MinimumBars[p] /\ p \in ReferenceKinds => ~Defined(k)
    BY <2>1, DefinedWhenStated
  <2>3. MinimumBars[p] \in Nat \ {0} /\ n \in Nat
    BY <2>1, EngineAssumption
  <2>4. bars = <<>> => n < MinimumBars[p]
    BY <2>3
  <2>5. RowStatus(p, n, k) = IF n < MinimumBars[p] THEN "WarmingUp"
                             ELSE IF Defined(k) THEN "Ready" ELSE "UndefinedResult"
    BY DEF RowStatus
  <2>6. n < MinimumBars[p] <=> ~(n >= MinimumBars[p])
    BY <2>3
  <2>7. feed.latest.status = IF n < MinimumBars[p] THEN "WarmingUp"
                             ELSE IF Stated(p, bars) THEN "Ready" ELSE "UndefinedResult"
    BY <2>1, <2>2, <2>4, <2>5, <2>6
  <2>8. n < MinimumBars[p] /\ p \in ReferenceKinds => ~Defined(k)
    BY <2>2
  <2>9. QED BY <2>6, <2>7, <2>8 DEF UndefinedAsStated
<1>2. QED BY <1>1, SeriesInvariance, PTL

-----------------------------------------------------------------------------
(* The invariant of the engine                                             *)

(* No state is the absent stream. *)
LEMMA StateRuns == \A s \in State : s # NoStream
BY EngineAssumption DEF State, NoStream, Kinds

(* The calls that leave the vault alone: the invariant holds again when the *)
(* new live stream, if any, is linked to the new log.                       *)
LEMMA LiveStep ==
  ASSUME Inv, UNCHANGED vault, reply' \in Replies,
         NEW s \in State, NEW l \in Seq(Entry), Linked(s, l),
         stream' = s, log' = l, owner' = <<s.identity, s.profile>>
  PROVE  Inv'
<1>1. Running'
  BY StateRuns DEF Running
<1>2. s.identity \in Identities /\ s.profile \in Profiles
  BY DEF State
<1>3. TypeOK'
  BY <1>2 DEF Inv, TypeOK
<1>4. \A e \in vault' : Sealed(e)'
  BY DEF Inv, Sealed
<1>5. Linked(stream, log)'
  OBVIOUS
<1>6. QED
  BY <1>1, <1>3, <1>4, <1>5 DEF Inv

LEMMA InitInv == Init => Inv
BY DEF Init, Inv, TypeOK, Replies, Running

(* Every step of the engine, its owner and its store keeps the invariant. *)
LEMMA NextInv == Inv /\ [Next]_vars => Inv'
<1> SUFFICES ASSUME Inv, [Next]_vars PROVE Inv'
  OBVIOUS
<1>0. /\ stream \in State \cup {NoStream} /\ log \in Seq(Entry)
      /\ Running => /\ stream \in State /\ Linked(stream, log)
                    /\ owner = <<stream.identity, stream.profile>>
                    /\ stream.identity \in Identities /\ stream.profile \in Profiles
  BY DEF Inv, TypeOK, Running, State
<1>1. ASSUME NEW id \in Identities, NEW p \in Profiles, Create(id, p)
      PROVE  Inv'
  <2>1. NewStream(id, p) \in State /\ Linked(NewStream(id, p), <<>>)
    BY NewStreamLinked
  <2>2. NewStream(id, p).identity = id /\ NewStream(id, p).profile = p
    BY DEF NewStream
  <2>3. log' = <<>> /\ <<>> \in Seq(Entry)
    BY <1>1 DEF Create, Inv
  <2>4. QED
    BY <1>1, <2>1, <2>2, <2>3, LiveStep DEF Create, Replies
<1>2. ASSUME NEW bar \in Bar, NEW asOf \in Time, Update(bar, asOf)
      PROVE  Inv'
  <2> DEFINE e == [series |-> owner, bar |-> bar]
  <2>1. Running /\ Acceptable(bar, asOf, stream)
    BY <1>2 DEF Update
  <2>2. e \in Entry /\ e.bar = bar /\ e.series = <<stream.identity, stream.profile>>
    BY <1>0, <2>1 DEF Entry
  <2>3. Consume(stream, bar) \in State /\ Linked(Consume(stream, bar), Append(log, e))
    <3> HIDE DEF e
    <3> QED BY <1>0, <2>1, <2>2, ConsumeLinked
  <2>4. /\ Consume(stream, bar).identity = stream.identity
        /\ Consume(stream, bar).profile = stream.profile
    BY <1>0, <2>1 DEF Consume, State
  <2>5. Append(log, e) \in Seq(Entry)
    <3> HIDE DEF e
    <3> QED BY <1>0, <2>2
  <2>6. QED
    BY <1>0, <1>2, <2>1, <2>3, <2>4, <2>5, LiveStep DEF Update, Replies
<1>3. ASSUME NEW bar \in Bar, NEW asOf \in Time,
             UpdateRefused(bar, asOf) \/ UpdateFails(bar, asOf)
      PROVE  Inv'
  <2>1. Running /\ UNCHANGED <<stream, vault, owner, log>> /\ reply' \in Replies
    BY <1>3 DEF UpdateRefused, UpdateFails, AfterFailure, Refusal, Replies
  <2>2. QED
    BY <1>0, <2>1, LiveStep
<1>4. CASE Reset
  <2>1. Running /\ stream' = NewStream(stream.identity, stream.profile) /\ log' = <<>>
    BY <1>4 DEF Reset
  <2>2. /\ NewStream(stream.identity, stream.profile) \in State
        /\ Linked(NewStream(stream.identity, stream.profile), <<>>)
    BY <1>0, <2>1, NewStreamLinked
  <2>3. /\ NewStream(stream.identity, stream.profile).identity = stream.identity
        /\ NewStream(stream.identity, stream.profile).profile = stream.profile
    BY DEF NewStream
  <2>4. <<>> \in Seq(Entry)
    OBVIOUS
  <2>5. QED
    BY <1>0, <1>4, <2>1, <2>2, <2>3, <2>4, LiveStep DEF Reset, Replies
<1>5. CASE TakeSnapshot
  <2> DEFINE entry == [snapshot |-> SnapshotOf(stream), log |-> log]
  <2>1. Running /\ vault' = vault \cup {entry} /\ UNCHANGED <<stream, owner, log>>
    BY <1>5 DEF TakeSnapshot
  <2>2. /\ entry \in [snapshot: Snapshot, log: Seq(Entry)]
        /\ entry.log = log
        /\ entry.snapshot.checksum = Digest(1, stream.profile, stream)
    BY <1>0, <2>1 DEF SnapshotOf, Snapshot, Digest
  <2> HIDE DEF entry
  <2>3. Sealed(entry)
    BY <1>0, <2>1, <2>2 DEF Sealed
  <2>4. TypeOK'
    BY <1>0, <1>5, <2>1, <2>2 DEF Inv, TypeOK, TakeSnapshot, Replies
  <2>5. \A e \in vault' : Sealed(e)'
    BY <2>1, <2>3 DEF Inv, Sealed
  <2>6. QED
    BY <1>0, <2>1, <2>4, <2>5 DEF Inv, Running
<1>6. CASE Crash
  <2>1. stream' = NoStream /\ log' = <<>> /\ owner' = <<>> /\ UNCHANGED vault
    BY <1>6 DEF Crash
  <2>2. \A e \in vault' : Sealed(e)'
    BY <2>1 DEF Inv, Sealed
  <2>3. QED
    BY <1>6, <2>1, <2>2 DEF Inv, TypeOK, Crash, Replies, Running
<1>7. ASSUME NEW e \in vault, NEW id \in Identities, NEW p \in Profiles, Restore(e, id, p)
      PROVE  Inv'
  <2>1. Sealed(e) /\ e.log \in Seq(Entry)
    BY DEF Inv, TypeOK
  <2>2. /\ e.snapshot.payload \in State
        /\ Linked(e.snapshot.payload, e.log)
        /\ e.snapshot.payload.identity = id /\ e.snapshot.payload.profile = p
    BY <1>7, <2>1, RestoredLinked DEF Restore
  <2>3. QED
    BY <1>7, <2>1, <2>2, LiveStep DEF Restore, Replies
<1>8. ASSUME NEW e \in vault, NEW id \in Identities, NEW p \in Profiles,
             RestoreRefused(e, id, p)
      PROVE  Inv'
  <2>1. ~Running /\ UNCHANGED <<stream, vault, owner, log>> /\ reply' \in Replies
    BY <1>8 DEF RestoreRefused, Replies
  <2>2. \A f \in vault' : Sealed(f)'
    BY <2>1 DEF Inv, Sealed
  <2>3. QED
    BY <2>1, <2>2 DEF Inv, TypeOK, Running
<1>9. ASSUME NEW e \in vault, NEW other \in vault, Damage(e, other)
      PROVE  Inv'
  <2>1. PICK damaged \in {[e.snapshot EXCEPT !.payload = other.snapshot.payload],
                          [e.snapshot EXCEPT !.hash = other.snapshot.hash],
                          [e.snapshot EXCEPT !.version = 0]} :
          /\ vault' = (vault \ {e}) \cup {[e EXCEPT !.snapshot = damaged]}
          /\ UNCHANGED <<stream, reply, owner, log>>
    BY <1>9 DEF Damage
  <2>2. PICK s \in State : /\ e.snapshot.checksum = Digest(1, s.profile, s)
                           /\ Linked(s, e.log)
    BY DEF Inv, Sealed
  <2> DEFINE f == [e EXCEPT !.snapshot = damaged]
  <2>3. f.log = e.log /\ f.snapshot.checksum = e.snapshot.checksum
        /\ f.snapshot \in Snapshot /\ f \in [snapshot: Snapshot, log: Seq(Entry)]
    <3>1. /\ e \in [snapshot: Snapshot, log: Seq(Entry)]
          /\ other.snapshot.payload \in State /\ other.snapshot.hash \in Profiles
      BY DEF Inv, TypeOK, Snapshot
    <3>2. damaged \in Snapshot /\ damaged.checksum = e.snapshot.checksum
      BY <2>1, <3>1 DEF Snapshot
    <3>3. QED BY <3>1, <3>2
  <2> HIDE DEF f
  <2>4. Sealed(f)
    BY <2>2, <2>3 DEF Sealed
  <2>5. TypeOK'
    BY <2>1, <2>3 DEF Inv, TypeOK, f
  <2>6. \A g \in vault' : Sealed(g)'
    BY <2>1, <2>4 DEF Inv, Sealed, f
  <2>7. QED
    BY <2>1, <2>5, <2>6 DEF Inv, Running
<1>10. CASE UNCHANGED vars
  <2>1. \A e \in vault' : Sealed(e)'
    BY <1>10 DEF Inv, Sealed, vars
  <2>2. QED
    BY <1>10, <2>1 DEF Inv, TypeOK, Running, vars
<1>11. QED
  BY <1>1, <1>2, <1>3, <1>4, <1>5, <1>6, <1>7, <1>8, <1>9, <1>10 DEF Next

(* The invariant holds in every reachable state. *)
THEOREM Invariance == Spec => []Inv
BY InitInv, NextInv, PTL DEF Spec

-----------------------------------------------------------------------------
(* What follows from it                                                    *)

(* Every variable has its shape in every reachable state. *)
THEOREM TypeCorrect == Spec => []TypeOK
<1>1. Inv => TypeOK
  BY DEF Inv
<1>2. QED BY <1>1, Invariance, PTL

(* Whatever the owner restores, the bars a stream has consumed are strictly *)
(* later one after another (validate_bar with the restored last_closed).    *)
THEOREM ChronologicalLog == Spec => []Chronological
<1>1. Inv => Chronological
  <2>1. CASE Running
    BY <2>1 DEF Inv, Linked, Chronological
  <2>2. CASE ~Running
    BY <2>2 DEF Inv, Chronological
  <2>3. QED BY <2>1, <2>2
<1>2. QED BY <1>1, Invariance, PTL

(* After any history the live state is what a new stream reaches by the     *)
(* logged bars alone: no failure, restore or damage loses a bar, applies one *)
(* twice or leaves one half applied (the candidate of Stream::update).       *)
THEOREM ReplayedState == Spec => []StateIsReplay
<1>1. Inv => StateIsReplay
  BY DEF Inv, StateIsReplay, Linked
<1>2. QED BY <1>1, Invariance, PTL

(* No stream ever consumes the bars of two series (identity and profile checks *)
(* and checksum of restore).                                                   *)
THEOREM SingleSeries == Spec => []OneSeries
<1>1. Inv => OneSeries
  <2> SUFFICES ASSUME Inv, Running, NEW i \in DOMAIN log
               PROVE  log[i].series = <<stream.identity, stream.profile>>
    BY DEF OneSeries
  <2>1. log \in Seq(Entry) /\ Linked(stream, log)
    BY DEF Inv, TypeOK
  <2>2. i \in 1 .. Len(log)
    BY <2>1
  <2>3. QED BY <2>1, <2>2 DEF Linked
<1>2. QED BY <1>1, Invariance, PTL

(* Restore accepts the snapshot of any state a stream can be in: valid_for *)
(* and the metadata checks are exact on reachable states.                  *)
THEOREM SnapshotsRestorable == Spec => []LiveStateRestorable
<1>1. Inv => LiveStateRestorable
  BY LinkedRestorable DEF Inv, TypeOK, LiveStateRestorable, Running
<1>2. QED BY <1>1, Invariance, PTL

(* The u64 sample counter never reaches its limit on an i64 clock. *)
THEOREM SamplesBounded == Spec => []SamplesBoundedByClock
<1>1. Inv => SamplesBoundedByClock
  BY DEF Inv, SamplesBoundedByClock, Linked
<1>2. QED BY <1>1, Invariance, PTL

-----------------------------------------------------------------------------
(* Refinement                                                              *)

(* The latest row of a linked state is the description of its log. *)
LEMMA LinkedReport ==
  ASSUME NEW s \in State, NEW l \in Seq(Entry), Linked(s, l)
  PROVE  <<s.latest.samples, s.latest.closed, s.latest.available>> = Promise!Describe(l)
<1>1. CASE l = <<>>
  BY <1>1 DEF Linked, RowConsistent, NoRow, Promise!Describe
<1>2. CASE l # <<>>
  BY <1>2 DEF Linked, Promise!Describe
<1>3. QED BY <1>1, <1>2

(* In every reachable state the report describes the log. *)
LEMMA InvReport == Inv => Report = Promise!Describe(log)
<1> SUFFICES ASSUME Inv PROVE Report = Promise!Describe(log)
  OBVIOUS
<1>1. CASE Running
  BY <1>1, LinkedReport DEF Inv, TypeOK, Report, Running
<1>2. CASE ~Running
  BY <1>2 DEF Inv, Report, Promise!Describe
<1>3. QED BY <1>1, <1>2

(* The engine implements SeriesLog. *)
THEOREM Refinement == Spec => ImplementsSeriesLog
<1>1. Init => Promise!Init
  BY DEF Init, Promise!Init, Running, Report, Promise!Describe
<1>2. Inv /\ Inv' /\ [Next]_vars => [Promise!Next]_(Promise!vars)
  <2> SUFFICES ASSUME Inv, Inv', [Next]_vars
               PROVE  Promise!Next \/ UNCHANGED Promise!vars
    OBVIOUS
  <2> DEFINE saved == {e.log : e \in vault}
  <2>1. Report = Promise!Describe(log) /\ Report' = Promise!Describe(log')
    <3>1. Report = Promise!Describe(log)
      BY InvReport
    <3>2. (Report = Promise!Describe(log))'
      BY InvReport, PTL
    <3>3. (Promise!Describe(log))' = Promise!Describe(log')
      BY DEF Promise!Describe
    <3>4. QED BY <3>1, <3>2, <3>3
  <2>2. ASSUME UNCHANGED vault PROVE UNCHANGED saved
    BY <2>2
  <2>3. ASSUME UNCHANGED saved, UNCHANGED <<stream, log>>
        PROVE  UNCHANGED Promise!vars
    BY <2>3 DEF Promise!vars, Running, Report
  <2>4. ASSUME NEW id \in Identities, NEW p \in Profiles, Create(id, p)
        PROVE  Promise!Begin(<<>>)
    BY <2>1, <2>2, <2>4 DEF Create, Promise!Begin, Inv, Running, NewStream, NoStream
  <2>5. ASSUME NEW bar \in Bar, NEW asOf \in Time, Update(bar, asOf)
        PROVE  \E e \in Entry : Promise!Extend(e)
    <3> DEFINE e == [series |-> owner, bar |-> bar]
    <3>1. /\ Running /\ Running' /\ UNCHANGED vault /\ log' = Append(log, e)
          /\ bar.closed > stream.closed /\ bar.available >= stream.available
      BY <2>5 DEF Update, Acceptable, InOrder, Inv, Running, Consume, State, NoStream, TypeOK
    <3>2. stream \in State /\ Linked(stream, log) /\ owner \in Identities \X Profiles
      BY <3>1 DEF Inv, TypeOK, Running, State
    <3>3. e \in Entry /\ e.bar = bar
      BY <3>2 DEF Entry
    <3> HIDE DEF e
    <3>4. Promise!After(e, log)
      BY <3>1, <3>2, <3>3 DEF Linked, Promise!After
    <3>5. Promise!Extend(e)
      BY <2>1, <2>2, <3>1, <3>4 DEF Promise!Extend
    <3>6. QED BY <3>3, <3>5
  <2>6. ASSUME NEW bar \in Bar, NEW asOf \in Time,
               UpdateRefused(bar, asOf) \/ UpdateFails(bar, asOf)
        PROVE  UNCHANGED Promise!vars
    BY <2>2, <2>3, <2>6 DEF UpdateRefused, UpdateFails, AfterFailure
  <2>7. ASSUME Reset PROVE Promise!Clear
    BY <2>1, <2>2, <2>7 DEF Reset, Promise!Clear, Running, NewStream, NoStream, Inv
  <2>8. ASSUME TakeSnapshot PROVE Promise!Save
    <3> DEFINE entry == [snapshot |-> SnapshotOf(stream), log |-> log]
    <3>0. vault' = vault \cup {entry} /\ entry.log = log
      BY <2>8 DEF TakeSnapshot
    <3> HIDE DEF entry
    <3>1. saved' = saved \cup {log}
      BY <3>0
    <3>2. Running /\ UNCHANGED <<Running, log, Report>>
      BY <2>8 DEF TakeSnapshot, Running, Report
    <3>3. QED BY <3>1, <3>2 DEF Promise!Save
  <2>9. ASSUME Crash PROVE Promise!Lose
    BY <2>1, <2>2, <2>9 DEF Crash, Promise!Lose, Running
  <2>10. ASSUME NEW e \in vault, NEW id \in Identities, NEW p \in Profiles, Restore(e, id, p)
         PROVE  \E l \in saved \cup {<<>>} : Promise!Begin(l)
    <3>1. ~Running /\ Running' /\ UNCHANGED vault /\ log' = e.log /\ e.log \in saved
      <4>1. e.snapshot.payload \in State
        BY DEF Inv, TypeOK, Snapshot
      <4>2. QED BY <2>10, <4>1, StateRuns DEF Restore, Running
    <3>2. Promise!Begin(e.log)
      BY <2>1, <2>2, <3>1 DEF Promise!Begin
    <3>3. QED BY <3>1, <3>2
  <2>11. ASSUME NEW e \in vault, NEW id \in Identities, NEW p \in Profiles,
                RestoreRefused(e, id, p)
         PROVE  UNCHANGED Promise!vars
    BY <2>2, <2>3, <2>11 DEF RestoreRefused
  <2>12. ASSUME NEW e \in vault, NEW other \in vault, Damage(e, other)
         PROVE  UNCHANGED Promise!vars
    <3>1. PICK damaged : /\ vault' = (vault \ {e}) \cup {[e EXCEPT !.snapshot = damaged]}
                         /\ UNCHANGED <<stream, log>>
      BY <2>12 DEF Damage
    <3>2. [e EXCEPT !.snapshot = damaged].log = e.log
      BY DEF Inv, TypeOK
    <3>3. UNCHANGED saved
      BY <3>1, <3>2
    <3>4. QED BY <2>3, <3>1, <3>3
  <2>13. ASSUME UNCHANGED vars PROVE UNCHANGED Promise!vars
    BY <2>2, <2>3, <2>13 DEF vars
  <2>14. CASE Next
    <3>1. Promise!Begin(<<>>) => Promise!Next
      BY DEF Promise!Next
    <3>2. \A e \in Entry : Promise!Extend(e) => Promise!Next
      BY DEF Promise!Next
    <3>3. (\E l \in saved \cup {<<>>} : Promise!Begin(l)) => Promise!Next
      BY DEF Promise!Next
    <3>4. Promise!Clear \/ Promise!Save \/ Promise!Lose => Promise!Next
      BY DEF Promise!Next
    <3>5. QED
      BY <2>4, <2>5, <2>6, <2>7, <2>8, <2>9, <2>10, <2>11, <2>12, <2>14,
         <3>1, <3>2, <3>3, <3>4 DEF Next
  <2>15. QED BY <2>13, <2>14
<1>3. QED
  BY <1>1, <1>2, Invariance, PTL DEF Spec, Promise!Spec, ImplementsSeriesLog
=============================================================================
