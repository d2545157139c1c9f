--------------------------- MODULE PipelineProofs ---------------------------
(***************************************************************************)
(* Proofs about BarPipeline, for any ticks, clock and timeframes: each of  *)
(* its three stages implements BucketSeries, and resampled fine candles    *)
(* are the coarse candles of the ticks themselves.                         *)
(*                                                                         *)
(* Good(T, s, b, f) says of every candle of s, by its rank, which bucket   *)
(* of the items T it stands for; it is what a step keeps, GoodIsSeries     *)
(* that it determines the series that BucketSeries states.  b is the       *)
(* length of a bucket and f whether gaps are filled.                       *)
(***************************************************************************)
EXTENDS BarPipeline, FiniteSetTheorems, WellFoundedInduction, TLAPS

-----------------------------------------------------------------------------
(* Buckets: their numbers and their first times                            *)

Clock == MinTime .. MaxTime
Item  == [time: Clock, open: Int, high: Int, low: Int, close: Int, volume: Nat]

NumberIn(time, b) == time \div b
StartIn(n, b)     == IF n * b < MinTime THEN MinTime ELSE n * b

(* The number of a time's bucket, and how far the time is into it. *)
LEMMA NumberFacts ==
  ASSUME NEW b \in Nat \ {0}, NEW t \in Int
  PROVE  /\ NumberIn(t, b) \in Int
         /\ NumberIn(t, b) * b <= t /\ t < NumberIn(t, b) * b + b
         /\ t % b = t - NumberIn(t, b) * b
BY DEF NumberIn

(* No other number has the time in its bucket. *)
LEMMA NumberUnique ==
  ASSUME NEW b \in Nat \ {0}, NEW t \in Int, NEW n \in Int, n * b <= t, t < n * b + b
  PROVE  n = NumberIn(t, b)
<1> DEFINE m == NumberIn(t, b)
<1>1. m \in Int /\ m * b <= t /\ t < m * b + b
  BY NumberFacts
<1> HIDE DEF m
<1>2. ~(m < n)
  <2> SUFFICES ASSUME m < n PROVE FALSE
    OBVIOUS
  <2>1. PICK d \in Nat : n = m + 1 + d
    <3>1. n - m - 1 \in Nat /\ n = m + 1 + (n - m - 1)
      BY <1>1
    <3>2. QED BY <3>1
  <2>2. n * b = m * b + b + d * b
    BY <1>1, <2>1
  <2>3. d * b \in Nat
    BY <2>1
  <2>4. QED BY <1>1, <2>2, <2>3
<1>3. ~(n < m)
  <2> SUFFICES ASSUME n < m PROVE FALSE
    OBVIOUS
  <2>1. PICK d \in Nat : m = n + 1 + d
    <3>1. m - n - 1 \in Nat /\ m = n + 1 + (m - n - 1)
      BY <1>1
    <3>2. QED BY <3>1
  <2>2. m * b = n * b + b + d * b
    BY <1>1, <2>1
  <2>3. d * b \in Nat
    BY <2>1
  <2>4. QED BY <1>1, <2>2, <2>3
<1>4. QED BY <1>1, <1>2, <1>3 DEF m

(* Buckets follow each other: one that is further on begins after another ends. *)
LEMMA FurtherOn ==
  ASSUME NEW b \in Nat \ {0}, NEW n \in Int, NEW m \in Int
  PROVE  /\ n < m => n * b + b <= m * b
         /\ n <= m => n * b <= m * b
<1>1. ASSUME n < m PROVE n * b + b <= m * b
  <2>1. PICK d \in Nat : m = n + 1 + d
    <3>1. m - n - 1 \in Nat /\ m = n + 1 + (m - n - 1)
      BY <1>1
    <3>2. QED BY <3>1
  <2>2. m * b = n * b + b + d * b
    BY <2>1
  <2>3. d * b \in Nat
    BY <2>1
  <2>4. QED BY <2>2, <2>3
<1>2. n <= m => n < m \/ n = m
  OBVIOUS
<1>3. n * b \in Int /\ m * b \in Int
  OBVIOUS
<1>4. QED BY <1>1, <1>2, <1>3

(* Later times are of later buckets, or of the same. *)
LEMMA NumbersOrdered ==
  ASSUME NEW b \in Nat \ {0}, NEW t \in Int, NEW u \in Int, t <= u
  PROVE  NumberIn(t, b) <= NumberIn(u, b)
<1>1. /\ NumberIn(t, b) \in Int /\ NumberIn(u, b) \in Int
      /\ NumberIn(t, b) * b <= t /\ u < NumberIn(u, b) * b + b
  BY NumberFacts
<1>2. NumberIn(u, b) < NumberIn(t, b) => NumberIn(u, b) * b + b <= NumberIn(t, b) * b
  BY <1>1, FurtherOn
<1>3. NumberIn(t, b) * b \in Int /\ NumberIn(u, b) * b \in Int
  BY <1>1
<1>4. QED BY <1>1, <1>2, <1>3

(* The first time of the bucket of a time, on a clock that begins within one. *)
LEMMA StartFacts ==
  ASSUME BarPipelineAssumption, NEW b \in Nat \ {0}, NEW t \in Clock
  PROVE  LET n == NumberIn(t, b)
         IN  /\ StartIn(n, b) \in Clock /\ StartIn(n, b) <= t /\ n * b <= StartIn(n, b)
             /\ NumberIn(StartIn(n, b), b) = n
             /\ Floor(t, b) = StartIn(n, b)
<1> DEFINE n == NumberIn(t, b)
<1>1. t \in Int /\ MinTime \in Int /\ MaxTime \in Int /\ MinTime <= t /\ t <= MaxTime
  BY DEF BarPipelineAssumption, Clock
<1>2. n \in Int /\ n * b <= t /\ t < n * b + b /\ t % b = t - n * b /\ n * b \in Int
  <2>1. n \in Int /\ n * b <= t /\ t < n * b + b /\ t % b = t - n * b
    BY <1>1, NumberFacts
  <2> HIDE DEF n
  <2>2. QED BY <2>1
<1> HIDE DEF n
<1>3. StartIn(n, b) \in Clock /\ StartIn(n, b) <= t /\ n * b <= StartIn(n, b)
  BY <1>1, <1>2 DEF StartIn, Clock
<1>4. StartIn(n, b) \in Int
  BY <1>1, <1>2 DEF StartIn
<1>5. n = NumberIn(StartIn(n, b), b)
  BY <1>1, <1>2, <1>3, <1>4, NumberUnique
<1>6. Floor(t, b) = StartIn(n, b)
  BY <1>1, <1>2 DEF Floor, SaturatingSub, StartIn
<1>7. QED BY <1>3, <1>5, <1>6 DEF n

(* Buckets begin in order. *)
LEMMA StartsOrdered ==
  ASSUME BarPipelineAssumption, NEW b \in Nat \ {0}, NEW t \in Clock, NEW u \in Clock,
         NumberIn(t, b) < NumberIn(u, b)
  PROVE  /\ StartIn(NumberIn(t, b), b) < StartIn(NumberIn(u, b), b)
         /\ StartIn(NumberIn(u, b), b) = NumberIn(u, b) * b
<1> DEFINE n == NumberIn(t, b)
           m == NumberIn(u, b)
<1>1. t \in Int /\ u \in Int /\ MinTime \in Int /\ MaxTime \in Int /\ MinTime <= t
  BY DEF BarPipelineAssumption, Clock
<1>2. n \in Int /\ m \in Int /\ n < m /\ n * b <= t /\ t < n * b + b
  BY <1>1, NumberFacts
<1> HIDE DEF n, m
<1>3. n * b + b <= m * b
  BY <1>2, FurtherOn
<1>4. n * b \in Int /\ m * b \in Int
  BY <1>2
<1>5. QED BY <1>1, <1>2, <1>3, <1>4 DEF StartIn, n, m

-----------------------------------------------------------------------------
(* Rounding up, and the flat candles of a gap                              *)

(* Rounding up: the only number of steps that reaches a span but not a step on. *)
LEMMA RoundedUp ==
  ASSUME NEW b \in Nat \ {0}, NEW x \in Nat
  PROVE  LET g == x \div b + (IF x % b = 0 THEN 0 ELSE 1)
         IN  g \in Nat /\ x <= g * b /\ g * b < x + b
<1> DEFINE q == NumberIn(x, b)
           r == x % b
<1>1. q \in Int /\ q * b <= x /\ x < q * b + b /\ r = x - q * b
  <2>1. x \in Int
    OBVIOUS
  <2>2. /\ NumberIn(x, b) \in Int /\ NumberIn(x, b) * b <= x /\ x < NumberIn(x, b) * b + b
        /\ x % b = x - NumberIn(x, b) * b
    BY <2>1, NumberFacts
  <2>3. QED BY <2>2
<1>2. q \in Nat
  <2> HIDE DEF q, r
  <2> DEFINE zero == 0
  <2>1. zero \in Int /\ zero * b = 0
    OBVIOUS
  <2> HIDE DEF zero
  <2>2. q < zero => q * b + b <= zero * b
    BY <1>1, <2>1, FurtherOn
  <2>3. q * b \in Int
    BY <1>1
  <2>4. QED BY <1>1, <2>1, <2>2, <2>3 DEF zero
<1>3. x \div b = q
  BY DEF NumberIn
<1> HIDE DEF q, r
<1>4. q * b \in Int /\ (q + 1) * b = q * b + b
  BY <1>2
<1>5. CASE r = 0
  <2>1. x \div b + (IF x % b = 0 THEN 0 ELSE 1) = q
    BY <1>2, <1>3, <1>5 DEF r
  <2>2. QED BY <1>1, <1>2, <1>4, <1>5, <2>1
<1>6. CASE r # 0
  <2>1. x \div b + (IF x % b = 0 THEN 0 ELSE 1) = q + 1
    BY <1>2, <1>3, <1>6 DEF r
  <2>2. q + 1 \in Nat /\ x <= (q + 1) * b /\ (q + 1) * b < x + b
    BY <1>1, <1>2, <1>4, <1>6
  <2>3. QED BY <2>1, <2>2
<1>7. QED BY <1>5, <1>6

(* There is only one such number of steps. *)
LEMMA StepsUnique ==
  ASSUME NEW b \in Nat \ {0}, NEW x \in Int, NEW g \in Int, NEW h \in Int,
         x <= g * b, g * b < x + b, x <= h * b, h * b < x + b
  PROVE  g = h
<1>1. g * b \in Int /\ h * b \in Int
  OBVIOUS
<1>2. ~(g < h) /\ ~(h < g)
  BY <1>1, FurtherOn
<1>3. QED BY <1>2

(* The flat candles between two buckets, unless they are refused: one for each *)
(* bucket between, also where a saturated difference was counted.               *)
LEMMA FlatsBetween ==
  ASSUME BarPipelineAssumption, NEW b \in Spans, NEW t \in Clock, NEW u \in Clock,
         NEW n, n = NumberIn(t, b), NEW m, m = NumberIn(u, b), n < m,
         NEW prev, prev.time = StartIn(n, b), ~FillRefused(prev, StartIn(m, b), b)
  PROVE  /\ FlatCandles(prev, StartIn(m, b), b) =
              [k \in 1 .. m - n - 1 |-> Flat(prev.close, StartIn(n, b) + k * b)]
         /\ \A k \in 1 .. m - n - 1 : StartIn(n, b) + k * b \in Clock
<1> DEFINE s == StartIn(n, b)
           e == StartIn(m, b)
<1>1. /\ b \in Nat \ {0} /\ MaxFill \in Nat /\ MaxFill * b < MaxTime
      /\ MinTime \in Int /\ MinTime <= 0 /\ MaxTime \in Nat
  BY DEF BarPipelineAssumption, Spans
<1>2. t \in Int /\ u \in Int
  BY <1>1 DEF Clock
<1>3. n \in Int /\ m \in Int /\ n * b <= t /\ t < n * b + b
  BY <1>1, <1>2, NumberFacts
<1>4. s <= t /\ n * b <= s /\ s \in Clock /\ e \in Clock
  <2>1. StartIn(n, b) <= t /\ n * b <= StartIn(n, b) /\ StartIn(n, b) \in Clock
    BY <1>1, StartFacts
  <2>2. StartIn(m, b) \in Clock
    BY <1>1, StartFacts
  <2>3. QED BY <2>1, <2>2
<1>5. e = m * b
  BY <1>1, StartsOrdered
<1> HIDE DEF s, e
<1>6. prev.time = s
  BY DEF s
<1>7. s \in Int /\ e \in Int /\ s < n * b + b /\ e <= MaxTime /\ MinTime <= s
  BY <1>1, <1>2, <1>3, <1>4 DEF Clock
<1>8. ASSUME NEW k \in 1 .. m - n - 1
      PROVE  /\ k * b \in Nat /\ s + k * b < e
             /\ SaturatingAdd(s, k * b) = s + k * b /\ s + k * b \in Clock
  <2>1. k \in Nat /\ k * b \in Nat /\ (n + 1 + k) * b = n * b + b + k * b
    BY <1>1, <1>3
  <2>2. n + 1 + k \in Int /\ n + 1 + k <= m
    BY <1>3
  <2>3. (n + 1 + k) * b <= m * b
    BY <1>1, <1>3, <2>2, FurtherOn
  <2>4. s + k * b < e
    BY <1>3, <1>5, <1>7, <2>1, <2>3
  <2>5. QED BY <1>1, <1>7, <2>1, <2>4 DEF SaturatingAdd, Clock
<1>9. CASE m = n + 1
  <2>1. ~IsGap(prev, e, b)
    <3>1. e = n * b + b
      BY <1>1, <1>3, <1>5, <1>9
    <3>2. QED BY <1>1, <1>3, <1>4, <1>6, <1>7, <3>1 DEF IsGap
  <2>2. FlatCandles(prev, e, b) = <<>>
    BY <2>1 DEF FlatCandles
  <2>3. 1 .. m - n - 1 = {}
    BY <1>3, <1>9
  <2>4. [k \in 1 .. m - n - 1 |-> Flat(prev.close, s + k * b)] = <<>>
    BY <2>3
  <2>5. QED BY <1>8, <2>2, <2>4 DEF s, e
<1>10. CASE n + 1 < m
  <2> DEFINE span == e - (s + b)
             steps == m - n - 1
  <2>1. steps \in Nat /\ m * b = n * b + b + steps * b /\ steps * b \in Nat
    <3>1. steps \in Nat /\ m = n + 1 + steps
      BY <1>3, <1>10
    <3> HIDE DEF steps
    <3>2. (n + 1 + steps) * b = n * b + b + steps * b
      BY <1>1, <1>3, <3>1
    <3>3. QED BY <1>1, <3>1, <3>2
  <2>2. span \in Int /\ span <= steps * b /\ steps * b < span + b
    BY <1>1, <1>3, <1>4, <1>5, <1>7, <2>1
  <2>3. IsGap(prev, e, b) /\ span \in Nat /\ span > 0
    <3>1. n + 2 \in Int /\ n + 2 <= m /\ (n + 2) * b = n * b + b + b
      BY <1>1, <1>3, <1>10
    <3>2. (n + 2) * b <= m * b
      BY <1>1, <1>3, <3>1, FurtherOn
    <3>3. QED BY <1>1, <1>3, <1>5, <1>6, <1>7, <3>1, <3>2 DEF IsGap
  <2> HIDE DEF span, steps
  <2>4. GapCount(s + b, e, b) <= MaxFill
    <3>1. ~(GapCount(s + b, e, b) > MaxFill)
      BY <1>6, <2>3 DEF FillRefused, e
    <3>2. GapCount(s + b, e, b) \in Int
      BY <1>1, <1>7 DEF GapCount, SaturatingSub
    <3>3. QED BY <1>1, <3>1, <3>2
  <2>5. span <= MaxTime
    <3> SUFFICES ASSUME span > MaxTime PROVE FALSE
      BY <1>1, <2>3
    <3>1. SaturatingSub(e, s + b) = MaxTime
      BY <1>1, <1>7, <2>3 DEF SaturatingSub, span
    <3> DEFINE g == MaxTime \div b + (IF MaxTime % b = 0 THEN 0 ELSE 1)
    <3>2. GapCount(s + b, e, b) = g
      BY <3>1 DEF GapCount
    <3>3. g \in Nat /\ MaxTime <= g * b
      BY <1>1, RoundedUp
    <3> HIDE DEF g
    <3>4. g * b <= MaxFill * b
      BY <1>1, <2>4, <3>2, <3>3, FurtherOn
    <3>5. g * b \in Int /\ MaxFill * b \in Int
      BY <1>1, <3>3
    <3>6. QED BY <1>1, <3>3, <3>4, <3>5
  <2>6. GapCount(s + b, e, b) = steps
    <3>1. SaturatingSub(e, s + b) = span
      BY <1>1, <1>7, <2>3, <2>5 DEF SaturatingSub, span
    <3> DEFINE g == span \div b + (IF span % b = 0 THEN 0 ELSE 1)
    <3>2. GapCount(s + b, e, b) = g
      BY <3>1 DEF GapCount
    <3>3. g \in Nat /\ span <= g * b /\ g * b < span + b
      BY <1>1, <2>3, RoundedUp
    <3> HIDE DEF g
    <3>4. g = steps
      BY <1>1, <2>1, <2>2, <3>3, StepsUnique
    <3>5. QED BY <3>2, <3>4
  <2>7. FlatCandles(prev, e, b) = [k \in 1 .. steps |-> Flat(prev.close, SaturatingAdd(s, k * b))]
    BY <1>6, <2>3, <2>6 DEF FlatCandles
  <2>8. \A k \in 1 .. steps : SaturatingAdd(s, k * b) = s + k * b
    BY <1>8 DEF steps
  <2>9. [k \in 1 .. steps |-> Flat(prev.close, SaturatingAdd(s, k * b))] =
          [k \in 1 .. steps |-> Flat(prev.close, s + k * b)]
    BY <2>8
  <2>10. QED BY <1>8, <2>7, <2>9 DEF s, e, steps
<1>11. QED BY <1>3, <1>9, <1>10

-----------------------------------------------------------------------------
(* What the items of a bucket add up to                                    *)

Smaller == {p \in Nat \X Nat : p[1] < p[2]}

(* Among natural numbers there is a least one. *)
LEMMA LeastDistance ==
  ASSUME NEW S, S \subseteq Nat, S # {}
  PROVE  \E n \in S : \A m \in S : n <= m
<1>1. IsWellFoundedOn(Smaller, Nat)
  <2>1. OpToRel(<, Nat) = Smaller
    BY DEF OpToRel, Smaller
  <2> QED BY <2>1, NatLessThanWellFounded
<1>2. PICK n \in S : \A m \in S : <<m, n>> \notin Smaller
  BY <1>1, WFMin
<1>3. ASSUME NEW m \in S PROVE n <= m
  <2>1. m \in Nat /\ n \in Nat /\ <<m, n>> \notin Smaller
    BY <1>2
  <2> QED BY <2>1 DEF Smaller
<1> QED BY <1>3

(* A running sum of some numbers. *)
Adds(g, w, m) == g = [k \in 0 .. m |-> IF k = 0 THEN 0 ELSE g[k - 1] + w[k]]

(* Weights can be added up one after the other. *)
LEMMA SumsExist ==
  ASSUME NEW length \in Nat, NEW w
  PROVE  \E g : Adds(g, w, length)
<1> DEFINE Missing == {m \in 0 .. length : ~\E g : Adds(g, w, m)}
<1>1. Missing = {}
  <2> SUFFICES ASSUME Missing # {} PROVE FALSE
    OBVIOUS
  <2>1. PICK m \in Missing : \A k \in Missing : m <= k
    <3>1. Missing \subseteq Nat
      OBVIOUS
    <3> HIDE DEF Missing
    <3>2. QED BY <3>1, LeastDistance
  <2>2. m # 0
    <3> DEFINE g == [n \in 0 .. 0 |-> 0]
    <3>1. Adds(g, w, 0)
      BY DEF Adds
    <3> HIDE DEF g
    <3>2. QED BY <3>1
  <2>3. PICK g : Adds(g, w, m - 1)
    BY <2>1, <2>2
  <2> DEFINE h == [n \in 0 .. m |-> IF n = m THEN g[m - 1] + w[m] ELSE g[n]]
  <2>4. Adds(h, w, m)
    <3>1. m \in Nat /\ m > 0
      BY <2>2
    <3>2. QED BY <2>3, <3>1 DEF Adds
  <2> HIDE DEF h
  <2>5. QED BY <2>4
<1>2. QED
  <2>1. length \in 0 .. length
    OBVIOUS
  <2>2. QED BY <1>1, <2>1

RunsUp(g, w, m) == \A k \in 1 .. m : g[k] = g[k - 1] + w[k]

(* Two running sums of weights that agree, agree. *)
LEMMA SumsAgree ==
  ASSUME NEW length \in Nat, NEW g, NEW h, NEW w, g[0] = h[0],
         RunsUp(g, w, length), RunsUp(h, w, length)
  PROVE  \A k \in 0 .. length : g[k] = h[k]
<1> DEFINE Differ == {k \in 0 .. length : g[k] # h[k]}
<1> SUFFICES ASSUME Differ # {} PROVE FALSE
  OBVIOUS
<1>1. PICK m \in Differ : \A k \in Differ : m <= k
  <2>1. Differ \subseteq Nat
    OBVIOUS
  <2> HIDE DEF Differ
  <2>2. QED BY <2>1, LeastDistance
<1>2. m # 0 /\ m \in 0 .. length
  OBVIOUS
<1>3. m - 1 \in 0 .. length /\ m \in 1 .. length /\ m - 1 \notin Differ
  <2>1. m - 1 \in 0 .. length /\ m \in 1 .. length /\ ~(m <= m - 1)
    BY <1>2
  <2> HIDE DEF Differ
  <2>2. QED BY <1>1, <2>1
<1>4. QED BY <1>3 DEF RunsUp

(* Running sums of natural weights are natural. *)
LEMMA SumsNatural ==
  ASSUME NEW length \in Nat, NEW g, NEW w, w \in [1 .. length -> Nat], g[0] = 0, RunsUp(g, w, length)
  PROVE  \A k \in 0 .. length : g[k] \in Nat
<1> DEFINE Wrong == {k \in 0 .. length : g[k] \notin Nat}
<1> SUFFICES ASSUME Wrong # {} PROVE FALSE
  OBVIOUS
<1>1. PICK m \in Wrong : \A k \in Wrong : m <= k
  <2>1. Wrong \subseteq Nat
    OBVIOUS
  <2> HIDE DEF Wrong
  <2>2. QED BY <2>1, LeastDistance
<1>2. m # 0 /\ m \in 0 .. length
  OBVIOUS
<1>3. m - 1 \in 0 .. length /\ m \in 1 .. length /\ m - 1 \notin Wrong
  <2>1. m - 1 \in 0 .. length /\ m \in 1 .. length /\ ~(m <= m - 1)
    BY <1>2
  <2> HIDE DEF Wrong
  <2>2. QED BY <1>1, <2>1
<1>4. QED BY <1>3 DEF RunsUp

PlacesIn(items, n, b) == {i \in DOMAIN items : NumberIn(items[i].time, b) = n}

VolumeIn(items, n, b) ==
  LET sum[k \in 0 .. Len(items)] ==
        IF k = 0 THEN 0
        ELSE sum[k - 1] + IF NumberIn(items[k].time, b) = n THEN items[k].volume ELSE 0
  IN  sum[Len(items)]

Share(items, n, b) ==
  [k \in 1 .. Len(items) |-> IF NumberIn(items[k].time, b) = n THEN items[k].volume ELSE 0]

(* A bucket's volume is the end of a running sum of shares. *)
LEMMA VolumeTotals ==
  ASSUME NEW T \in Seq(Item), NEW n, NEW b
  PROVE  \E g : /\ VolumeIn(T, n, b) = g[Len(T)] /\ g[0] = 0
                /\ \A k \in 1 .. Len(T) : g[k] = g[k - 1] + Share(T, n, b)[k]
<1> DEFINE Totals(g) ==
             g = [k \in 0 .. Len(T) |->
                    IF k = 0 THEN 0
                    ELSE g[k - 1] + IF NumberIn(T[k].time, b) = n THEN T[k].volume ELSE 0]
           f == CHOOSE g : Totals(g)
<1>1. PICK g : Adds(g, Share(T, n, b), Len(T))
  <2>1. Len(T) \in Nat
    OBVIOUS
  <2>2. QED BY <2>1, SumsExist
<1>2. Totals(g)
  <2>1. \A k \in 0 .. Len(T) :
          (IF k = 0 THEN 0 ELSE g[k - 1] + Share(T, n, b)[k]) =
          IF k = 0 THEN 0
          ELSE g[k - 1] + IF NumberIn(T[k].time, b) = n THEN T[k].volume ELSE 0
    BY DEF Share
  <2>2. QED BY <1>1, <2>1 DEF Adds
<1>3. Totals(f)
  <2> HIDE DEF Totals
  <2>1. QED BY <1>2
<1>4. VolumeIn(T, n, b) = f[Len(T)]
  BY DEF VolumeIn
<1> HIDE DEF f
<1>5. f[0] = 0 /\ \A k \in 1 .. Len(T) : f[k] = f[k - 1] + Share(T, n, b)[k]
  BY <1>3 DEF Share
<1>6. QED BY <1>4, <1>5

(* One more item adds its volume to its bucket's. *)
LEMMA VolumeAppend ==
  ASSUME NEW T \in Seq(Item), NEW x \in Item, NEW n, NEW b
  PROVE  /\ VolumeIn(T, n, b) \in Nat
         /\ VolumeIn(Append(T, x), n, b) =
              VolumeIn(T, n, b) + IF NumberIn(x.time, b) = n THEN x.volume ELSE 0
<1> DEFINE U == Append(T, x)
           w == Share(U, n, b)
<1>1. /\ U \in Seq(Item) /\ Len(U) = Len(T) + 1 /\ U[Len(T) + 1] = x
      /\ \A k \in 1 .. Len(T) : U[k] = T[k] /\ T[k] \in Item
  OBVIOUS
<1>2. PICK g : /\ VolumeIn(T, n, b) = g[Len(T)] /\ g[0] = 0
               /\ \A k \in 1 .. Len(T) : g[k] = g[k - 1] + Share(T, n, b)[k]
  BY VolumeTotals
<1> HIDE DEF U
<1>3. PICK h : /\ VolumeIn(U, n, b) = h[Len(U)] /\ h[0] = 0
               /\ \A k \in 1 .. Len(U) : h[k] = h[k - 1] + Share(U, n, b)[k]
  BY <1>1, VolumeTotals
<1> DEFINE v == Share(T, n, b)
<1>4. v \in [1 .. Len(T) -> Nat] /\ \A k \in 1 .. Len(T) : v[k] = w[k]
  <2>1. \A y \in Item : y.volume \in Nat
    BY DEF Item
  <2>2. \A k \in 1 .. Len(T) : (IF NumberIn(T[k].time, b) = n THEN T[k].volume ELSE 0) \in Nat
    BY <1>1, <2>1
  <2>3. v \in [1 .. Len(T) -> Nat]
    BY <2>2 DEF Share
  <2>4. ASSUME NEW k \in 1 .. Len(T) PROVE v[k] = w[k]
    <3>1. U[k] = T[k] /\ k \in 1 .. Len(U)
      BY <1>1
    <3>2. QED BY <3>1 DEF Share
  <2>5. QED BY <2>3, <2>4
<1>5. Len(T) \in Nat /\ g[0] = h[0] /\ g[0] = 0
  BY <1>2, <1>3
<1>6. RunsUp(g, v, Len(T)) /\ RunsUp(h, v, Len(T))
  BY <1>1, <1>2, <1>3, <1>4 DEF RunsUp
<1> HIDE DEF w, v
<1>7. \A k \in 0 .. Len(T) : g[k] = h[k]
  BY <1>5, <1>6, SumsAgree
<1>8. \A k \in 0 .. Len(T) : g[k] \in Nat
  BY <1>4, <1>5, <1>6, SumsNatural
<1>9. h[Len(T) + 1] = h[Len(T)] + w[Len(T) + 1]
  <2>1. Len(T) + 1 \in 1 .. Len(U) /\ (Len(T) + 1) - 1 = Len(T)
    BY <1>1
  <2>2. QED BY <1>3, <2>1 DEF w
<1>10. w[Len(T) + 1] = IF NumberIn(x.time, b) = n THEN x.volume ELSE 0
  BY <1>1 DEF w, Share
<1>11. Len(T) \in 0 .. Len(T)
  OBVIOUS
<1>12. QED BY <1>1, <1>2, <1>3, <1>7, <1>8, <1>9, <1>10, <1>11 DEF U

(* A bucket without items has no volume. *)
LEMMA VolumeNone ==
  ASSUME NEW T \in Seq(Item), NEW n, NEW b, PlacesIn(T, n, b) = {}
  PROVE  VolumeIn(T, n, b) = 0
<1>1. PICK g : /\ VolumeIn(T, n, b) = g[Len(T)] /\ g[0] = 0
               /\ \A k \in 1 .. Len(T) : g[k] = g[k - 1] + Share(T, n, b)[k]
  BY VolumeTotals
<1> DEFINE h == [k \in 0 .. Len(T) |-> 0]
           w == Share(T, n, b)
<1>2. \A k \in 1 .. Len(T) : w[k] = 0
  BY DEF Share, PlacesIn
<1>3. RunsUp(g, w, Len(T)) /\ RunsUp(h, w, Len(T))
  BY <1>1, <1>2 DEF RunsUp
<1>4. g[0] = h[0] /\ Len(T) \in Nat
  BY <1>1
<1>5. \A k \in 0 .. Len(T) : h[k] = 0
  OBVIOUS
<1> HIDE DEF h, w
<1>6. \A k \in 0 .. Len(T) : g[k] = h[k]
  BY <1>3, <1>4, SumsAgree
<1>7. QED BY <1>1, <1>4, <1>5, <1>6

-----------------------------------------------------------------------------
(* The candle of a bucket, and one between two others                      *)

Fresh(x, b) ==
  [time |-> StartIn(NumberIn(x.time, b), b), open |-> x.open, high |-> x.high, low |-> x.low,
   close |-> x.close, volume |-> x.volume]

Absorbed(c, x) ==
  [time |-> c.time, open |-> c.open, high |-> IF x.high > c.high THEN x.high ELSE c.high,
   low |-> IF x.low < c.low THEN x.low ELSE c.low, close |-> x.close,
   volume |-> c.volume + x.volume]

(* What an item is made of. *)
LEMMA ItemParts ==
  ASSUME NEW x \in Item
  PROVE  /\ x.time \in Clock /\ x.open \in Int /\ x.high \in Int /\ x.low \in Int
         /\ x.close \in Int /\ x.volume \in Nat
BY DEF Item

(* The first candle of a bucket (from_tick, OpenCandle::from_candle). *)
LEMMA FreshItem ==
  ASSUME BarPipelineAssumption, NEW b \in Nat \ {0}, NEW x \in Item
  PROVE  /\ Fresh(x, b) \in Item
         /\ NumberIn(Fresh(x, b).time, b) = NumberIn(x.time, b)
<1>1. /\ StartIn(NumberIn(x.time, b), b) \in Clock
      /\ NumberIn(StartIn(NumberIn(x.time, b), b), b) = NumberIn(x.time, b)
  BY ItemParts, StartFacts
<1>2. QED BY <1>1, ItemParts DEF Fresh, Item

(* A candle that takes an item in stays one of its bucket (absorb). *)
LEMMA AbsorbedItem ==
  ASSUME NEW c \in Item, NEW x \in Item
  PROVE  /\ Absorbed(c, x) \in Item /\ Absorbed(c, x).time = c.time
BY ItemParts DEF Absorbed, Item

(* What makes a candle that of a bucket of some items. *)
Opens(c, T, own)  == \E i \in own : c.open = T[i].open /\ \A j \in own : i <= j
Shuts(c, T, own)  == \E i \in own : c.close = T[i].close /\ \A j \in own : j <= i
Tops(c, T, own)   == (\E i \in own : c.high = T[i].high) /\ \A j \in own : T[j].high <= c.high
Bottoms(c, T, own) == (\E i \in own : c.low = T[i].low) /\ \A j \in own : c.low <= T[j].low

IsCandle(c, T, n, b) ==
  /\ c \in Item /\ c.time = StartIn(n, b) /\ c.volume = VolumeIn(T, n, b)
  /\ Opens(c, T, PlacesIn(T, n, b)) /\ Shuts(c, T, PlacesIn(T, n, b))
  /\ Tops(c, T, PlacesIn(T, n, b)) /\ Bottoms(c, T, PlacesIn(T, n, b))

(* What makes a flat one that of a bucket between. *)
Before(T, p, n, b) ==
  /\ p \in 1 .. Len(T) /\ NumberIn(T[p].time, b) < n
  /\ \A i \in 1 .. Len(T) : NumberIn(T[i].time, b) < n => i <= p

FlatAfter(x, n, b) ==
  Flat(x.close, StartIn(NumberIn(x.time, b), b) + (n - NumberIn(x.time, b)) * b)

IsFiller(c, T, n, b) ==
  c \in Item /\ \E p : Before(T, p, n, b) /\ c = FlatAfter(T[p], n, b)

(* The places of the items when one more is there. *)
LEMMA PlacesAppend ==
  ASSUME NEW T \in Seq(Item), NEW x \in Item, NEW n, NEW b
  PROVE  /\ PlacesIn(T, n, b) \subseteq 1 .. Len(T)
         /\ PlacesIn(Append(T, x), n, b) =
              PlacesIn(T, n, b) \cup (IF NumberIn(x.time, b) = n THEN {Len(T) + 1} ELSE {})
         /\ \A i \in 1 .. Len(T) : Append(T, x)[i] = T[i]
         /\ Append(T, x)[Len(T) + 1] = x
<1>1. /\ DOMAIN T = 1 .. Len(T) /\ DOMAIN Append(T, x) = 1 .. Len(T) + 1 /\ Len(T) \in Nat
      /\ \A i \in 1 .. Len(T) : Append(T, x)[i] = T[i]
      /\ Append(T, x)[Len(T) + 1] = x
  OBVIOUS
<1>2. \A i \in 1 .. Len(T) + 1 : i \in 1 .. Len(T) \/ i = Len(T) + 1
  BY <1>1
<1>3. Len(T) + 1 \in 1 .. Len(T) + 1 /\ \A i \in 1 .. Len(T) : i \in 1 .. Len(T) + 1
  BY <1>1
<1>4. PlacesIn(T, n, b) \subseteq 1 .. Len(T)
  BY <1>1 DEF PlacesIn
<1> DEFINE U == Append(T, x)
<1>5. /\ DOMAIN U = 1 .. Len(T) + 1 /\ DOMAIN T = 1 .. Len(T) /\ U[Len(T) + 1] = x
      /\ \A i \in 1 .. Len(T) : U[i] = T[i]
  BY <1>1
<1> HIDE DEF U
<1>6. ASSUME NEW i
      PROVE  i \in PlacesIn(U, n, b) <=>
               i \in PlacesIn(T, n, b) \cup (IF NumberIn(x.time, b) = n THEN {Len(T) + 1} ELSE {})
  <2>1. CASE i \in 1 .. Len(T)
    <3>1. i # Len(T) + 1 /\ i \in 1 .. Len(T) + 1 /\ U[i] = T[i]
      BY <1>1, <1>5, <2>1
    <3>2. QED BY <1>5, <2>1, <3>1 DEF PlacesIn
  <2>2. CASE i = Len(T) + 1
    <3>1. i \notin 1 .. Len(T) /\ i \in 1 .. Len(T) + 1 /\ U[i] = x
      BY <1>1, <1>5, <2>2
    <3>2. QED BY <1>5, <2>2, <3>1 DEF PlacesIn
  <2>3. CASE i \notin 1 .. Len(T) + 1
    <3>1. i # Len(T) + 1 /\ i \notin 1 .. Len(T)
      BY <1>3, <2>3
    <3>2. QED BY <1>5, <2>3, <3>1 DEF PlacesIn
  <2>4. QED BY <1>2, <2>1, <2>2, <2>3
<1>7. QED BY <1>1, <1>4, <1>6 DEF U

(* An item of another bucket leaves a bucket's candle as it was. *)
LEMMA CandleElsewhere ==
  ASSUME NEW T \in Seq(Item), NEW x \in Item, NEW n, NEW b, NEW c, IsCandle(c, T, n, b),
         NumberIn(x.time, b) # n
  PROVE  IsCandle(c, Append(T, x), n, b)
<1> DEFINE own == PlacesIn(T, n, b)
<1>1. PlacesIn(Append(T, x), n, b) = own /\ \A i \in own : Append(T, x)[i] = T[i]
  <2>1. /\ own \subseteq 1 .. Len(T)
        /\ PlacesIn(Append(T, x), n, b) =
              own \cup (IF NumberIn(x.time, b) = n THEN {Len(T) + 1} ELSE {})
        /\ \A i \in 1 .. Len(T) : Append(T, x)[i] = T[i]
    BY PlacesAppend
  <2> HIDE DEF own
  <2>2. QED BY <2>1
<1>2. VolumeIn(Append(T, x), n, b) = VolumeIn(T, n, b)
  BY VolumeAppend
<1>3. /\ Opens(c, T, own) /\ Shuts(c, T, own) /\ Tops(c, T, own) /\ Bottoms(c, T, own)
      /\ c \in Item /\ c.time = StartIn(n, b) /\ c.volume = VolumeIn(T, n, b)
  BY DEF IsCandle
<1> HIDE DEF own
<1>4. /\ Opens(c, Append(T, x), own) /\ Shuts(c, Append(T, x), own)
      /\ Tops(c, Append(T, x), own) /\ Bottoms(c, Append(T, x), own)
  BY <1>1, <1>3 DEF Opens, Shuts, Tops, Bottoms
<1>5. QED BY <1>1, <1>2, <1>3, <1>4 DEF IsCandle

(* An item of the bucket is absorbed by its candle. *)
LEMMA CandleAbsorbs ==
  ASSUME NEW T \in Seq(Item), NEW x \in Item, NEW n, NEW b, NEW c, IsCandle(c, T, n, b),
         NumberIn(x.time, b) = n
  PROVE  IsCandle(Absorbed(c, x), Append(T, x), n, b)
<1> DEFINE own == PlacesIn(T, n, b)
           l   == Len(T) + 1
           U   == Append(T, x)
           d   == Absorbed(c, x)
<1>1. /\ PlacesIn(U, n, b) = own \cup {l} /\ own \subseteq 1 .. Len(T)
      /\ \A i \in own : U[i] = T[i]
      /\ U[l] = x
  BY PlacesAppend
<1>2. VolumeIn(U, n, b) = VolumeIn(T, n, b) + x.volume
  BY VolumeAppend
<1>3. /\ Opens(c, T, own) /\ Shuts(c, T, own) /\ Tops(c, T, own) /\ Bottoms(c, T, own)
      /\ c \in Item /\ c.time = StartIn(n, b) /\ c.volume = VolumeIn(T, n, b)
  BY DEF IsCandle
<1>4. /\ d.open = c.open /\ d.close = x.close /\ d.time = c.time
      /\ d.high = (IF x.high > c.high THEN x.high ELSE c.high)
      /\ d.low = (IF x.low < c.low THEN x.low ELSE c.low)
      /\ d.volume = c.volume + x.volume
  BY DEF Absorbed
<1>5. d \in Item
  BY <1>3, AbsorbedItem
<1>6. \A i \in own : i \in Int /\ i < l /\ i <= l /\ T[i] \in Item
  BY <1>1
<1>7. l \in Int /\ l <= l
  OBVIOUS
<1>8. x.high \in Int /\ c.high \in Int /\ x.low \in Int /\ c.low \in Int
  BY <1>3, ItemParts
<1>9. \A i \in own : T[i].high \in Int /\ T[i].low \in Int
  BY <1>6, ItemParts
<1> HIDE DEF own, l, U, d
<1>10. Opens(d, U, own \cup {l}) /\ Shuts(d, U, own \cup {l})
  BY <1>1, <1>3, <1>4, <1>6, <1>7 DEF Opens, Shuts
<1>11. Tops(d, U, own \cup {l})
  <2>1. CASE x.high > c.high
    <3>1. d.high = x.high /\ x.high <= x.high
      BY <1>4, <1>8, <2>1
    <3>2. ASSUME NEW j \in own PROVE T[j].high <= x.high
      <4>1. T[j].high <= c.high
        BY <1>3 DEF Tops
      <4>2. QED BY <1>8, <1>9, <2>1, <4>1
    <3>3. QED BY <1>1, <3>1, <3>2 DEF Tops
  <2>2. CASE ~(x.high > c.high)
    <3>1. d.high = c.high /\ x.high <= c.high
      BY <1>4, <1>8, <2>2
    <3>2. QED BY <1>1, <1>3, <3>1 DEF Tops
  <2>3. QED BY <2>1, <2>2
<1>12. Bottoms(d, U, own \cup {l})
  <2>1. CASE x.low < c.low
    <3>1. d.low = x.low /\ x.low <= x.low
      BY <1>4, <1>8, <2>1
    <3>2. ASSUME NEW j \in own PROVE x.low <= T[j].low
      <4>1. c.low <= T[j].low
        BY <1>3 DEF Bottoms
      <4>2. QED BY <1>8, <1>9, <2>1, <4>1
    <3>3. QED BY <1>1, <3>1, <3>2 DEF Bottoms
  <2>2. CASE ~(x.low < c.low)
    <3>1. d.low = c.low /\ c.low <= x.low
      BY <1>4, <1>8, <2>2
    <3>2. QED BY <1>1, <1>3, <3>1 DEF Bottoms
  <2>3. QED BY <2>1, <2>2
<1>13. IsCandle(d, U, n, b)
  BY <1>1, <1>2, <1>3, <1>4, <1>5, <1>10, <1>11, <1>12 DEF IsCandle
<1>14. QED BY <1>13 DEF d, U

(* The first item of a bucket is its candle. *)
LEMMA CandleBegins ==
  ASSUME BarPipelineAssumption, NEW b \in Nat \ {0}, NEW T \in Seq(Item), NEW x \in Item,
         NEW n, n = NumberIn(x.time, b), PlacesIn(T, n, b) = {}
  PROVE  IsCandle(Fresh(x, b), Append(T, x), n, b)
<1> DEFINE l == Len(T) + 1
           U == Append(T, x)
           d == Fresh(x, b)
<1>1. PlacesIn(U, n, b) = {l} /\ U[l] = x
  BY PlacesAppend
<1>2. VolumeIn(U, n, b) = x.volume
  <2>1. VolumeIn(U, n, b) = VolumeIn(T, n, b) + x.volume /\ VolumeIn(T, n, b) = 0
    BY VolumeAppend, VolumeNone
  <2>2. QED BY <2>1, ItemParts
<1>3. d \in Item
  BY FreshItem
<1>4. /\ d.open = x.open /\ d.close = x.close /\ d.time = StartIn(n, b)
      /\ d.high = x.high /\ d.low = x.low /\ d.volume = x.volume
  BY DEF Fresh
<1>5. l \in Int /\ l <= l /\ x.high <= x.high /\ x.low <= x.low
  BY ItemParts
<1> HIDE DEF l, U, d
<1>6. Opens(d, U, {l}) /\ Shuts(d, U, {l}) /\ Tops(d, U, {l}) /\ Bottoms(d, U, {l})
  BY <1>1, <1>4, <1>5 DEF Opens, Shuts, Tops, Bottoms
<1>7. IsCandle(d, U, n, b)
  BY <1>1, <1>2, <1>3, <1>4, <1>6 DEF IsCandle
<1>8. QED BY <1>7 DEF d, U

(* A later item leaves the flat candle of an earlier bucket as it was. *)
LEMMA FillerStays ==
  ASSUME NEW T \in Seq(Item), NEW x \in Item, NEW n, NEW b, NEW c, IsFiller(c, T, n, b),
         ~(NumberIn(x.time, b) < n)
  PROVE  IsFiller(c, Append(T, x), n, b)
<1> DEFINE U == Append(T, x)
<1>1. PICK p : Before(T, p, n, b) /\ c = FlatAfter(T[p], n, b)
  BY DEF IsFiller
<1>2. /\ Len(U) = Len(T) + 1 /\ Len(T) \in Nat /\ U[Len(T) + 1] = x
      /\ \A i \in 1 .. Len(T) : U[i] = T[i]
  OBVIOUS
<1> HIDE DEF U
<1>3. Before(U, p, n, b) /\ U[p] = T[p]
  BY <1>1, <1>2 DEF Before
<1>4. QED BY <1>1, <1>3 DEF IsFiller, U

(* Buckets between the last and the next one are flat at the last close. *)
LEMMA FillerAfter ==
  ASSUME NEW T \in Seq(Item), NEW n, NEW b, NEW c \in Item, Len(T) > 0,
         \A i \in 1 .. Len(T) : NumberIn(T[i].time, b) < n,
         c = FlatAfter(T[Len(T)], n, b)
  PROVE  IsFiller(c, T, n, b)
<1>1. Len(T) \in 1 .. Len(T) /\ \A i \in 1 .. Len(T) : i <= Len(T)
  OBVIOUS
<1>2. QED BY <1>1 DEF IsFiller, Before

-----------------------------------------------------------------------------
(* The j-th smallest of finitely many numbers                              *)

AtRank(S, j) == {n \in S : Cardinality({m \in S : m <= n}) = j}

FiniteInts(S) == S \subseteq Int /\ IsFiniteSet(S)

(* Counting the numbers up to one of them. *)
LEMMA RankTypes ==
  ASSUME NEW S, FiniteInts(S), NEW n
  PROVE  /\ Cardinality(S) \in Nat
         /\ IsFiniteSet({m \in S : m <= n}) /\ Cardinality({m \in S : m <= n}) \in Nat
         /\ Cardinality({m \in S : m <= n}) <= Cardinality(S)
         /\ Cardinality({m \in S : m <= n}) = Cardinality(S) => {m \in S : m <= n} = S
<1> DEFINE T == {m \in S : m <= n}
<1>1. IsFiniteSet(S) /\ T \in SUBSET S
  BY DEF FiniteInts
<1> HIDE DEF T
<1>2. /\ IsFiniteSet(T) /\ Cardinality(T) <= Cardinality(S)
      /\ Cardinality(S) = Cardinality(T) => S = T
  BY <1>1, FS_Subset
<1>3. Cardinality(S) \in Nat /\ Cardinality(T) \in Nat
  BY <1>1, <1>2, FS_CardinalityType
<1>4. QED BY <1>2, <1>3 DEF T

(* The greatest number of a set has the last rank, and no other has. *)
LEMMA GreatestRank ==
  ASSUME NEW S, FiniteInts(S), NEW l \in S, \A n \in S : n <= l
  PROVE  AtRank(S, Cardinality(S)) = {l}
<1>1. {m \in S : m <= l} = S
  OBVIOUS
<1>2. ASSUME NEW n \in S, Cardinality({m \in S : m <= n}) = Cardinality(S)
      PROVE  n = l
  <2>1. {m \in S : m <= n} = S
    BY <1>2, RankTypes
  <2>2. l <= n /\ n <= l /\ l \in Int /\ n \in Int
    BY <2>1 DEF FiniteInts
  <2>3. QED BY <2>2
<1>3. QED BY <1>1, <1>2 DEF AtRank

(* Greater numbers beside those of a set do not change its ranks. *)
LEMMA RanksBelow ==
  ASSUME NEW S, FiniteInts(S), NEW D, FiniteInts(D), \A n \in S : \A d \in D : n < d,
         NEW U, U = S \cup D
  PROVE  /\ FiniteInts(U) /\ Cardinality(U) = Cardinality(S) + Cardinality(D)
         /\ \A j \in 1 .. Cardinality(S) : AtRank(U, j) = AtRank(S, j)
         /\ \A i \in Nat \ {0} : AtRank(U, Cardinality(S) + i) = AtRank(D, i)
<1>1. S \subseteq Int /\ IsFiniteSet(S) /\ D \subseteq Int /\ IsFiniteSet(D)
  BY DEF FiniteInts
<1>9. \A n \in S : \A d \in D : n <= d /\ ~(d <= n)
  BY <1>1
<1>10. U = S \cup D
  OBVIOUS
<1>2. /\ FiniteInts(U) /\ Cardinality(U) = Cardinality(S) + Cardinality(D)
      /\ Cardinality(S) \in Nat /\ Cardinality(D) \in Nat
  <2>1. S \cap D = {}
    BY <1>1
  <2>2. IsFiniteSet(U) /\ Cardinality(U) = Cardinality(S) + Cardinality(D) - Cardinality({})
    <3>1. IsFiniteSet(S \cup D)
          /\ Cardinality(S \cup D) = Cardinality(S) + Cardinality(D) - Cardinality(S \cap D)
      BY <1>1, FS_Union
    <3>2. QED BY <2>1, <3>1
  <2>3. Cardinality({}) = 0 /\ Cardinality(S) \in Nat /\ Cardinality(D) \in Nat
    BY <1>1, FS_EmptySet, FS_CardinalityType
  <2>4. QED BY <1>1, <2>2, <2>3 DEF FiniteInts
<1> DEFINE Up(n) == Cardinality({m \in U : m <= n})
           InS(n) == Cardinality({m \in S : m <= n})
           InD(n) == Cardinality({m \in D : m <= n})
           all == Cardinality(S)
<1>3. ASSUME NEW n \in S PROVE Up(n) = InS(n) /\ InS(n) \in 0 .. all
  <2>1. {m \in U : m <= n} = {m \in S : m <= n}
    BY <1>9, <1>10
  <2>2. InS(n) \in Nat /\ InS(n) <= all
    BY RankTypes
  <2>3. Up(n) = InS(n)
    BY <2>1
  <2> HIDE DEF Up, InS, all
  <2>4. QED BY <1>2, <2>2, <2>3
<1>4. ASSUME NEW d \in D PROVE Up(d) = all + InD(d) /\ InD(d) \in Nat \ {0}
  <2> DEFINE E == {m \in D : m <= d}
  <2>1. {m \in U : m <= d} = S \cup E
    BY <1>9, <1>10
  <2>2. S \cap E = {}
    BY <1>9
  <2>3. d \in E
    BY <1>1
  <2>4. IsFiniteSet(E) /\ Cardinality(E) \in Nat
    BY RankTypes
  <2>5. Up(d) = Cardinality(S \cup E) /\ InD(d) = Cardinality(E)
    BY <2>1
  <2> HIDE DEF E, Up, InD
  <2>6. Cardinality(S \cup E) = Cardinality(S) + Cardinality(E) - Cardinality({})
    <3>1. Cardinality(S \cup E) = Cardinality(S) + Cardinality(E) - Cardinality(S \cap E)
      BY <1>1, <2>4, FS_Union
    <3>2. QED BY <2>2, <3>1
  <2>7. Cardinality({}) = 0 /\ Cardinality(E) # 0
    BY <2>3, <2>4, FS_EmptySet
  <2> DEFINE c == Cardinality(E)
             whole == Cardinality(S \cup E)
             none == Cardinality({})
  <2>8. whole = all + c - none /\ none = 0 /\ c # 0 /\ c \in Nat /\ all \in Nat
        /\ Up(d) = whole /\ InD(d) = c
    BY <1>2, <2>4, <2>5, <2>6, <2>7
  <2> HIDE DEF c, whole, none, all
  <2>9. QED BY <2>8
<1>5. /\ all \in Nat
      /\ \A j : AtRank(U, j) = {n \in U : Up(n) = j} /\ AtRank(S, j) = {n \in S : InS(n) = j}
      /\ \A j : AtRank(D, j) = {n \in D : InD(n) = j}
  BY <1>2 DEF AtRank
<1>11. /\ \A j \in 1 .. all : AtRank(U, j) = AtRank(S, j)
       /\ \A i \in Nat \ {0} : AtRank(U, all + i) = AtRank(D, i)
  <2> HIDE DEF Up, InS, InD, all
  <2>1. ASSUME NEW j \in 1 .. all PROVE AtRank(U, j) = AtRank(S, j)
    <3>1. \A d \in D : Up(d) # j
      BY <1>4, <1>5
    <3>2. \A n \in S : Up(n) = InS(n)
      BY <1>3
    <3>3. QED BY <1>5, <1>10, <3>1, <3>2
  <2>2. ASSUME NEW i \in Nat \ {0} PROVE AtRank(U, all + i) = AtRank(D, i)
    <3>1. \A n \in S : Up(n) # all + i
      BY <1>3, <1>5
    <3>2. \A d \in D : Up(d) = all + i <=> InD(d) = i
      BY <1>4, <1>5
    <3>3. QED BY <1>5, <1>10, <3>1, <3>2
  <2>3. QED BY <2>1, <2>2
<1>8. QED BY <1>2, <1>11

Upward(D, l, m) ==
  /\ FiniteInts(D) /\ Cardinality(D) = m - l
  /\ \A n \in D : l < n /\ n <= m /\ AtRank(D, n - l) = {n}

(* In an interval the rank of a number is its distance from the start. *)
LEMMA RanksAfter ==
  ASSUME NEW l \in Int, NEW m \in Int, l < m, NEW D, D = l + 1 .. m
  PROVE  Upward(D, l, m)
<1>1. FiniteInts(D) /\ Cardinality(D) = m - l
  <2>1. l + 1 \in Int
    OBVIOUS
  <2>2. IsFiniteSet(l + 1 .. m) /\ Cardinality(l + 1 .. m) = IF l + 1 > m THEN 0 ELSE m - (l + 1) + 1
    BY <2>1, FS_Interval
  <2>3. m - (l + 1) + 1 = m - l /\ ~(l + 1 > m)
    OBVIOUS
  <2>4. QED BY <2>2, <2>3 DEF FiniteInts
<1> DEFINE Up(n) == Cardinality({j \in D : j <= n})
<1>2. ASSUME NEW n \in D PROVE Up(n) = n - l /\ n \in Int /\ l < n /\ n <= m
  <2>1. {j \in D : j <= n} = l + 1 .. n /\ n \in Int /\ l + 1 \in Int /\ l < n /\ n <= m
    OBVIOUS
  <2>2. Cardinality(l + 1 .. n) = IF l + 1 > n THEN 0 ELSE n - (l + 1) + 1
    BY <2>1, FS_Interval
  <2>3. Up(n) = Cardinality(l + 1 .. n)
    BY <2>1
  <2> HIDE DEF Up
  <2>4. n - (l + 1) + 1 = n - l /\ ~(l + 1 > n)
    BY <2>1
  <2>5. QED BY <2>1, <2>2, <2>3, <2>4
<1>3. ASSUME NEW n \in D PROVE l < n /\ n <= m /\ AtRank(D, n - l) = {n}
  <2> DEFINE i == n - l
  <2>1. AtRank(D, i) = {k \in D : Up(k) = i}
    BY DEF AtRank
  <2> HIDE DEF Up
  <2>2. \A k \in D : Up(k) = i <=> k = n
    BY <1>2
  <2> HIDE DEF i
  <2>3. AtRank(D, i) = {n}
    BY <2>1, <2>2
  <2>4. QED BY <1>2, <2>3 DEF i
<1>4. QED BY <1>1, <1>3 DEF Upward

-----------------------------------------------------------------------------
(* The buckets that a series covers                                        *)

NumbersIn(items, b) == {NumberIn(items[i].time, b) : i \in DOMAIN items}
LastNumber(T, b)    == NumberIn(T[Len(T)].time, b)

InOrder(T, b) ==
  \A i, j \in 1 .. Len(T) : i <= j => NumberIn(T[i].time, b) <= NumberIn(T[j].time, b)

Covered(T, b, f) ==
  IF f THEN NumberIn(T[1].time, b) .. LastNumber(T, b) ELSE NumbersIn(T, b)

(* Items in the order of their buckets, and at least one. *)
Items(T, b) == T \in Seq(Item) /\ Len(T) > 0 /\ InOrder(T, b)

(* When items are, and which buckets they are of, is a number. *)
LEMMA ItemNumbers ==
  ASSUME BarPipelineAssumption, NEW b \in Nat \ {0}, NEW T \in Seq(Item)
  PROVE  \A i \in 1 .. Len(T) : NumberIn(T[i].time, b) \in Int /\ T[i].time \in Clock
<1> SUFFICES ASSUME NEW i \in 1 .. Len(T)
             PROVE  NumberIn(T[i].time, b) \in Int /\ T[i].time \in Clock
  OBVIOUS
<1>1. T[i].time \in Clock
  BY ItemParts
<1>2. T[i].time \in Int
  BY <1>1 DEF Clock, BarPipelineAssumption
<1>3. QED BY <1>1, <1>2, NumberFacts

(* The buckets covered are finitely many, and the last item's is the greatest. *)
LEMMA CoverFacts ==
  ASSUME BarPipelineAssumption, NEW b \in Nat \ {0}, NEW f \in BOOLEAN, NEW T, Items(T, b)
  PROVE  LET S == Covered(T, b, f)
             l == LastNumber(T, b)
         IN  /\ FiniteInts(S) /\ l \in S /\ l \in NumbersIn(T, b) /\ l \in Int
             /\ \A n \in S : n <= l
             /\ NumbersIn(T, b) \subseteq S
             /\ \A i \in 1 .. Len(T) : NumberIn(T[i].time, b) <= l
<1> DEFINE l == LastNumber(T, b)
           one == 1
           a == NumberIn(T[one].time, b)
           N == NumbersIn(T, b)
<1>1. /\ T \in Seq(Item) /\ Len(T) \in Nat /\ one \in 1 .. Len(T) /\ Len(T) \in 1 .. Len(T)
      /\ DOMAIN T = 1 .. Len(T)
  BY DEF Items
<1>2. \A i \in 1 .. Len(T) : NumberIn(T[i].time, b) \in Int
  BY <1>1, ItemNumbers
<1>3. a \in Int /\ l \in Int /\ l \in N
  BY <1>1, <1>2 DEF NumbersIn, LastNumber
<1>4. ASSUME NEW i \in 1 .. Len(T)
      PROVE  a <= NumberIn(T[i].time, b) /\ NumberIn(T[i].time, b) <= l
  <2>1. one <= i /\ i <= Len(T)
    OBVIOUS
  <2> HIDE DEF one
  <2>2. QED BY <1>1, <2>1 DEF Items, InOrder, LastNumber
<1>5. N \subseteq a .. l
  BY <1>1, <1>2, <1>3, <1>4 DEF NumbersIn
<1> HIDE DEF l, a, N, one
<1>6. IsFiniteSet(a .. l)
  BY <1>3, FS_Interval
<1>7. IsFiniteSet(N)
  BY <1>5, <1>6, FS_Subset
<1>8. Covered(T, b, f) = IF f THEN a .. l ELSE N
  BY DEF Covered, l, a, N, one
<1>9. a .. l \subseteq Int /\ N \subseteq Int /\ l \in a .. l /\ \A n \in a .. l : n <= l
  BY <1>3, <1>5
<1>10. QED
  <2> DEFINE S == Covered(T, b, f)
  <2>1. S = a .. l \/ S = N
    BY <1>8
  <2> HIDE DEF S
  <2>2. FiniteInts(S) /\ l \in S
    BY <1>3, <1>6, <1>7, <1>9, <2>1 DEF FiniteInts
  <2>3. (\A n \in S : n <= l) /\ N \subseteq S
    BY <1>5, <1>9, <2>1
  <2>4. QED BY <1>3, <1>4, <2>2, <2>3 DEF S, l, N

(* One more item, of the last bucket or a later one. *)
LEMMA CoverAppend ==
  ASSUME BarPipelineAssumption, NEW b \in Nat \ {0}, NEW f \in BOOLEAN, NEW T, Items(T, b),
         NEW x \in Item, NEW l, l = LastNumber(T, b), NEW m, m = NumberIn(x.time, b), l <= m
  PROVE  LET U == Append(T, x)
         IN  /\ Items(U, b) /\ LastNumber(U, b) = m /\ U[1] = T[1] /\ Len(U) = Len(T) + 1
             /\ NumbersIn(U, b) = NumbersIn(T, b) \cup {m}
             /\ Covered(U, b, f) = Covered(T, b, f) \cup (IF f THEN l + 1 .. m ELSE {m})
<1> DEFINE U == Append(T, x)
<1>1. /\ T \in Seq(Item) /\ Len(T) \in Nat /\ Len(T) > 0 /\ DOMAIN T = 1 .. Len(T)
      /\ U \in Seq(Item) /\ Len(U) = Len(T) + 1 /\ DOMAIN U = 1 .. Len(T) + 1
      /\ U[Len(T) + 1] = x /\ \A i \in 1 .. Len(T) : U[i] = T[i]
  BY DEF Items
<1> HIDE DEF U
<1>2. /\ FiniteInts(Covered(T, b, f)) /\ l \in NumbersIn(T, b) /\ l \in Int
      /\ \A i \in 1 .. Len(T) : NumberIn(T[i].time, b) <= l
  BY CoverFacts
<1>3. m \in Int
  <2>1. x.time \in Int
    BY ItemParts DEF Clock, BarPipelineAssumption
  <2>2. QED BY <2>1, NumberFacts
<1>4. \A i \in 1 .. Len(T) : NumberIn(T[i].time, b) \in Int /\ NumberIn(T[i].time, b) <= m
  <2>1. \A i \in 1 .. Len(T) : NumberIn(T[i].time, b) \in Int
    BY <1>1, ItemNumbers
  <2>2. QED BY <1>2, <1>3, <2>1
<1>5. \A i \in 1 .. Len(U) : i \in 1 .. Len(T) \/ i = Len(U)
  BY <1>1
<1>6. NumberIn(U[Len(U)].time, b) = m
  BY <1>1
<1>7. InOrder(U, b)
  <2> SUFFICES ASSUME NEW i \in 1 .. Len(U), NEW j \in 1 .. Len(U), i <= j
               PROVE  NumberIn(U[i].time, b) <= NumberIn(U[j].time, b)
    BY DEF InOrder
  <2>1. CASE j \in 1 .. Len(T)
    <3>1. i \in 1 .. Len(T)
      BY <2>1
    <3>2. QED BY <1>1, <2>1, <3>1 DEF Items, InOrder
  <2>2. CASE j = Len(U)
    <3>1. CASE i \in 1 .. Len(T)
      BY <1>1, <1>4, <1>6, <2>2, <3>1
    <3>2. CASE i = Len(U)
      <4>1. m <= m
        BY <1>3
      <4>2. QED BY <1>6, <2>2, <3>2, <4>1
    <3>3. QED BY <1>5, <3>1, <3>2
  <2>3. QED BY <1>5, <2>1, <2>2
<1>8. Items(U, b) /\ LastNumber(U, b) = m /\ U[1] = T[1]
  BY <1>1, <1>6, <1>7 DEF Items, LastNumber
<1>9. NumbersIn(U, b) = NumbersIn(T, b) \cup {m}
  <2>1. ASSUME NEW n PROVE n \in NumbersIn(U, b) <=> n \in NumbersIn(T, b) \/ n = m
    <3>1. Len(U) \in DOMAIN U /\ DOMAIN U = 1 .. Len(U)
      BY <1>1
    <3>2. ASSUME n \in NumbersIn(U, b) PROVE n \in NumbersIn(T, b) \/ n = m
      <4>1. PICK i \in 1 .. Len(U) : n = NumberIn(U[i].time, b)
        BY <3>1, <3>2 DEF NumbersIn
      <4>2. QED BY <1>1, <1>5, <1>6, <4>1 DEF NumbersIn
    <3>3. ASSUME n \in NumbersIn(T, b) PROVE n \in NumbersIn(U, b)
      <4>1. PICK i \in 1 .. Len(T) : n = NumberIn(T[i].time, b)
        BY <1>1, <3>3 DEF NumbersIn
      <4>2. i \in DOMAIN U /\ U[i] = T[i]
        BY <1>1
      <4>3. QED BY <4>1, <4>2 DEF NumbersIn
    <3>4. m \in NumbersIn(U, b)
      BY <1>6, <3>1 DEF NumbersIn
    <3>5. QED BY <3>2, <3>3, <3>4
  <2>2. QED BY <2>1
<1>10. Covered(U, b, f) = Covered(T, b, f) \cup (IF f THEN l + 1 .. m ELSE {m})
  <2>1. CASE f = TRUE
    <3> DEFINE a == NumberIn(T[1].time, b)
    <3>1. a \in Int /\ a <= l
      <4>1. 1 \in 1 .. Len(T)
        BY <1>1
      <4>2. QED BY <1>2, <1>4, <4>1
    <3>2. Covered(U, b, f) = a .. m /\ Covered(T, b, f) = a .. l
      BY <1>8, <2>1 DEF Covered
    <3> HIDE DEF a
    <3>3. a .. m = (a .. l) \cup (l + 1 .. m)
      BY <1>2, <1>3, <3>1
    <3>4. QED BY <2>1, <3>2, <3>3
  <2>2. CASE f = FALSE
    BY <1>9, <2>2 DEF Covered
  <2>3. QED BY <2>1, <2>2
<1>11. QED BY <1>1, <1>8, <1>9, <1>10 DEF U

-----------------------------------------------------------------------------
(* A series, and an item of its last bucket                                *)

(* A candle is that of its bucket, with items or between two others. *)
OfBucket(c, T, n, b) ==
  /\ n \in NumbersIn(T, b) => IsCandle(c, T, n, b)
  /\ n \notin NumbersIn(T, b) => IsFiller(c, T, n, b)

Good(T, s, b, f) ==
  /\ Items(T, b) /\ s \in Seq(Item) /\ Len(s) = Cardinality(Covered(T, b, f))
  /\ \A j \in 1 .. Len(s) : \E n : AtRank(Covered(T, b, f), j) = {n} /\ OfBucket(s[j], T, n, b)

Replaced(s, c) == [j \in 1 .. Len(s) |-> IF j = Len(s) THEN c ELSE s[j]]

Between(c, n, m, b, f) ==
  IF f THEN [k \in 1 .. m - n - 1 |-> Flat(c.close, StartIn(n, b) + k * b)] ELSE <<>>

Followed(s, n, x, b, f) ==
  (s \o Between(s[Len(s)], n, NumberIn(x.time, b), b, f)) \o <<Fresh(x, b)>>

(* The last candle of a series is that of the last item's bucket, the others *)
(* are of buckets before it.                                                 *)
LEMMA GoodLast ==
  ASSUME BarPipelineAssumption, NEW b \in Nat \ {0}, NEW f \in BOOLEAN, NEW T, NEW s,
         Good(T, s, b, f), NEW l, l = LastNumber(T, b)
  PROVE  /\ Len(s) \in Nat /\ Len(s) > 0 /\ IsCandle(s[Len(s)], T, l, b)
         /\ s[Len(s)].close = T[Len(T)].close /\ s[Len(s)] \in Item
         /\ \A j \in 1 .. Len(s) - 1 :
              \E n \in Int : /\ n < l /\ AtRank(Covered(T, b, f), j) = {n}
                             /\ OfBucket(s[j], T, n, b)
<1> DEFINE S == Covered(T, b, f)
<1>1. /\ FiniteInts(S) /\ l \in S /\ l \in NumbersIn(T, b) /\ l \in Int
      /\ \A n \in S : n <= l
  BY CoverFacts DEF Good
<1>2. /\ Items(T, b) /\ s \in Seq(Item) /\ Len(s) = Cardinality(S)
      /\ \A j \in 1 .. Len(s) : \E n : AtRank(S, j) = {n} /\ OfBucket(s[j], T, n, b)
  BY DEF Good
<1> HIDE DEF S
<1>3. Len(s) \in Nat /\ Len(s) > 0
  <2>1. IsFiniteSet(S) /\ S # {} /\ Cardinality(S) \in Nat
    BY <1>1, RankTypes DEF FiniteInts
  <2>2. Cardinality(S) # 0
    BY <2>1, FS_EmptySet
  <2>3. QED BY <1>2, <2>1, <2>2
<1>4. AtRank(S, Len(s)) = {l}
  BY <1>1, <1>2, GreatestRank
<1>5. IsCandle(s[Len(s)], T, l, b)
  <2>1. Len(s) \in 1 .. Len(s)
    BY <1>3
  <2>2. PICK n : AtRank(S, Len(s)) = {n} /\ OfBucket(s[Len(s)], T, n, b)
    BY <1>2, <2>1
  <2>3. n = l
    BY <1>4, <2>2
  <2>4. QED BY <1>1, <2>2, <2>3 DEF OfBucket
<1>6. ASSUME NEW j \in 1 .. Len(s) - 1
      PROVE  \E n \in Int : n < l /\ AtRank(S, j) = {n} /\ OfBucket(s[j], T, n, b)
  <2>1. j \in 1 .. Len(s) /\ j # Len(s)
    BY <1>3
  <2>2. PICK n : AtRank(S, j) = {n} /\ OfBucket(s[j], T, n, b)
    BY <1>2, <2>1
  <2>3. n \in S /\ Cardinality({m \in S : m <= n}) = j
    BY <2>2 DEF AtRank
  <2>4. n # l
    <3>1. l \in AtRank(S, Len(s))
      BY <1>4
    <3>2. Cardinality({m \in S : m <= l}) = Len(s)
      BY <3>1 DEF AtRank
    <3>3. QED BY <2>1, <2>3, <3>2
  <2>5. n \in Int /\ n < l
    BY <1>1, <2>3, <2>4 DEF FiniteInts
  <2>6. QED BY <2>2, <2>5
<1>7. s[Len(s)].close = T[Len(T)].close
  <2> DEFINE own == PlacesIn(T, l, b)
  <2>1. Len(T) \in own /\ own \subseteq 1 .. Len(T)
    BY <1>2 DEF Items, PlacesIn, LastNumber
  <2>2. PICK i \in own : s[Len(s)].close = T[i].close /\ \A j \in own : j <= i
    BY <1>5 DEF IsCandle, Shuts
  <2> HIDE DEF own
  <2>3. Len(T) <= i /\ i <= Len(T) /\ i \in Int /\ Len(T) \in Int
    BY <2>1, <2>2, <1>2 DEF Items
  <2>4. QED BY <2>2, <2>3
<1>8. s[Len(s)] \in Item
  BY <1>5 DEF IsCandle
<1>9. QED BY <1>3, <1>5, <1>6, <1>7, <1>8 DEF S

(* An item changes no candle of a bucket before its own. *)
LEMMA BucketStays ==
  ASSUME BarPipelineAssumption, NEW b \in Nat \ {0}, NEW T, Items(T, b), NEW x \in Item,
         LastNumber(T, b) <= NumberIn(x.time, b),
         NEW n \in Int, n < NumberIn(x.time, b), NEW c, OfBucket(c, T, n, b)
  PROVE  OfBucket(c, Append(T, x), n, b)
<1> DEFINE m == NumberIn(x.time, b)
<1>1. T \in Seq(Item) /\ m # n /\ ~(m < n)
  <2>1. x.time \in Int
    BY ItemParts DEF Clock, BarPipelineAssumption
  <2>2. m \in Int
    BY <2>1, NumberFacts
  <2> HIDE DEF m
  <2>3. n < m
    BY DEF m
  <2>4. QED BY <2>2, <2>3 DEF Items
<1>2. NumbersIn(Append(T, x), b) = NumbersIn(T, b) \cup {m}
  <2> DEFINE l == LastNumber(T, b)
             f == TRUE
  <2>1. f \in BOOLEAN /\ l <= m
    OBVIOUS
  <2> HIDE DEF l, f
  <2>2. NumbersIn(Append(T, x), b) = NumbersIn(T, b) \cup {NumberIn(x.time, b)}
    <3> USE DEF l, m
    <3>1. QED BY <2>1, CoverAppend
  <2>3. QED BY <2>2
<1>3. CASE n \in NumbersIn(T, b)
  <2>1. IsCandle(c, Append(T, x), n, b)
    BY <1>1, <1>3, CandleElsewhere DEF OfBucket
  <2>2. QED BY <1>2, <1>3, <2>1 DEF OfBucket
<1>4. CASE n \notin NumbersIn(T, b)
  <2>1. IsFiller(c, Append(T, x), n, b)
    BY <1>1, <1>4, FillerStays DEF OfBucket
  <2>2. QED BY <1>1, <1>2, <1>4, <2>1 DEF OfBucket
<1>5. QED BY <1>3, <1>4

(* An item of the last bucket changes the last candle and no other. *)
LEMMA GoodAbsorbs ==
  ASSUME BarPipelineAssumption, NEW b \in Nat \ {0}, NEW f \in BOOLEAN, NEW T, NEW s,
         Good(T, s, b, f), NEW x \in Item, NumberIn(x.time, b) = LastNumber(T, b)
  PROVE  Good(Append(T, x), Replaced(s, Absorbed(s[Len(s)], x)), b, f)
<1> DEFINE l == LastNumber(T, b)
           U == Append(T, x)
           c == Absorbed(s[Len(s)], x)
           u == Replaced(s, c)
           S == Covered(T, b, f)
<1>1. /\ Items(T, b) /\ s \in Seq(Item) /\ Len(s) = Cardinality(S) /\ T \in Seq(Item)
  BY DEF Good, Items
<1>2. /\ Len(s) \in Nat /\ Len(s) > 0 /\ IsCandle(s[Len(s)], T, l, b) /\ s[Len(s)] \in Item
      /\ \A j \in 1 .. Len(s) - 1 :
           \E n \in Int : n < l /\ AtRank(S, j) = {n} /\ OfBucket(s[j], T, n, b)
  BY GoodLast
<1>3. /\ FiniteInts(S) /\ l \in S /\ l \in NumbersIn(T, b) /\ l \in Int /\ \A n \in S : n <= l
  BY <1>1, CoverFacts
<1>4. l <= l
  BY <1>3
<1>5. /\ Items(U, b) /\ NumbersIn(U, b) = NumbersIn(T, b)
      /\ Covered(U, b, f) = S
  <2> DEFINE m == NumberIn(x.time, b)
  <2>1. /\ Items(U, b) /\ NumbersIn(U, b) = NumbersIn(T, b) \cup {m}
        /\ Covered(U, b, f) = S \cup (IF f THEN l + 1 .. m ELSE {m})
    BY <1>1, <1>4, CoverAppend
  <2>2. m = l
    OBVIOUS
  <2> HIDE DEF m, l, S
  <2>3. l + 1 .. m = {}
    BY <1>3, <2>2
  <2>4. QED BY <1>3, <2>1, <2>2, <2>3
<1>6. IsCandle(c, U, l, b) /\ c \in Item
  <2>1. IsCandle(c, U, l, b)
    BY <1>1, <1>2, CandleAbsorbs
  <2>2. QED BY <2>1 DEF IsCandle
<1>7. /\ u \in Seq(Item) /\ Len(u) = Len(s) /\ u[Len(s)] = c
      /\ \A j \in 1 .. Len(s) - 1 : u[j] = s[j]
  <2> HIDE DEF c
  <2>1. /\ DOMAIN u = 1 .. Len(s) /\ u[Len(s)] = c
        /\ \A j \in 1 .. Len(s) - 1 : u[j] = s[j]
    BY <1>2 DEF Replaced
  <2>2. u \in [1 .. Len(s) -> Item]
    BY <1>1, <1>2, <1>6 DEF Replaced
  <2> HIDE DEF u
  <2>3. u \in Seq(Item) /\ Len(u) = Len(s)
    BY <1>2, <2>2
  <2>4. QED BY <2>1, <2>3
<1>8. AtRank(S, Len(s)) = {l}
  BY <1>1, <1>3, GreatestRank
<1> HIDE DEF U, c, u, S
<1>9. ASSUME NEW j \in 1 .. Len(u)
      PROVE  \E n : AtRank(S, j) = {n} /\ OfBucket(u[j], U, n, b)
  <2>1. CASE j = Len(s)
    <3>1. OfBucket(c, U, l, b)
      BY <1>3, <1>5, <1>6 DEF OfBucket
    <3>2. QED BY <1>7, <1>8, <2>1, <3>1
  <2>2. CASE j # Len(s)
    <3>1. j \in 1 .. Len(s) - 1
      BY <1>2, <1>7, <2>2
    <3>2. PICK n \in Int : n < l /\ AtRank(S, j) = {n} /\ OfBucket(s[j], T, n, b)
      BY <1>2, <3>1
    <3>3. OfBucket(s[j], U, n, b)
      BY <1>1, <1>4, <3>2, BucketStays DEF U
    <3>4. QED BY <1>7, <3>1, <3>2, <3>3
  <2>3. QED BY <2>1, <2>2
<1>10. Good(U, u, b, f)
  BY <1>1, <1>5, <1>7, <1>9 DEF Good
<1>11. QED BY <1>10 DEF U, u, c

-----------------------------------------------------------------------------
(* An item of a later bucket                                               *)

(* The one number of a set is its first. *)
LEMMA SingleRank ==
  ASSUME NEW n \in Int, NEW D, D = {n}
  PROVE  /\ FiniteInts(D) /\ Cardinality(D) = 1 /\ AtRank(D, 1) = {n}
         /\ \A k \in D : k \in Int /\ k = n
<1>1. D \subseteq Int /\ n \in D
  OBVIOUS
<1>2. IsFiniteSet(D) /\ Cardinality(D) = 1
  BY FS_Singleton
<1>3. FiniteInts(D)
  BY <1>1, <1>2 DEF FiniteInts
<1>4. \A k \in D : k \in Int /\ k = n
  OBVIOUS
<1>5. \A k \in D : k <= n
  BY <1>4
<1>6. AtRank(D, Cardinality(D)) = {n}
  BY <1>1, <1>3, <1>5, GreatestRank
<1>7. QED BY <1>2, <1>3, <1>4, <1>6

(* The items of two sequences, one after the other. *)
LEMMA Joined ==
  ASSUME NEW v \in Seq(Item), NEW z \in Seq(Item)
  PROVE  /\ v \o z \in Seq(Item) /\ Len(v \o z) = Len(v) + Len(z)
         /\ \A j \in 1 .. Len(v) : (v \o z)[j] = v[j]
         /\ \A k \in 1 .. Len(z) : (v \o z)[Len(v) + k] = z[k]
OBVIOUS

(* The items of two sequences and one more. *)
LEMMA Chained ==
  ASSUME NEW s \in Seq(Item), NEW w \in Seq(Item), NEW y \in Item, NEW u, u = (s \o w) \o <<y>>
  PROVE  /\ u \in Seq(Item) /\ Len(u) = Len(s) + Len(w) + 1
         /\ \A j \in 1 .. Len(s) : u[j] = s[j]
         /\ \A k \in 1 .. Len(w) : u[Len(s) + k] = w[k]
         /\ u[Len(s) + Len(w) + 1] = y
<1> DEFINE v == s \o w
<1>1. /\ v \in Seq(Item) /\ Len(v) = Len(s) + Len(w)
      /\ \A j \in 1 .. Len(s) : v[j] = s[j]
      /\ \A k \in 1 .. Len(w) : v[Len(s) + k] = w[k]
  OBVIOUS
<1> DEFINE z == <<y>>
<1>2. u = v \o z /\ z \in Seq(Item) /\ Len(z) = 1 /\ z[1] = y
  OBVIOUS
<1> HIDE DEF v, z
<1>3. /\ u \in Seq(Item) /\ Len(u) = Len(v) + 1 /\ u[Len(v) + 1] = y
      /\ \A j \in 1 .. Len(v) : u[j] = v[j]
  <2>1. v \in Seq(Item) /\ 1 \in 1 .. Len(z)
    BY <1>1, <1>2
  <2>2. /\ u \in Seq(Item) /\ Len(u) = Len(v) + Len(z)
        /\ \A j \in 1 .. Len(v) : u[j] = v[j]
        /\ \A k \in 1 .. Len(z) : u[Len(v) + k] = z[k]
    <3>1. /\ v \o z \in Seq(Item) /\ Len(v \o z) = Len(v) + Len(z)
          /\ \A j \in 1 .. Len(v) : (v \o z)[j] = v[j]
          /\ \A k \in 1 .. Len(z) : (v \o z)[Len(v) + k] = z[k]
      BY ONLY <1>2, <2>1, Joined
    <3>2. QED BY ONLY <1>2, <3>1
  <2>3. QED BY <1>2, <2>1, <2>2
<1>4. \A j \in 1 .. Len(s) : j \in 1 .. Len(v)
  BY <1>1
<1>5. \A k \in 1 .. Len(w) : Len(s) + k \in 1 .. Len(v)
  BY <1>1
<1>6. QED BY <1>1, <1>3, <1>4, <1>5

(* The series of one item is its bucket. *)
LEMMA GoodFirst ==
  ASSUME BarPipelineAssumption, NEW b \in Nat \ {0}, NEW f \in BOOLEAN, NEW x \in Item
  PROVE  Good(<<x>>, <<Fresh(x, b)>>, b, f)
<1> DEFINE T == <<x>>
           n == NumberIn(x.time, b)
           S == {n}
           s == <<Fresh(x, b)>>
<1>1. T \in Seq(Item) /\ Len(T) = 1 /\ T[1] = x /\ DOMAIN T = {1}
  OBVIOUS
<1>2. n \in Int
  <2>1. x.time \in Int
    BY ItemParts DEF Clock, BarPipelineAssumption
  <2>2. QED BY <2>1, NumberFacts
<1>3. NumbersIn(T, b) = S /\ LastNumber(T, b) = n /\ Items(T, b)
  <2>1. NumbersIn(T, b) = S /\ LastNumber(T, b) = n
    BY <1>1 DEF NumbersIn, LastNumber
  <2>2. InOrder(T, b)
    <3> HIDE DEF T
    <3> SUFFICES ASSUME NEW i \in 1 .. Len(T), NEW j \in 1 .. Len(T)
                 PROVE  NumberIn(T[i].time, b) <= NumberIn(T[j].time, b)
      BY DEF InOrder
    <3>1. i = 1 /\ j = 1
      BY <1>1
    <3>2. QED BY <1>1, <1>2, <3>1
  <2>3. QED BY <1>1, <2>1, <2>2 DEF Items
<1>4. Covered(T, b, f) = S
  <2> DEFINE N == NumbersIn(T, b)
             z == LastNumber(T, b)
             a == NumberIn(T[1].time, b)
  <2>1. a = n /\ z = n /\ N = S
    BY <1>1, <1>3
  <2>2. Covered(T, b, f) = IF f THEN a .. z ELSE N
    BY DEF Covered
  <2> HIDE DEF a, z, N
  <2>3. n .. n = S
    <3> HIDE DEF n
    <3>1. QED BY <1>2
  <2>4. QED BY <2>1, <2>2, <2>3
<1>5. Cardinality(S) = 1 /\ AtRank(S, 1) = {n}
  BY <1>2, SingleRank
<1>7. IsCandle(Fresh(x, b), T, n, b)
  <2> DEFINE O == <<>>
  <2>1. O \in Seq(Item) /\ Append(O, x) = T /\ PlacesIn(O, n, b) = {}
    BY DEF PlacesIn
  <2> HIDE DEF O, T
  <2>2. QED BY <2>1, CandleBegins
<1>8. s \in Seq(Item) /\ Len(s) = 1 /\ s[1] = Fresh(x, b)
  BY FreshItem
<1>9. n \in NumbersIn(T, b)
  BY <1>3
<1> HIDE DEF T, n, s, S
<1>10. OfBucket(s[1], T, n, b)
  BY <1>7, <1>8, <1>9 DEF OfBucket
<1>11. \A j \in 1 .. Len(s) : \E k : AtRank(S, j) = {k} /\ OfBucket(s[j], T, k, b)
  <2>1. \A j \in 1 .. Len(s) : j = 1
    BY <1>8
  <2>2. QED BY <1>5, <1>10, <2>1
<1>12. Good(T, s, b, f)
  BY <1>3, <1>4, <1>5, <1>8, <1>11 DEF Good
<1>13. QED BY <1>12 DEF T, s

Timely(n, m, b) == \A k \in 1 .. m - n - 1 : StartIn(n, b) + k * b \in Clock

(* An item of a later bucket closes the last one, and fills those between. *)
LEMMA GoodFollows ==
  ASSUME BarPipelineAssumption, NEW b \in Nat \ {0}, NEW f \in BOOLEAN, NEW T, NEW s,
         Good(T, s, b, f), NEW x \in Item, NEW l, l = LastNumber(T, b),
         NEW m, m = NumberIn(x.time, b), l < m, f => Timely(l, m, b)
  PROVE  Good(Append(T, x), Followed(s, l, x, b, f), b, f)
<1> DEFINE U == Append(T, x)
           S == Covered(T, b, f)
           D == IF f THEN l + 1 .. m ELSE {m}
           V == Covered(U, b, f)
           c == s[Len(s)]
           w == Between(c, l, m, b, f)
           h == IF f THEN l ELSE m - 1
           g == m - h
           u == Followed(s, l, x, b, f)
<1>1. /\ Items(T, b) /\ s \in Seq(Item) /\ Len(s) = Cardinality(S) /\ T \in Seq(Item)
      /\ Len(T) > 0
  BY DEF Good, Items
<1>2. /\ Len(s) \in Nat /\ Len(s) > 0 /\ c \in Item /\ c.close = T[Len(T)].close
      /\ IsCandle(c, T, l, b)
      /\ \A j \in 1 .. Len(s) - 1 :
           \E n \in Int : n < l /\ AtRank(S, j) = {n} /\ OfBucket(s[j], T, n, b)
  BY GoodLast
<1>3. /\ FiniteInts(S) /\ l \in S /\ l \in NumbersIn(T, b) /\ l \in Int /\ \A n \in S : n <= l
      /\ \A i \in 1 .. Len(T) : NumberIn(T[i].time, b) <= l
  BY <1>1, CoverFacts
<1>4. m \in Int
  <2>1. x.time \in Int
    BY ItemParts DEF Clock, BarPipelineAssumption
  <2>2. NumberIn(x.time, b) \in Int
    BY <2>1, NumberFacts
  <2>3. QED BY <2>2
<1>5. l <= m
  BY <1>3, <1>4
<1>6. /\ Items(U, b) /\ NumbersIn(U, b) = NumbersIn(T, b) \cup {m} /\ V = S \cup D
      /\ LastNumber(U, b) = m
  BY <1>1, <1>5, CoverAppend
<1>7. /\ FiniteInts(D) /\ Cardinality(D) = m - h /\ h \in Int /\ l <= h /\ h < m
      /\ D = h + 1 .. m /\ \A n \in D : h < n /\ n <= m /\ AtRank(D, n - h) = {n}
  <2>1. h \in Int /\ l <= h /\ h < m
    BY <1>3, <1>4
  <2>2. D = h + 1 .. m
    <3>1. CASE f
      BY <3>1
    <3>2. CASE ~f
      <4>1. D = {m} /\ h = m - 1
        BY <3>2
      <4> HIDE DEF D, h
      <4>2. {m} = m - 1 + 1 .. m
        BY <1>4
      <4>3. QED BY <4>1, <4>2
    <3>3. QED BY <3>1, <3>2
  <2> HIDE DEF D, h
  <2>3. Upward(D, h, m)
    BY <1>4, <2>1, <2>2, RanksAfter
  <2>4. QED BY <2>1, <2>2, <2>3 DEF Upward
<1>17. g \in Nat /\ g > 0
  <2> HIDE DEF h
  <2>1. QED BY <1>4, <1>7
<1>8. /\ Cardinality(V) = Len(s) + g
      /\ \A j \in 1 .. Len(s) : AtRank(V, j) = AtRank(S, j)
      /\ \A n \in D : AtRank(V, Len(s) + (n - h)) = {n}
  <2>1. \A n \in S : \A d \in D : n < d
    <3> HIDE DEF S, D, h
    <3> SUFFICES ASSUME NEW n \in S, NEW d \in D PROVE n < d
      OBVIOUS
    <3>1. n <= l /\ h < d /\ n \in Int /\ d \in Int
      BY <1>3, <1>7 DEF FiniteInts
    <3>2. QED BY <1>3, <1>7, <3>1
  <2> HIDE DEF S, D, V, h
  <2>2. FiniteInts(S) /\ FiniteInts(D) /\ V = S \cup D
    BY <1>3, <1>6, <1>7
  <2>3. /\ FiniteInts(V) /\ Cardinality(V) = Cardinality(S) + Cardinality(D)
        /\ \A j \in 1 .. Cardinality(S) : AtRank(V, j) = AtRank(S, j)
        /\ \A i \in Nat \ {0} : AtRank(V, Cardinality(S) + i) = AtRank(D, i)
    BY ONLY <2>1, <2>2, RanksBelow
  <2>4. \A n \in D : n - h \in Nat \ {0}
    BY <1>4, <1>7
  <2>5. ASSUME NEW n \in D PROVE AtRank(V, Len(s) + (n - h)) = {n}
    <3> DEFINE i == n - h
    <3>1. i \in Nat \ {0} /\ AtRank(D, i) = {n}
      BY <1>7, <2>4
    <3> HIDE DEF i
    <3>2. AtRank(V, Cardinality(S) + i) = AtRank(D, i)
      BY <2>3, <3>1
    <3>3. QED BY <1>1, <3>1, <3>2 DEF i
  <2>6. Cardinality(V) = Len(s) + g
    BY <1>1, <1>7, <2>3
  <2>7. \A j \in 1 .. Len(s) : AtRank(V, j) = AtRank(S, j)
    BY <1>1, <2>3
  <2>8. QED BY <2>5, <2>6, <2>7
<1>9. /\ w \in Seq(Item) /\ Len(w) = g - 1
      /\ \A k \in 1 .. g - 1 : h = l /\ w[k] = Flat(c.close, StartIn(l, b) + k * b)
  <2>1. CASE f
    <3> HIDE DEF c
    <3>1. w = [k \in 1 .. m - l - 1 |-> Flat(c.close, StartIn(l, b) + k * b)] /\ h = l
      BY <2>1 DEF Between
    <3>2. \A k \in 1 .. m - l - 1 : StartIn(l, b) + k * b \in Clock
      BY <2>1 DEF Timely
    <3> HIDE DEF h, w
    <3>3. \A k \in 1 .. m - l - 1 : Flat(c.close, StartIn(l, b) + k * b) \in Item
      BY <1>2, <3>2, ItemParts DEF Flat, Item
    <3>4. m - l - 1 \in Nat /\ g - 1 = m - l - 1
      BY <1>3, <1>4, <3>1
    <3>5. w \in [1 .. m - l - 1 -> Item]
      BY <3>1, <3>3
    <3>6. w \in Seq(Item) /\ Len(w) = m - l - 1
      BY <3>4, <3>5
    <3>7. \A k \in 1 .. m - l - 1 : w[k] = Flat(c.close, StartIn(l, b) + k * b)
      BY <3>1
    <3> HIDE DEF g
    <3>8. QED BY <3>1, <3>4, <3>6, <3>7
  <2>2. CASE ~f
    <3>1. w = <<>> /\ h = m - 1
      BY <2>2 DEF Between
    <3> HIDE DEF w, h
    <3>2. g = 1
      BY <1>4, <3>1
    <3>3. w \in Seq(Item) /\ Len(w) = 0
      BY <3>1
    <3> HIDE DEF g
    <3>4. QED BY <3>2, <3>3
  <2>3. QED BY <2>1, <2>2
<1>10. Fresh(x, b) \in Item
  BY FreshItem
<1>11. /\ u \in Seq(Item) /\ Len(u) = Len(s) + g
       /\ \A j \in 1 .. Len(s) : u[j] = s[j]
       /\ \A k \in 1 .. g - 1 : u[Len(s) + k] = w[k]
       /\ u[Len(s) + g] = Fresh(x, b)
  <2> DEFINE y == Fresh(x, b)
  <2>1. u = (s \o w) \o <<y>>
    BY DEF Followed
  <2>2. y \in Item
    BY <1>10
  <2> HIDE DEF u, w, g, y
  <2>3. /\ u \in Seq(Item) /\ Len(u) = Len(s) + Len(w) + 1
        /\ \A j \in 1 .. Len(s) : u[j] = s[j]
        /\ \A k \in 1 .. Len(w) : u[Len(s) + k] = w[k]
        /\ u[Len(s) + Len(w) + 1] = y
    <3>1. s \in Seq(Item) /\ w \in Seq(Item)
      BY <1>1, <1>9
    <3>2. QED BY <2>1, <2>2, <3>1, Chained
  <2>4. Len(w) = g - 1 /\ Len(s) + Len(w) + 1 = Len(s) + g
    BY <1>2, <1>17, <1>9
  <2>5. QED BY <2>3, <2>4 DEF y
<1>12. \A n \in Int : n < m => (n \in NumbersIn(U, b) <=> n \in NumbersIn(T, b))
  BY <1>4, <1>6
<1>13. ASSUME NEW j \in 1 .. Len(s)
       PROVE  \E n : AtRank(V, j) = {n} /\ OfBucket(u[j], U, n, b)
  <2> HIDE DEF U, V, u, S, c
  <2>1. CASE j = Len(s)
    <3>1. AtRank(S, Len(s)) = {l}
      BY <1>1, <1>3, GreatestRank
    <3>2. OfBucket(c, T, l, b)
      BY <1>2, <1>3 DEF OfBucket
    <3>3. OfBucket(c, U, l, b)
      BY <1>1, <1>3, <1>5, <3>2, BucketStays DEF U
    <3>4. QED BY <1>8, <1>11, <2>1, <3>1, <3>3 DEF c
  <2>2. CASE j # Len(s)
    <3>1. j \in 1 .. Len(s) - 1
      BY <1>2, <2>2
    <3>2. PICK n \in Int : n < l /\ AtRank(S, j) = {n} /\ OfBucket(s[j], T, n, b)
      BY <1>2, <3>1
    <3>3. n < m
      BY <1>3, <1>4, <3>2
    <3>4. OfBucket(s[j], U, n, b)
      BY <1>1, <1>5, <3>2, <3>3, BucketStays DEF U
    <3>5. QED BY <1>8, <1>11, <3>2, <3>4
  <2>3. QED BY <2>1, <2>2
<1>14. ASSUME NEW i \in 1 .. g - 1
       PROVE  \E n : AtRank(V, Len(s) + i) = {n} /\ OfBucket(u[Len(s) + i], U, n, b)
  <2> DEFINE n == l + i
             d == u[Len(s) + i]
  <2>1. h = l
    BY <1>9
  <2>2. i \in Int /\ i > 0 /\ i < m - l
    <3> HIDE DEF h
    <3>1. QED BY <1>3, <1>4, <1>17, <2>1
  <2>3. n \in Int /\ n < m /\ l < n /\ n - l = i /\ n \in D
    <3> HIDE DEF h, D
    <3>1. QED BY <1>3, <1>4, <1>7, <2>1, <2>2
  <2>4. d = w[i]
    BY <1>11
  <2>5. n \notin NumbersIn(T, b) /\ n \notin NumbersIn(U, b)
    <3>1. NumbersIn(T, b) \subseteq S
      BY <1>1, CoverFacts
    <3>2. n \notin S
      <4> HIDE DEF S
      <4>1. QED BY <1>3, <2>3
    <3>3. QED BY <1>12, <2>3, <3>1, <3>2
  <2> HIDE DEF n, d, u, U, V, w, g, h, D
  <2>6. d = FlatAfter(T[Len(T)], n, b)
    <3>1. FlatAfter(T[Len(T)], n, b) = Flat(T[Len(T)].close, StartIn(l, b) + (n - l) * b)
      BY DEF FlatAfter, LastNumber
    <3>2. d = Flat(c.close, StartIn(l, b) + i * b)
      BY <1>9, <2>4
    <3>3. QED BY <1>2, <2>3, <3>1, <3>2
  <2>7. d \in Item
    BY <1>9, <2>4
  <2>8. \A k \in 1 .. Len(T) : NumberIn(T[k].time, b) < n
    <3> SUFFICES ASSUME NEW k \in 1 .. Len(T) PROVE NumberIn(T[k].time, b) < n
      OBVIOUS
    <3> DEFINE v == NumberIn(T[k].time, b)
    <3>1. v \in Int /\ v <= l
      BY <1>1, <1>3, ItemNumbers
    <3> HIDE DEF v
    <3>2. v < n
      BY <1>3, <2>3, <3>1
    <3>3. QED BY <3>2 DEF v
  <2>9. IsFiller(d, T, n, b)
    BY <1>1, <2>6, <2>7, <2>8, FillerAfter
  <2>10. OfBucket(d, T, n, b)
    BY <2>5, <2>9 DEF OfBucket
  <2>11. OfBucket(d, U, n, b)
    BY <1>1, <1>5, <2>3, <2>10, BucketStays DEF U
  <2>12. AtRank(V, Len(s) + (n - l)) = {n}
    BY <1>8, <2>1, <2>3
  <2>13. QED BY <2>3, <2>11, <2>12 DEF d
<1>15. AtRank(V, Len(s) + g) = {m} /\ OfBucket(u[Len(s) + g], U, m, b)
  <2>1. m \in D
    <3> HIDE DEF h, D
    <3>1. QED BY <1>4, <1>7
  <2>2. PlacesIn(T, m, b) = {}
    <3> SUFFICES ASSUME NEW i \in PlacesIn(T, m, b) PROVE FALSE
      OBVIOUS
    <3>1. i \in 1 .. Len(T) /\ NumberIn(T[i].time, b) = m
      BY <1>1 DEF PlacesIn
    <3>2. m <= l
      BY <1>3, <3>1
    <3>3. QED BY <1>3, <1>4, <3>2
  <2>3. IsCandle(Fresh(x, b), U, m, b)
    BY <1>1, <2>2, CandleBegins
  <2>4. m \in NumbersIn(U, b)
    BY <1>6
  <2> HIDE DEF U, V, u, h, D
  <2>5. OfBucket(Fresh(x, b), U, m, b)
    BY <2>3, <2>4 DEF OfBucket
  <2>6. QED BY <1>8, <1>11, <2>1, <2>5
<1> HIDE DEF U, V, u, w, h, g, S, D, c
<1>16. \A j \in 1 .. Len(u) : \E n : AtRank(V, j) = {n} /\ OfBucket(u[j], U, n, b)
  <2> SUFFICES ASSUME NEW j \in 1 .. Len(u)
               PROVE  \E n : AtRank(V, j) = {n} /\ OfBucket(u[j], U, n, b)
    OBVIOUS
  <2>1. CASE j <= Len(s)
    <3>1. j \in 1 .. Len(s)
      BY <1>2, <2>1
    <3>2. QED BY <1>13, <3>1
  <2>2. CASE ~(j <= Len(s)) /\ j < Len(s) + g
    <3> DEFINE i == j - Len(s)
    <3>1. i \in 1 .. g - 1 /\ Len(s) + i = j
      BY <1>2, <1>17, <2>2
    <3> HIDE DEF i
    <3>2. QED BY <1>14, <3>1
  <2>3. CASE ~(j < Len(s) + g)
    <3>1. j = Len(s) + g
      <4>1. Len(u) = Len(s) + g
        BY <1>11
      <4>2. j <= Len(u) /\ j \in Int
        BY <1>2, <1>17, <4>1
      <4>3. Len(s) + g \in Int
        BY <1>2, <1>17
      <4> DEFINE z == Len(s) + g
      <4> HIDE DEF z
      <4>4. ~(j < z) /\ j <= z /\ z \in Int
        BY <2>3, <4>1, <4>2, <4>3 DEF z
      <4>5. j = z
        BY <4>2, <4>4
      <4>6. QED BY <4>5 DEF z
    <3>2. QED BY <1>15, <3>1
  <2>4. QED BY <2>1, <2>2, <2>3
<1>18. Good(U, u, b, f)
  BY <1>6, <1>8, <1>11, <1>16 DEF Good, V
<1>19. QED BY <1>18 DEF U, u

-----------------------------------------------------------------------------
(* The series is the one that BucketSeries states                          *)

Greatest(S) == CHOOSE x \in S : \A y \in S : y <= x
Least(S)    == CHOOSE x \in S : \A y \in S : x <= y

CandleIn(items, n, b) ==
  LET own == PlacesIn(items, n, b)
  IN  [time |-> StartIn(n, b), open |-> items[Least(own)].open,
       close |-> items[Greatest(own)].close,
       high |-> Greatest({items[i].high : i \in own}),
       low |-> Least({items[i].low : i \in own}), volume |-> VolumeIn(items, n, b)]

FillerIn(items, n, b) ==
  LET last  == Greatest({i \in DOMAIN items : NumberIn(items[i].time, b) < n})
      prev  == NumberIn(items[last].time, b)
      price == items[last].close
  IN  [time |-> StartIn(prev, b) + (n - prev) * b, open |-> price, close |-> price,
       high |-> price, low |-> price, volume |-> 0]

CoverIn(items, b, f) ==
  IF f THEN Least(NumbersIn(items, b)) .. Greatest(NumbersIn(items, b)) ELSE NumbersIn(items, b)

NthOf(S, j) == CHOOSE n \in AtRank(S, j) : TRUE

SeriesIn(items, b, f) ==
  [j \in 1 .. Cardinality(CoverIn(items, b, f)) |->
     LET n == NthOf(CoverIn(items, b, f), j)
     IN  IF n \in NumbersIn(items, b) THEN CandleIn(items, n, b) ELSE FillerIn(items, n, b)]

(* The greatest number is the one no other is above. *)
LEMMA GreatestIs ==
  ASSUME NEW S, NEW x, x \in S, S \subseteq Int, \A y \in S : y <= x
  PROVE  Greatest(S) = x
<1> DEFINE g == Greatest(S)
<1>1. g \in S /\ \A y \in S : y <= g
  BY DEF Greatest
<1> HIDE DEF g
<1>2. g <= x /\ x <= g /\ g \in Int /\ x \in Int
  BY <1>1
<1>3. g = x
  BY <1>2
<1>4. QED BY <1>3 DEF g

(* The least number is the one no other is below. *)
LEMMA LeastIs ==
  ASSUME NEW S, NEW x, x \in S, S \subseteq Int, \A y \in S : x <= y
  PROVE  Least(S) = x
<1> DEFINE g == Least(S)
<1>1. g \in S /\ \A y \in S : g <= y
  BY DEF Least
<1> HIDE DEF g
<1>2. g <= x /\ x <= g /\ g \in Int /\ x \in Int
  BY <1>1
<1>3. g = x
  BY <1>2
<1>4. QED BY <1>3 DEF g

(* A bucket has one candle only. *)
LEMMA SameCandle ==
  ASSUME NEW T \in Seq(Item), NEW n, NEW b, NEW c, IsCandle(c, T, n, b)
  PROVE  c = CandleIn(T, n, b)
<1> DEFINE own == PlacesIn(T, n, b)
<1>1. own \subseteq Int /\ own \subseteq 1 .. Len(T)
  <2>1. own \subseteq 1 .. Len(T)
    BY DEF PlacesIn
  <2> HIDE DEF own
  <2>2. QED BY <2>1
<1>2. /\ c \in Item /\ c.time = StartIn(n, b) /\ c.volume = VolumeIn(T, n, b)
      /\ Opens(c, T, own) /\ Shuts(c, T, own) /\ Tops(c, T, own) /\ Bottoms(c, T, own)
  BY DEF IsCandle
<1>3. CandleIn(T, n, b) =
        [time |-> StartIn(n, b), open |-> T[Least(own)].open, close |-> T[Greatest(own)].close,
         high |-> Greatest({T[i].high : i \in own}), low |-> Least({T[i].low : i \in own}),
         volume |-> VolumeIn(T, n, b)]
  BY DEF CandleIn
<1> HIDE DEF own
<1>4. \A i \in own : T[i].high \in Int /\ T[i].low \in Int
  <2>1. \A i \in own : T[i] \in Item
    BY <1>1
  <2>2. QED BY <2>1, ItemParts
<1>5. c.open = T[Least(own)].open
  <2>1. PICK i \in own : c.open = T[i].open /\ \A j \in own : i <= j
    BY <1>2 DEF Opens
  <2>2. Least(own) = i
    BY <1>1, <2>1, LeastIs
  <2>3. QED BY <2>1, <2>2
<1>6. c.close = T[Greatest(own)].close
  <2>1. PICK i \in own : c.close = T[i].close /\ \A j \in own : j <= i
    BY <1>2 DEF Shuts
  <2>2. Greatest(own) = i
    BY <1>1, <2>1, GreatestIs
  <2>3. QED BY <2>1, <2>2
<1>7. c.high = Greatest({T[i].high : i \in own})
  <2> DEFINE H == {T[i].high : i \in own}
             h == c.high
  <2>1. h \in H /\ H \subseteq Int /\ \A y \in H : y <= h
    BY <1>2, <1>4 DEF Tops
  <2> HIDE DEF H, h
  <2>2. Greatest(H) = h
    BY <2>1, GreatestIs
  <2>3. QED BY <2>2 DEF H, h
<1>8. c.low = Least({T[i].low : i \in own})
  <2> DEFINE H == {T[i].low : i \in own}
             h == c.low
  <2>1. h \in H /\ H \subseteq Int /\ \A y \in H : h <= y
    BY <1>2, <1>4 DEF Bottoms
  <2> HIDE DEF H, h
  <2>2. Least(H) = h
    BY <2>1, LeastIs
  <2>3. QED BY <2>2 DEF H, h
<1>9. c = [time |-> c.time, open |-> c.open, close |-> c.close, high |-> c.high, low |-> c.low,
           volume |-> c.volume]
  BY <1>2 DEF Item
<1>10. QED BY <1>2, <1>3, <1>5, <1>6, <1>7, <1>8, <1>9

(* An empty bucket between two others has one candle only. *)
LEMMA SameFiller ==
  ASSUME NEW T \in Seq(Item), NEW n, NEW b, NEW c, IsFiller(c, T, n, b)
  PROVE  c = FillerIn(T, n, b)
<1> DEFINE B == {i \in DOMAIN T : NumberIn(T[i].time, b) < n}
<1>1. PICK p : Before(T, p, n, b) /\ c = FlatAfter(T[p], n, b)
  BY DEF IsFiller
<1>2. p \in B /\ B \subseteq Int /\ \A i \in B : i <= p
  BY <1>1 DEF Before
<1>3. FillerIn(T, n, b) =
        [time |-> StartIn(NumberIn(T[Greatest(B)].time, b), b)
                    + (n - NumberIn(T[Greatest(B)].time, b)) * b,
         open |-> T[Greatest(B)].close, close |-> T[Greatest(B)].close,
         high |-> T[Greatest(B)].close, low |-> T[Greatest(B)].close, volume |-> 0]
  BY DEF FillerIn
<1> HIDE DEF B
<1>4. Greatest(B) = p
  BY <1>2, GreatestIs
<1>5. QED BY <1>1, <1>3, <1>4 DEF FlatAfter, Flat

(* The buckets covered, as BucketSeries states them. *)
LEMMA SameCover ==
  ASSUME BarPipelineAssumption, NEW b \in Nat \ {0}, NEW f \in BOOLEAN, NEW T, Items(T, b)
  PROVE  CoverIn(T, b, f) = Covered(T, b, f)
<1> DEFINE N == NumbersIn(T, b)
           l == LastNumber(T, b)
           a == NumberIn(T[1].time, b)
<1>1. T \in Seq(Item) /\ Len(T) > 0 /\ InOrder(T, b)
  BY DEF Items
<1>2. \A n \in N : \E i \in 1 .. Len(T) : n = NumberIn(T[i].time, b)
  BY <1>1 DEF NumbersIn
<1>3. \A i \in 1 .. Len(T) : /\ NumberIn(T[i].time, b) \in N /\ NumberIn(T[i].time, b) \in Int
                             /\ a <= NumberIn(T[i].time, b) /\ NumberIn(T[i].time, b) <= l
  <2> SUFFICES ASSUME NEW i \in 1 .. Len(T)
               PROVE  /\ NumberIn(T[i].time, b) \in N /\ NumberIn(T[i].time, b) \in Int
                      /\ a <= NumberIn(T[i].time, b) /\ NumberIn(T[i].time, b) <= l
    OBVIOUS
  <2>1. 1 \in 1 .. Len(T) /\ 1 <= i /\ i <= Len(T) /\ Len(T) \in 1 .. Len(T)
    BY <1>1
  <2>2. a <= NumberIn(T[i].time, b)
    BY <1>1, <2>1 DEF InOrder
  <2>3. NumberIn(T[i].time, b) <= l
    BY <1>1, <2>1 DEF InOrder, LastNumber
  <2>4. NumberIn(T[i].time, b) \in Int
    BY <1>1, ItemNumbers
  <2>5. NumberIn(T[i].time, b) \in N
    BY <1>1 DEF NumbersIn
  <2>6. QED BY <2>2, <2>3, <2>4, <2>5
<1>4. a \in N /\ l \in N /\ N \subseteq Int /\ \A n \in N : a <= n /\ n <= l
  <2>1. 1 \in 1 .. Len(T) /\ Len(T) \in 1 .. Len(T)
    BY <1>1
  <2>2. a \in N /\ l \in N
    BY <1>3, <2>1 DEF LastNumber
  <2> HIDE DEF N, a, l
  <2>3. QED BY <1>2, <1>3, <2>2
<1>5. CoverIn(T, b, f) = IF f THEN Least(N) .. Greatest(N) ELSE N
  BY DEF CoverIn
<1>6. Covered(T, b, f) = IF f THEN a .. l ELSE N
  BY DEF Covered
<1> HIDE DEF N, a, l
<1>7. Least(N) = a /\ Greatest(N) = l
  BY <1>4, LeastIs, GreatestIs
<1>8. QED BY <1>5, <1>6, <1>7

(* Such candles are the series of the items. *)
LEMMA GoodIsSeries ==
  ASSUME BarPipelineAssumption, NEW b \in Nat \ {0}, NEW f \in BOOLEAN, NEW T, NEW s,
         Good(T, s, b, f)
  PROVE  s = SeriesIn(T, b, f)
<1> DEFINE S == Covered(T, b, f)
           D(n) == IF n \in NumbersIn(T, b) THEN CandleIn(T, n, b) ELSE FillerIn(T, n, b)
<1>1. /\ Items(T, b) /\ s \in Seq(Item) /\ Len(s) = Cardinality(S) /\ T \in Seq(Item)
      /\ \A j \in 1 .. Len(s) : \E n : AtRank(S, j) = {n} /\ OfBucket(s[j], T, n, b)
  BY DEF Good, Items
<1>2. CoverIn(T, b, f) = S
  BY <1>1, SameCover
<1>3. SeriesIn(T, b, f) = [j \in 1 .. Cardinality(S) |-> D(NthOf(S, j))]
  BY <1>2 DEF SeriesIn
<1> HIDE DEF S
<1>4. ASSUME NEW j \in 1 .. Len(s) PROVE s[j] = D(NthOf(S, j))
  <2>1. PICK n : AtRank(S, j) = {n} /\ OfBucket(s[j], T, n, b)
    BY <1>1
  <2>2. NthOf(S, j) = n
    BY <2>1 DEF NthOf
  <2>3. CASE n \in NumbersIn(T, b)
    <3>1. IsCandle(s[j], T, n, b)
      BY <2>1, <2>3 DEF OfBucket
    <3>2. s[j] = CandleIn(T, n, b)
      BY <1>1, <3>1, SameCandle
    <3>3. QED BY <2>2, <2>3, <3>2
  <2>4. CASE n \notin NumbersIn(T, b)
    <3>1. IsFiller(s[j], T, n, b)
      BY <2>1, <2>4 DEF OfBucket
    <3>2. s[j] = FillerIn(T, n, b)
      BY <1>1, <3>1, SameFiller
    <3>3. QED BY <2>2, <2>4, <3>2
  <2>5. QED BY <2>3, <2>4
<1> HIDE DEF D
<1>5. s = [j \in 1 .. Len(s) |-> s[j]]
  BY <1>1
<1>6. s = [j \in 1 .. Len(s) |-> D(NthOf(S, j))]
  BY <1>4, <1>5
<1>7. QED BY <1>1, <1>3, <1>6

-----------------------------------------------------------------------------
(* A stage with an open bar                                                *)

(* What a stage with an open bar, as the candle c, has made of its items. *)
Running(items, closed, c, b, f) ==
  closed \in Seq(Item) /\ c \in Item /\ Good(items, Append(closed, c), b, f)

(* An item that push accepts, of the bar's bucket or of a later one. *)
Joins(c, c1, closed, closed1, x, b) ==
  /\ Floor(x.time, b) = c.time
  /\ c1 = Absorbed(c, x) /\ closed1 = closed

Fillings(c, x, b, f) == IF f THEN FlatCandles(c, Floor(x.time, b), b) ELSE <<>>

OpensNext(c, c1, closed, closed1, x, b, f) ==
  /\ c.time < Floor(x.time, b) /\ c.volume <= MaxVolume
  /\ f => ~FillRefused(c, Floor(x.time, b), b)
  /\ c1 = Fresh(x, b)
  /\ closed1 = closed \o (<<c>> \o Fillings(c, x, b, f))

(* What the series promises of it. *)
Taken(items, closed1, x, b, f) ==
  /\ NumberIn(x.time, b) >= LastNumber(items, b)
  /\ NumberIn(x.time, b) > LastNumber(items, b) =>
       /\ VolumeIn(items, LastNumber(items, b), b) <= MaxVolume
       /\ items[Len(items)].time <= x.time
  /\ closed1 = Front(SeriesIn(Append(items, x), b, f))

(* The last item of a sequence, and those before it. *)
LEMMA AppendFacts ==
  ASSUME NEW s \in Seq(Item), NEW c \in Item
  PROVE  /\ Append(s, c) \in Seq(Item) /\ Len(Append(s, c)) = Len(s) + 1
         /\ Append(s, c)[Len(s) + 1] = c /\ Len(s) \in Nat
         /\ Front(Append(s, c)) = s
         /\ \A d \in Item : Replaced(Append(s, c), d) = Append(s, d)
<1> DEFINE u == Append(s, c)
<1>1. /\ u \in Seq(Item) /\ Len(u) = Len(s) + 1 /\ u[Len(s) + 1] = c /\ Len(s) \in Nat
      /\ \A j \in 1 .. Len(s) : u[j] = s[j]
  OBVIOUS
<1>2. ASSUME NEW d \in Item PROVE Replaced(u, d) = Append(s, d)
  <2>1. Append(s, d) = [j \in 1 .. Len(s) + 1 |-> IF j = Len(s) + 1 THEN d ELSE s[j]]
    <3> DEFINE v == Append(s, d)
    <3>1. /\ v \in Seq(Item) /\ Len(v) = Len(s) + 1 /\ v[Len(s) + 1] = d
          /\ \A j \in 1 .. Len(s) : v[j] = s[j]
      OBVIOUS
    <3> HIDE DEF v
    <3>2. v = [j \in 1 .. Len(s) + 1 |-> v[j]]
      BY <3>1
    <3>3. \A j \in 1 .. Len(s) + 1 : v[j] = IF j = Len(s) + 1 THEN d ELSE s[j]
      BY <3>1
    <3>4. QED BY <3>2, <3>3 DEF v
  <2>2. Replaced(u, d) = [j \in 1 .. Len(s) + 1 |-> IF j = Len(s) + 1 THEN d ELSE u[j]]
    BY <1>1 DEF Replaced
  <2> HIDE DEF u
  <2>3. \A j \in 1 .. Len(s) + 1 : j # Len(s) + 1 => u[j] = s[j]
    BY <1>1
  <2>4. QED BY <2>1, <2>2, <2>3
<1>3. Front(u) = s
  <2>1. Front(u) = [j \in 1 .. Len(s) |-> u[j]]
    <3> HIDE DEF u
    <3>1. Len(u) - 1 = Len(s)
      BY <1>1
    <3>2. QED BY <1>1, <3>1 DEF Front
  <2> HIDE DEF u
  <2>2. s = [j \in 1 .. Len(s) |-> s[j]]
    OBVIOUS
  <2>3. QED BY <1>1, <2>1, <2>2
<1>4. QED BY <1>1, <1>2, <1>3

(* What a stage with an open bar knows of its series. *)
LEMMA RunningFacts ==
  ASSUME BarPipelineAssumption, NEW b \in Nat \ {0}, NEW f \in BOOLEAN, NEW items, NEW closed,
         NEW c, Running(items, closed, c, b, f), NEW l, l = LastNumber(items, b)
  PROVE  /\ Items(items, b) /\ items \in Seq(Item) /\ Len(items) > 0 /\ l \in Int
         /\ items[Len(items)].time \in Clock
         /\ c.time = StartIn(l, b) /\ c.volume = VolumeIn(items, l, b)
         /\ c.close = items[Len(items)].close
         /\ SeriesIn(items, b, f) = Append(closed, c)
         /\ closed = Front(SeriesIn(items, b, f))
<1> DEFINE s == Append(closed, c)
<1>1. Good(items, s, b, f) /\ closed \in Seq(Item) /\ c \in Item
  BY DEF Running
<1>2. s[Len(s)] = c /\ Front(s) = closed
  BY <1>1, AppendFacts
<1> HIDE DEF s
<1>3. IsCandle(s[Len(s)], items, l, b) /\ s[Len(s)].close = items[Len(items)].close
  BY <1>1, GoodLast
<1>4. Items(items, b) /\ items \in Seq(Item) /\ Len(items) > 0
  BY <1>1 DEF Good, Items
<1>5. l \in Int
  BY <1>4, CoverFacts DEF LastNumber
<1>6. items[Len(items)].time \in Clock
  <2>1. Len(items) \in 1 .. Len(items)
    BY <1>4
  <2>2. QED BY <1>4, <2>1, ItemNumbers
<1>7. s = SeriesIn(items, b, f)
  BY <1>1, GoodIsSeries
<1>8. c.time = StartIn(l, b) /\ c.volume = VolumeIn(items, l, b)
  BY <1>2, <1>3 DEF IsCandle
<1>9. QED BY <1>2, <1>3, <1>4, <1>5, <1>6, <1>7, <1>8 DEF s

(* The first item opens the bar of its bucket. *)
LEMMA RunningBegins ==
  ASSUME BarPipelineAssumption, NEW b \in Nat \ {0}, NEW f \in BOOLEAN, NEW x \in Item
  PROVE  Running(<<x>>, <<>>, Fresh(x, b), b, f)
<1> DEFINE y == Fresh(x, b)
<1>1. y \in Item
  BY FreshItem
<1>2. Good(<<x>>, <<y>>, b, f)
  BY GoodFirst
<1> HIDE DEF y
<1>3. Append(<<>>, y) = <<y>> /\ <<>> \in Seq(Item)
  OBVIOUS
<1>4. Running(<<x>>, <<>>, y, b, f)
  BY <1>1, <1>2, <1>3 DEF Running
<1>5. QED BY <1>4 DEF y

(* The bar's time says which bucket an item is of. *)
LEMMA WhichBucket ==
  ASSUME BarPipelineAssumption, NEW b \in Nat \ {0}, NEW t \in Clock, NEW u \in Clock,
         NEW n, n = NumberIn(t, b), NEW m, m = NumberIn(u, b)
  PROVE  /\ Floor(u, b) = StartIn(m, b) /\ n \in Int /\ m \in Int
         /\ Floor(u, b) = StartIn(n, b) => m = n
         /\ StartIn(n, b) < Floor(u, b) => n < m /\ t <= u
<1>1. /\ n \in Int /\ m \in Int /\ t \in Int /\ u \in Int
      /\ n * b <= t /\ t < n * b + b /\ m * b <= u /\ u < m * b + b
  <2>1. t \in Int /\ u \in Int
    BY DEF Clock, BarPipelineAssumption
  <2>2. QED BY <2>1, NumberFacts
<1>2. Floor(u, b) = StartIn(m, b) /\ StartIn(m, b) \in Int /\ StartIn(n, b) \in Int
  <2>1. StartIn(m, b) \in Clock /\ StartIn(n, b) \in Clock /\ Floor(u, b) = StartIn(m, b)
    BY StartFacts
  <2>2. QED BY <2>1 DEF Clock, BarPipelineAssumption
<1> DEFINE p == StartIn(n, b)
           q == StartIn(m, b)
<1>3. n < m => p < q
  BY StartsOrdered
<1>4. m < n => q < p
  BY StartsOrdered
<1>5. u < t => m <= n
  BY <1>1, NumbersOrdered
<1>6. p \in Int /\ q \in Int
  BY <1>2
<1>7. n = m => p = q
  OBVIOUS
<1> HIDE DEF p, q
<1>8. (q = p => m = n) /\ (p < q => n < m /\ t <= u)
  BY <1>1, <1>3, <1>4, <1>5, <1>6, <1>7
<1>9. QED BY <1>1, <1>2, <1>8 DEF p, q

(* An item of the open bar's bucket is a step of the series. *)
LEMMA RunningJoins ==
  ASSUME BarPipelineAssumption, NEW b \in Nat \ {0}, NEW f \in BOOLEAN, NEW items, NEW closed,
         NEW c, Running(items, closed, c, b, f), NEW x \in Item, NEW c1, NEW closed1,
         Joins(c, c1, closed, closed1, x, b)
  PROVE  /\ Running(Append(items, x), closed1, c1, b, f)
         /\ Taken(items, closed1, x, b, f)
<1> DEFINE l == LastNumber(items, b)
           m == NumberIn(x.time, b)
           s == Append(closed, c)
           z == items[Len(items)].time
<1>1. Good(items, s, b, f) /\ closed \in Seq(Item) /\ c \in Item
  BY DEF Running
<1>2. s[Len(s)] = c /\ \A d \in Item : Replaced(s, d) = Append(closed, d)
  BY <1>1, AppendFacts
<1>3. c.time = StartIn(l, b) /\ z \in Clock /\ x.time \in Clock /\ l = NumberIn(z, b)
  BY RunningFacts, ItemParts DEF LastNumber
<1>4. m = l /\ m \in Int
  <2>1. Floor(x.time, b) = StartIn(l, b)
    BY <1>3 DEF Joins
  <2> HIDE DEF l, z
  <2>2. QED BY <1>3, <2>1, WhichBucket
<1>5. Good(Append(items, x), Replaced(s, Absorbed(s[Len(s)], x)), b, f)
  <2> HIDE DEF s
  <2>1. QED BY <1>1, <1>4, GoodAbsorbs
<1>6. c1 \in Item
  BY <1>1, AbsorbedItem DEF Joins
<1>7. Running(Append(items, x), closed1, c1, b, f)
  <2>1. c1 = Absorbed(s[Len(s)], x) /\ closed1 = closed
    BY <1>2 DEF Joins
  <2>2. Replaced(s, c1) = Append(closed1, c1)
    BY <1>2, <1>6, <2>1
  <2>3. Good(Append(items, x), Append(closed1, c1), b, f)
    BY <1>5, <2>1, <2>2
  <2>4. QED BY <1>1, <1>6, <2>1, <2>3 DEF Running
<1>8. closed1 = Front(SeriesIn(Append(items, x), b, f))
  BY <1>7, RunningFacts
<1>9. m >= l /\ ~(m > l)
  <2> HIDE DEF m, l
  <2>1. QED BY <1>4
<1>10. QED BY <1>7, <1>8, <1>9 DEF Taken

(* An item of a later bucket is a step of the series, gap and all. *)
LEMMA RunningOpens ==
  ASSUME BarPipelineAssumption, NEW b \in Spans, NEW f \in BOOLEAN, NEW items, NEW closed,
         NEW c, Running(items, closed, c, b, f), NEW x \in Item, NEW c1, NEW closed1,
         OpensNext(c, c1, closed, closed1, x, b, f)
  PROVE  /\ Running(Append(items, x), closed1, c1, b, f)
         /\ Taken(items, closed1, x, b, f)
<1> DEFINE l == LastNumber(items, b)
           m == NumberIn(x.time, b)
           s == Append(closed, c)
           z == items[Len(items)].time
           w == Between(c, l, m, b, f)
<1>0. b \in Nat \ {0}
  BY DEF BarPipelineAssumption
<1>1. Good(items, s, b, f) /\ closed \in Seq(Item) /\ c \in Item
  BY DEF Running
<1>2. s[Len(s)] = c /\ s = closed \o <<c>>
  <2>1. s[Len(s)] = c
    BY <1>1, AppendFacts
  <2>2. s = closed \o <<c>>
    BY <1>1
  <2>3. QED BY <2>1, <2>2
<1>3. /\ c.time = StartIn(l, b) /\ z \in Clock /\ x.time \in Clock /\ l = NumberIn(z, b)
      /\ c.volume = VolumeIn(items, l, b)
  BY <1>0, RunningFacts, ItemParts DEF LastNumber
<1>4. /\ l \in Int /\ m \in Int /\ l < m /\ z <= x.time /\ Floor(x.time, b) = StartIn(m, b)
  <2>1. StartIn(l, b) < Floor(x.time, b)
    BY <1>3 DEF OpensNext
  <2> HIDE DEF l, z
  <2>2. QED BY <1>0, <1>3, <2>1, WhichBucket
<1>5. w = Fillings(c, x, b, f) /\ (f => Timely(l, m, b))
  <2>1. CASE f
    <3>1. ~FillRefused(c, StartIn(m, b), b)
      BY <1>4, <2>1 DEF OpensNext
    <3>2. Fillings(c, x, b, f) = FlatCandles(c, StartIn(m, b), b)
      BY <1>4, <2>1 DEF Fillings
    <3>3. w = [k \in 1 .. m - l - 1 |-> Flat(c.close, StartIn(l, b) + k * b)]
      BY <2>1 DEF Between
    <3> DEFINE u == x.time
    <3>4. m = NumberIn(u, b) /\ u \in Clock
      BY <1>3
    <3> HIDE DEF l, m, z, w, u
    <3>5. /\ FlatCandles(c, StartIn(m, b), b) =
               [k \in 1 .. m - l - 1 |-> Flat(c.close, StartIn(l, b) + k * b)]
          /\ \A k \in 1 .. m - l - 1 : StartIn(l, b) + k * b \in Clock
      BY <1>3, <1>4, <3>1, <3>4, FlatsBetween
    <3>6. QED BY <3>2, <3>3, <3>5 DEF Timely
  <2>2. CASE ~f
    BY <2>2 DEF Between, Fillings
  <2>3. QED BY <2>1, <2>2
<1>6. Good(Append(items, x), Followed(s, l, x, b, f), b, f)
  <2> HIDE DEF s, l
  <2>1. l = LastNumber(items, b)
    BY DEF l
  <2>2. QED BY <1>0, <1>1, <1>4, <1>5, <2>1, GoodFollows
<1>7. Fresh(x, b) \in Item
  BY <1>0, FreshItem
<1>8. w \in Seq(Item)
  <2>1. CASE f
    <3>1. w = [k \in 1 .. m - l - 1 |-> Flat(c.close, StartIn(l, b) + k * b)]
      BY <2>1 DEF Between
    <3>2. \A k \in 1 .. m - l - 1 : StartIn(l, b) + k * b \in Clock
      BY <1>5, <2>1 DEF Timely
    <3>3. \A k \in 1 .. m - l - 1 : Flat(c.close, StartIn(l, b) + k * b) \in Item
      BY <1>1, <3>2, ItemParts DEF Flat, Item
    <3> HIDE DEF l, m, w
    <3>4. m - l - 1 \in Nat
      BY <1>4
    <3>5. QED BY <3>1, <3>3, <3>4
  <2>2. CASE ~f
    BY <2>2 DEF Between
  <2>3. QED BY <2>1, <2>2
<1>9. closed1 \in Seq(Item) /\ Followed(s, l, x, b, f) = Append(closed1, Fresh(x, b))
  <2> DEFINE y == Fresh(x, b)
  <2>1. Followed(s, l, x, b, f) = (s \o w) \o <<y>>
    BY <1>2 DEF Followed
  <2>2. closed1 = closed \o (<<c>> \o w)
    BY <1>5 DEF OpensNext
  <2>3. y \in Item
    BY <1>7
  <2> HIDE DEF y, w
  <2>4. closed1 = s \o w /\ closed1 \in Seq(Item)
    BY <1>1, <1>2, <1>8, <2>2
  <2>5. closed1 \o <<y>> = Append(closed1, y)
    BY <2>3, <2>4
  <2>6. QED BY <2>1, <2>4, <2>5 DEF y
<1>10. Running(Append(items, x), closed1, c1, b, f)
  <2> DEFINE y == Fresh(x, b)
  <2>1. c1 = y /\ y \in Item
    BY <1>7 DEF OpensNext
  <2>2. Good(Append(items, x), Append(closed1, y), b, f)
    BY <1>6, <1>9
  <2>3. closed1 \in Seq(Item)
    BY <1>9
  <2> HIDE DEF y
  <2>4. c1 \in Item /\ Good(Append(items, x), Append(closed1, c1), b, f)
    BY <2>1, <2>2
  <2>5. QED BY <2>3, <2>4 DEF Running
<1>11. closed1 = Front(SeriesIn(Append(items, x), b, f))
  <2> DEFINE U == Append(items, x)
             n == LastNumber(U, b)
  <2>1. Running(U, closed1, c1, b, f)
    BY <1>10
  <2> HIDE DEF U, n
  <2>2. n = LastNumber(U, b)
    BY DEF n
  <2>3. closed1 = Front(SeriesIn(U, b, f))
    BY <1>0, <2>1, <2>2, RunningFacts
  <2>4. QED BY <2>3 DEF U
<1>12. m >= l
  <2> HIDE DEF m, l
  <2>1. QED BY <1>4
<1>13. VolumeIn(items, l, b) <= MaxVolume
  BY <1>3 DEF OpensNext
<1>14. QED BY <1>4, <1>10, <1>11, <1>12, <1>13 DEF Taken

-----------------------------------------------------------------------------
(* A stage that takes ticks                                                *)

Bar == [time: Clock, last: Clock, open: Int, high: Int, low: Int, close: Int, volume: Nat]

None == [time |-> "none"]

TickItem(t) ==
  [time |-> t.time, open |-> t.price, high |-> t.price, low |-> t.price, close |-> t.price,
   volume |-> t.volume]

ItemsOf(ticks) == [i \in DOMAIN ticks |-> TickItem(ticks[i])]

TickBar(t, b) ==
  [time |-> Floor(t.time, b), last |-> t.time, open |-> t.price, high |-> t.price,
   low |-> t.price, close |-> t.price, volume |-> t.volume]

TickAbsorb(bar, t) ==
  [bar EXCEPT !.high = IF t.price > @ THEN t.price ELSE @,
              !.low = IF t.price < @ THEN t.price ELSE @,
              !.close = t.price, !.volume = @ + t.volume, !.last = t.time]

AsCandle(bar) ==
  [time |-> bar.time, open |-> bar.open, high |-> bar.high, low |-> bar.low,
   close |-> bar.close, volume |-> bar.volume]

(* Push of a tick with a bar open, and what a stage of ticks has made. *)
TickJoins(bar, bar1, closed, closed1, t, b) ==
  /\ Floor(t.time, b) = bar.time /\ bar.last <= t.time
  /\ bar1 = TickAbsorb(bar, t) /\ closed1 = closed

TickOpens(bar, bar1, closed, closed1, t, b, f) ==
  /\ bar.time < Floor(t.time, b) /\ bar.volume <= MaxVolume
  /\ f => ~FillRefused(bar, Floor(t.time, b), b)
  /\ bar1 = TickBar(t, b)
  /\ closed1 = closed \o (<<AsCandle(bar)>> \o
                            (IF f THEN FlatCandles(bar, Floor(t.time, b), b) ELSE <<>>))

OpenTicks(bar, taken, closed, b, f) ==
  /\ bar \in Bar /\ taken # <<>> /\ bar.last = taken[Len(taken)].time
  /\ Running(ItemsOf(taken), closed, AsCandle(bar), b, f)

TickState(bar, taken, closed, b, f) ==
  /\ taken \in Seq(Ticks) /\ closed \in Seq(Item)
  /\ bar # None => OpenTicks(bar, taken, closed, b, f)

(* A bar is not the absence of one. *)
LEMMA BarIsSome ==
  /\ \A bar \in Bar : bar # None
  /\ \A c \in Item : c # None
<1>1. ASSUME NEW bar \in Bar PROVE bar # None
  <2>1. "open" \in DOMAIN bar
    BY DEF Bar
  <2>2. DOMAIN None = {"time"}
    BY DEF None
  <2>3. QED BY <2>1, <2>2
<1>2. ASSUME NEW c \in Item PROVE c # None
  <2>1. "open" \in DOMAIN c
    BY DEF Item
  <2>2. DOMAIN None = {"time"}
    BY DEF None
  <2>3. QED BY <2>1, <2>2
<1>3. QED BY <1>1, <1>2

(* What a tick is made of, and the item it is. *)
LEMMA TickParts ==
  ASSUME BarPipelineAssumption, NEW t \in Ticks
  PROVE  t.time \in Clock /\ t.price \in Int /\ t.volume \in Nat /\ TickItem(t) \in Item
<1>1. t \in [time: MinTime .. MaxTime, price: Int, volume: 0 .. MaxVolume]
  BY DEF BarPipelineAssumption
<1>2. t.time \in Clock /\ t.price \in Int /\ t.volume \in Nat
  BY <1>1 DEF Clock, BarPipelineAssumption
<1>3. QED BY <1>2 DEF TickItem, Item

(* The items of ticks, one by one. *)
LEMMA ItemsOfAppend ==
  ASSUME BarPipelineAssumption, NEW ticks \in Seq(Ticks), NEW t \in Ticks
  PROVE  /\ ItemsOf(Append(ticks, t)) = Append(ItemsOf(ticks), TickItem(t))
         /\ ItemsOf(ticks) \in Seq(Item) /\ Len(ItemsOf(ticks)) = Len(ticks)
         /\ \A i \in 1 .. Len(ticks) : ItemsOf(ticks)[i] = TickItem(ticks[i])
<1>1. \A i \in 1 .. Len(ticks) : TickItem(ticks[i]) \in Item
  <2> SUFFICES ASSUME NEW i \in 1 .. Len(ticks) PROVE TickItem(ticks[i]) \in Item
    OBVIOUS
  <2>1. ticks[i] \in Ticks
    OBVIOUS
  <2>2. QED BY <2>1, TickParts
<1> DEFINE items == ItemsOf(ticks)
<1>2. Len(ticks) \in Nat /\ items = [i \in 1 .. Len(ticks) |-> TickItem(ticks[i])]
  <2>1. DOMAIN ticks = 1 .. Len(ticks) /\ Len(ticks) \in Nat
    OBVIOUS
  <2>2. QED BY <2>1 DEF ItemsOf
<1> HIDE DEF items
<1>6. items \in [1 .. Len(ticks) -> Item]
  BY <1>1, <1>2
<1>7. \A i \in 1 .. Len(ticks) : items[i] = TickItem(ticks[i])
  BY <1>2
<1>3. items \in Seq(Item) /\ Len(items) = Len(ticks)
  <2> DEFINE k == Len(ticks)
  <2>1. k \in Nat /\ items \in [1 .. k -> Item]
    BY <1>2, <1>6
  <2> HIDE DEF k
  <2>2. items \in Seq(Item) /\ Len(items) = k
    BY <2>1
  <2>3. QED BY <2>2 DEF k
<1>4. ItemsOf(Append(ticks, t)) = Append(ItemsOf(ticks), TickItem(t))
  <2> DEFINE u == ItemsOf(ticks)
             y == TickItem(t)
             v == Append(u, y)
             z == Append(ticks, t)
             k == Len(ticks)
  <2>1. u \in Seq(Item) /\ Len(u) = k /\ k \in Nat /\ y \in Item
    BY <1>3, TickParts DEF items
  <2>2. \A i \in 1 .. k : u[i] = TickItem(ticks[i])
    BY <1>7 DEF items
  <2>3. z \in Seq(Ticks) /\ Len(z) = k + 1 /\ z[k + 1] = t /\ \A i \in 1 .. k : z[i] = ticks[i]
    OBVIOUS
  <2>4. ItemsOf(z) = [i \in 1 .. k + 1 |-> TickItem(z[i])]
    <3> HIDE DEF z, k
    <3>1. DOMAIN z = 1 .. k + 1
      BY <2>3
    <3>2. QED BY <3>1 DEF ItemsOf
  <2> HIDE DEF u, z, k
  <2>5. v = [i \in 1 .. k + 1 |-> v[i]] /\ v[k + 1] = y /\ \A i \in 1 .. k : v[i] = u[i]
    <3> HIDE DEF y
    <3>1. v \in Seq(Item) /\ Len(v) = k + 1
      BY <2>1
    <3>2. v[k + 1] = y
      BY <2>1
    <3>3. \A i \in 1 .. k : v[i] = u[i]
      BY <2>1
    <3> HIDE DEF v
    <3>4. v = [i \in 1 .. k + 1 |-> v[i]]
      BY <3>1
    <3>5. QED BY <3>2, <3>3, <3>4
  <2> HIDE DEF v
  <2>6. \A i \in 1 .. k + 1 : v[i] = TickItem(z[i])
    <3> SUFFICES ASSUME NEW i \in 1 .. k + 1 PROVE v[i] = TickItem(z[i])
      OBVIOUS
    <3>1. CASE i = k + 1
      BY <2>3, <2>5, <3>1
    <3>2. CASE i # k + 1
      <4>1. i \in 1 .. k
        BY <2>1, <3>2
      <4>2. QED BY <2>2, <2>3, <2>5, <4>1
    <3>3. QED BY <3>1, <3>2
  <2>7. ItemsOf(z) = v
    BY <2>4, <2>5, <2>6
  <2>8. QED BY <2>7 DEF z, v, u
<1>5. QED BY <1>3, <1>4, <1>7 DEF items

(* A tick's own bar is the candle that its item begins (OpenBar::from_tick). *)
LEMMA TickBarFacts ==
  ASSUME BarPipelineAssumption, NEW b \in Nat \ {0}, NEW t \in Ticks
  PROVE  /\ TickBar(t, b) \in Bar /\ TickBar(t, b).last = t.time
         /\ AsCandle(TickBar(t, b)) = Fresh(TickItem(t), b)
<1>1. t.time \in Clock /\ t.price \in Int /\ t.volume \in Nat
  BY TickParts
<1> DEFINE n == NumberIn(t.time, b)
<1>2. Floor(t.time, b) = StartIn(n, b) /\ StartIn(n, b) \in Clock
  BY <1>1, StartFacts
<1>3. Fresh(TickItem(t), b) =
        [time |-> StartIn(n, b), open |-> t.price, high |-> t.price, low |-> t.price,
         close |-> t.price, volume |-> t.volume]
  BY DEF Fresh, TickItem
<1> HIDE DEF n
<1>4. TickBar(t, b) \in Bar /\ TickBar(t, b).last = t.time
  BY <1>1, <1>2 DEF TickBar, Bar
<1>5. QED BY <1>2, <1>3, <1>4 DEF TickBar, AsCandle

(* A bar absorbs a tick as its candle absorbs the item (OpenBar::absorb). *)
LEMMA TickAbsorbFacts ==
  ASSUME BarPipelineAssumption, NEW bar \in Bar, NEW t \in Ticks
  PROVE  /\ TickAbsorb(bar, t) \in Bar /\ TickAbsorb(bar, t).last = t.time
         /\ AsCandle(TickAbsorb(bar, t)) = Absorbed(AsCandle(bar), TickItem(t))
<1>1. t.time \in Clock /\ t.price \in Int /\ t.volume \in Nat
  BY TickParts
<1>2. TickAbsorb(bar, t) =
        [time |-> bar.time, last |-> t.time, open |-> bar.open,
         high |-> IF t.price > bar.high THEN t.price ELSE bar.high,
         low |-> IF t.price < bar.low THEN t.price ELSE bar.low,
         close |-> t.price, volume |-> bar.volume + t.volume]
  <2>1. bar = [time |-> bar.time, last |-> bar.last, open |-> bar.open, high |-> bar.high,
               low |-> bar.low, close |-> bar.close, volume |-> bar.volume]
    BY DEF Bar
  <2> DEFINE h == IF t.price > bar.high THEN t.price ELSE bar.high
             l == IF t.price < bar.low THEN t.price ELSE bar.low
             v == bar.volume + t.volume
  <2>2. TickAbsorb(bar, t) = [bar EXCEPT !.high = h, !.low = l, !.close = t.price,
                                         !.volume = v, !.last = t.time]
    <3>1. TickAbsorb(bar, t) =
            [bar EXCEPT !.high = IF t.price > bar.high THEN t.price ELSE bar.high,
                        !.low = IF t.price < bar.low THEN t.price ELSE bar.low,
                        !.close = t.price, !.volume = bar.volume + t.volume, !.last = t.time]
      BY DEF TickAbsorb, Bar
    <3>2. QED BY <3>1
  <2> HIDE DEF h, l, v
  <2>3. TickAbsorb(bar, t) = [time |-> bar.time, last |-> t.time, open |-> bar.open, high |-> h,
                              low |-> l, close |-> t.price, volume |-> v]
    BY <2>1, <2>2 DEF Bar
  <2>4. QED BY <2>3 DEF h, l, v
<1>3. /\ bar.time \in Clock /\ bar.open \in Int /\ bar.high \in Int /\ bar.low \in Int
      /\ bar.volume \in Nat
  BY DEF Bar
<1>4. TickAbsorb(bar, t) \in Bar
  BY <1>1, <1>2, <1>3 DEF Bar
<1>5. QED BY <1>2, <1>4 DEF AsCandle, Absorbed, TickItem

(* The first tick of a series. *)
LEMMA TickBegins ==
  ASSUME BarPipelineAssumption, NEW b \in Nat \ {0}, NEW f \in BOOLEAN, NEW t \in Ticks
  PROVE  /\ TickState(TickBar(t, b), <<t>>, <<>>, b, f)
         /\ ItemsOf(<<t>>) = <<TickItem(t)>>
<1> DEFINE bar == TickBar(t, b)
           x == TickItem(t)
           k == <<t>>
<1>1. bar \in Bar /\ bar.last = t.time /\ AsCandle(bar) = Fresh(x, b) /\ x \in Item
  BY TickBarFacts, TickParts
<1>2. ItemsOf(<<t>>) = <<x>>
  <2>1. ItemsOf(<<t>>) = [i \in {1} |-> TickItem(t)]
    BY DEF ItemsOf
  <2> HIDE DEF x
  <2>2. <<x>> = [i \in {1} |-> x]
    OBVIOUS
  <2>3. QED BY <2>1, <2>2 DEF x
<1>3. k \in Seq(Ticks) /\ k # <<>> /\ k[Len(k)] = t /\ <<>> \in Seq(Item)
  OBVIOUS
<1> HIDE DEF bar, x, k
<1>4. Running(ItemsOf(k), <<>>, AsCandle(bar), b, f)
  <2>1. Running(<<x>>, <<>>, Fresh(x, b), b, f)
    BY <1>1, RunningBegins
  <2>2. QED BY <1>1, <1>2, <2>1 DEF k
<1>5. OpenTicks(bar, k, <<>>, b, f)
  BY <1>1, <1>3, <1>4 DEF OpenTicks
<1>6. TickState(bar, k, <<>>, b, f)
  BY <1>3, <1>5 DEF TickState
<1>7. QED BY <1>2, <1>6 DEF bar, k, x

(* A later tick that push accepts. *)
LEMMA TickPushes ==
  ASSUME BarPipelineAssumption, NEW b \in Spans, NEW f \in BOOLEAN, NEW bar, NEW bar1,
         NEW taken, NEW closed, NEW closed1, TickState(bar, taken, closed, b, f), bar # None,
         NEW t \in Ticks,
         \/ TickJoins(bar, bar1, closed, closed1, t, b)
         \/ TickOpens(bar, bar1, closed, closed1, t, b, f)
  PROVE  /\ TickState(bar1, Append(taken, t), closed1, b, f) /\ bar1 # None
         /\ Taken(ItemsOf(taken), closed1, TickItem(t), b, f)
         /\ ItemsOf(Append(taken, t)) = Append(ItemsOf(taken), TickItem(t))
         /\ ItemsOf(taken)[Len(ItemsOf(taken))].time <= t.time
<1> DEFINE items == ItemsOf(taken)
           x == TickItem(t)
           c == AsCandle(bar)
           c1 == AsCandle(bar1)
           k == Append(taken, t)
<1>0. b \in Nat \ {0}
  BY DEF BarPipelineAssumption
<1>1. /\ bar \in Bar /\ taken # <<>> /\ bar.last = taken[Len(taken)].time
      /\ Running(items, closed, c, b, f) /\ taken \in Seq(Ticks)
  BY DEF TickState, OpenTicks
<1>2. c.time = bar.time /\ c.volume = bar.volume /\ c.close = bar.close
  BY DEF AsCandle
<1>3. x \in Item /\ x.time = t.time
  BY TickParts DEF TickItem
<1>4. /\ ItemsOf(k) = Append(items, x)
      /\ Len(items) = Len(taken) /\ items[Len(items)].time = taken[Len(taken)].time
  <2>1. ItemsOf(k) = Append(items, x) /\ Len(items) = Len(taken)
    BY <1>1, ItemsOfAppend
  <2>2. Len(taken) \in 1 .. Len(taken)
    BY <1>1
  <2>3. items[Len(taken)] = TickItem(taken[Len(taken)])
    BY <1>1, <2>2, ItemsOfAppend
  <2>4. QED BY <2>1, <2>3 DEF TickItem
<1>5. k \in Seq(Ticks) /\ k # <<>> /\ k[Len(k)] = t
  <2>1. taken \in Seq(Ticks) /\ t \in Ticks
    BY <1>1
  <2>2. QED BY ONLY <2>1
<1>6. /\ bar1 \in Bar /\ bar1.last = t.time /\ Running(Append(items, x), closed1, c1, b, f)
      /\ Taken(items, closed1, x, b, f) /\ items[Len(items)].time <= t.time
  <2>1. CASE TickJoins(bar, bar1, closed, closed1, t, b)
    <3>1. bar1 \in Bar /\ bar1.last = t.time /\ c1 = Absorbed(c, x)
      BY <1>1, <2>1, TickAbsorbFacts DEF TickJoins
    <3>2. Joins(c, c1, closed, closed1, x, b)
      <4> HIDE DEF c, c1, x
      <4>1. QED BY <1>2, <1>3, <2>1, <3>1 DEF Joins, TickJoins
    <3>3. items[Len(items)].time <= t.time
      BY <1>1, <1>4, <2>1 DEF TickJoins
    <3> HIDE DEF c, c1, x, items
    <3>4. QED BY <1>0, <1>1, <1>3, <3>1, <3>2, <3>3, RunningJoins
  <2>2. CASE TickOpens(bar, bar1, closed, closed1, t, b, f)
    <3>1. bar1 \in Bar /\ bar1.last = t.time /\ c1 = Fresh(x, b)
      BY <1>0, <2>2, TickBarFacts DEF TickOpens
    <3>2. ASSUME NEW next
          PROVE  /\ FillRefused(c, next, b) = FillRefused(bar, next, b)
                 /\ FlatCandles(c, next, b) = FlatCandles(bar, next, b)
      <4> HIDE DEF c
      <4>1. QED BY <1>2 DEF FillRefused, FlatCandles, IsGap
    <3>3. OpensNext(c, c1, closed, closed1, x, b, f)
      <4> HIDE DEF c1, x
      <4>1. closed1 = closed \o (<<c>> \o Fillings(c, x, b, f))
        BY <1>3, <2>2, <3>2 DEF TickOpens, Fillings
      <4>2. f => ~FillRefused(c, Floor(x.time, b), b)
        BY <1>3, <2>2, <3>2 DEF TickOpens
      <4> HIDE DEF c
      <4>3. QED BY <1>2, <1>3, <2>2, <3>1, <4>1, <4>2 DEF OpensNext, TickOpens
    <3>4. items[Len(items)].time <= t.time
      <4> DEFINE z == items[Len(items)].time
                 u == t.time
                 l == LastNumber(items, b)
                 m == NumberIn(u, b)
      <4>1. z \in Clock /\ u \in Clock /\ l = NumberIn(z, b) /\ bar.time = StartIn(l, b)
        <5>1. l = LastNumber(items, b) /\ l = NumberIn(z, b)
          BY DEF LastNumber
        <5>2. u \in Clock
          BY TickParts
        <5> HIDE DEF l, u, c, items
        <5>3. Running(items, closed, c, b, f)
          BY <1>1
        <5>4. items[Len(items)].time \in Clock /\ c.time = StartIn(LastNumber(items, b), b)
          BY ONLY BarPipelineAssumption, b \in Spans, f \in BOOLEAN, <5>3, RunningFacts
        <5>5. bar.time = StartIn(l, b)
          BY <1>2, <5>1, <5>4
        <5>6. QED BY <5>1, <5>2, <5>4, <5>5
      <4>2. StartIn(l, b) < Floor(u, b)
        BY <2>2, <4>1 DEF TickOpens
      <4>3. m = NumberIn(u, b)
        OBVIOUS
      <4> HIDE DEF z, u, l, m
      <4>4. z <= u
        BY <1>0, <4>1, <4>2, <4>3, WhichBucket
      <4>5. QED BY <4>4 DEF z, u
    <3> HIDE DEF c, c1, x, items
    <3>5. QED BY <1>1, <1>3, <3>1, <3>3, <3>4, RunningOpens
  <2>3. QED BY <2>1, <2>2
<1>7. bar1 # None /\ closed1 \in Seq(Item)
  BY <1>6, BarIsSome DEF Running
<1> HIDE DEF items, x, c, k
<1>8. OpenTicks(bar1, k, closed1, b, f)
  BY <1>4, <1>5, <1>6 DEF OpenTicks
<1>9. TickState(bar1, k, closed1, b, f)
  BY <1>5, <1>7, <1>8 DEF TickState
<1>10. QED BY <1>4, <1>6, <1>7, <1>9 DEF items, x, k

-----------------------------------------------------------------------------
(* The fine stage                                                          *)

(* A bucket's volume in the fine stage. *)
LEMMA FineVolume ==
  ASSUME NEW T, NEW n
  PROVE  Fine!Buckets!Volume(T, n) = VolumeIn(T, n, Timeframes.fine)
BY DEF Fine!Buckets!Volume, VolumeIn, Fine!Buckets!Number, NumberIn

(* BucketSeries' series in the fine stage. *)
LEMMA FineSeries ==
  ASSUME NEW T
  PROVE  Fine!Buckets!SeriesOf(T) = SeriesIn(T, Timeframes.fine, fills.fine)
<1>1. ASSUME NEW n PROVE Fine!Buckets!Places(T, n) = PlacesIn(T, n, Timeframes.fine)
  BY DEF Fine!Buckets!Places, PlacesIn, Fine!Buckets!Number, NumberIn
<1>2. ASSUME NEW n PROVE Fine!Buckets!Start(n) = StartIn(n, Timeframes.fine)
  BY DEF Fine!Buckets!Start, StartIn
<1>3. ASSUME NEW S PROVE Fine!Buckets!Smallest(S) = Least(S) /\ Fine!Buckets!Largest(S) = Greatest(S)
  BY DEF Fine!Buckets!Smallest, Fine!Buckets!Largest, Least, Greatest
<1>4. ASSUME NEW n PROVE Fine!Buckets!Candle(T, n) = CandleIn(T, n, Timeframes.fine)
  BY <1>1, <1>2, <1>3, FineVolume DEF Fine!Buckets!Candle, CandleIn
<1>5. Fine!Buckets!Numbers(T) = NumbersIn(T, Timeframes.fine)
  BY DEF Fine!Buckets!Numbers, NumbersIn, Fine!Buckets!Number, NumberIn
<1>6. ASSUME NEW S, NEW j PROVE Fine!Buckets!Nth(S, j) = NthOf(S, j)
  BY DEF Fine!Buckets!Nth, NthOf, Fine!Buckets!AtRank, AtRank, Fine!Buckets!Cardinality, Cardinality
<1>7. Fine!Buckets!Cover(T) = CoverIn(T, Timeframes.fine, fills.fine)
  BY <1>3, <1>5 DEF Fine!Buckets!Cover, CoverIn
<1>8. ASSUME NEW n PROVE Fine!Buckets!Filler(T, n) = FillerIn(T, n, Timeframes.fine)
  BY <1>3 DEF Fine!Buckets!Filler, FillerIn, Fine!Buckets!Number, NumberIn, Fine!Buckets!Start, StartIn
<1>9. QED
  BY <1>4, <1>5, <1>6, <1>7, <1>8
     DEF Fine!Buckets!SeriesOf, SeriesIn, Fine!Buckets!Cardinality, Cardinality

(* The first time of a bucket in the fine stage. *)
LEMMA FineClock ==
  /\ \A t, b : Fine!Floor(t, b) = Floor(t, b)
  /\ \A p, t, b : Fine!FillRefused(p, t, b) = FillRefused(p, t, b)
  /\ \A p, t, b : Fine!FlatCandles(p, t, b) = FlatCandles(p, t, b)
<1>1. \A a, b : /\ Fine!SaturatingSub(a, b) = SaturatingSub(a, b)
                /\ Fine!SaturatingAdd(a, b) = SaturatingAdd(a, b)
  BY DEF Fine!SaturatingSub, SaturatingSub, Fine!SaturatingAdd, SaturatingAdd
<1>2. \A s, n, b : Fine!GapCount(s, n, b) = GapCount(s, n, b)
  BY <1>1 DEF Fine!GapCount, GapCount
<1>3. \A p, n, b : Fine!IsGap(p, n, b) = IsGap(p, n, b)
  BY DEF Fine!IsGap, IsGap
<1>4. \A t, b : Fine!Floor(t, b) = Floor(t, b)
  BY <1>1 DEF Fine!Floor, Floor
<1>5. \A p, t, b : Fine!FillRefused(p, t, b) = FillRefused(p, t, b)
  BY <1>2, <1>3 DEF Fine!FillRefused, FillRefused
<1>6. ASSUME NEW p, NEW t, NEW b PROVE Fine!FlatCandles(p, t, b) = FlatCandles(p, t, b)
  <2> DEFINE g == GapCount(p.time + b, t, b)
             d(n) == Flat(p.close, SaturatingAdd(p.time, n * b))
  <2>1. Fine!FlatCandles(p, t, b) = IF ~IsGap(p, t, b) THEN <<>> ELSE [n \in 1 .. g |-> d(n)]
    <3>1. \A n : Fine!Flat(p.close, Fine!SaturatingAdd(p.time, n * b)) = d(n)
      BY <1>1 DEF Fine!Flat, Flat
    <3> HIDE DEF d
    <3>2. QED BY <1>2, <1>3, <3>1 DEF Fine!FlatCandles
  <2>2. FlatCandles(p, t, b) = IF ~IsGap(p, t, b) THEN <<>> ELSE [n \in 1 .. g |-> d(n)]
    BY DEF FlatCandles
  <2>3. QED BY <2>1, <2>2
<1>7. QED BY <1>4, <1>5, <1>6

FillsAre == fills \in [fine: BOOLEAN, coarse: BOOLEAN]

(* The lengths of the buckets are positive. *)
LEMMA SpansAre ==
  ASSUME BarPipelineAssumption
  PROVE  /\ Timeframes.fine \in Spans /\ Timeframes.coarse \in Spans
         /\ Timeframes.fine \in Nat \ {0} /\ Timeframes.coarse \in Nat \ {0}
<1>1. Timeframes.fine \in Spans /\ Timeframes.coarse \in Spans
  BY DEF Spans
<1>2. \A b \in Spans : b \in Nat \ {0}
  BY DEF BarPipelineAssumption
<1>3. QED BY <1>1, <1>2

FineState == TickState(fineBar, fineTaken, fineClosed, Timeframes.fine, fills.fine)

(* What the fine stage's operators stand for. *)
LEMMA FineMeans ==
  /\ Fine!NoBar = None
  /\ \A t : Fine!AsItem(t) = TickItem(t) /\ Fine!FromTick(t) = TickBar(t, Timeframes.fine)
            /\ Fine!Absorb(t) = TickAbsorb(fineBar, t)
  /\ \A bar : Fine!IntoCandle(bar) = AsCandle(bar) /\ (Fine!Finite(bar) <=> bar.volume <= MaxVolume)
BY FineClock DEF Fine!NoBar, None, Fine!AsItem, TickItem, Fine!FromTick, TickBar, Fine!Absorb, TickAbsorb,
              Fine!IntoCandle, AsCandle, Fine!Finite

(* What the fine stage accepts is a step of its series. *)
LEMMA FinePushed ==
  ASSUME BarPipelineAssumption, FillsAre, NEW t \in Ticks, FineState, Fine!Push(t), UNCHANGED fills
  PROVE  FineState' /\ Fine!Buckets!Next
<1> DEFINE b == Timeframes.fine
           f == fills.fine
           x == TickItem(t)
           items == ItemsOf(fineTaken)
           next == Floor(t.time, b)
<1>1. b \in Spans /\ b \in Nat \ {0} /\ f \in BOOLEAN /\ fills.fine' = f
  BY SpansAre DEF FillsAre
<1>2. x \in {Fine!AsItem(u) : u \in Ticks} /\ x = Fine!AsItem(t)
  BY FineMeans
<1>3. CASE fineBar = None
  <2>1. fineBar' = TickBar(t, b) /\ fineTaken' = <<t>> /\ fineClosed' = <<>>
    BY <1>3, FineMeans DEF Fine!Push
  <2>2. TickState(TickBar(t, b), <<t>>, <<>>, b, f) /\ ItemsOf(<<t>>) = <<x>>
    BY <1>1, TickBegins
  <2>3. FineState' /\ ItemsOf(fineTaken') = <<x>>
    BY <1>1, <2>1, <2>2 DEF FineState
  <2>4. fineBar' # None
    BY <1>1, <2>1, TickBarFacts, BarIsSome
  <2>5. Fine!Buckets!Begin(x)
    <3> HIDE DEF x
    <3>1. [i \in DOMAIN fineTaken' |-> Fine!AsItem(fineTaken'[i])] = <<x>>
      BY <2>3, FineMeans DEF ItemsOf
    <3>2. QED BY <1>3, <2>1, <2>4, <3>1, FineMeans DEF Fine!Buckets!Begin
  <2>6. QED BY <1>2, <2>3, <2>5 DEF Fine!Buckets!Next
<1>4. CASE fineBar # None
  <2>1. fineBar \in Bar /\ fineTaken \in Seq(Ticks) /\ fineClosed \in Seq(Item)
    BY <1>4 DEF FineState, TickState, OpenTicks
  <2>2. /\ next \in Int /\ fineBar.time \in Int /\ fineBar.last \in Int /\ t.time \in Int
    <3>1. t.time \in Clock
      BY TickParts
    <3>2. next \in Clock
      BY <1>1, <3>1, StartFacts
    <3>3. QED BY <2>1, <3>1, <3>2 DEF Bar, Clock, BarPipelineAssumption
  <2>3. /\ fineTaken' = Append(fineTaken, t)
        /\ \/ TickJoins(fineBar, fineBar', fineClosed, fineClosed', t, b)
           \/ TickOpens(fineBar, fineBar', fineClosed, fineClosed', t, b, f)
    <3>1. /\ ~(next = fineBar.time /\ t.time < fineBar.last)
          /\ ~(next > fineBar.time /\ (~(fineBar.volume <= MaxVolume) \/ (f /\ FillRefused(fineBar, next, b))))
      BY <1>4, FineMeans, FineClock DEF Fine!Push, Fine!Refused
    <3>2. CASE next = fineBar.time /\ fineBar' = TickAbsorb(fineBar, t) /\ fineTaken' = Append(fineTaken, t) /\ fineClosed' = fineClosed
      <4>1. fineBar.last <= t.time
        BY <2>2, <3>1, <3>2
      <4>2. QED BY <3>2, <4>1 DEF TickJoins
    <3>3. CASE next > fineBar.time /\ fineBar' = TickBar(t, b) /\ fineTaken' = Append(fineTaken, t)
               /\ fineClosed' = fineClosed \o Fine!Closes(next)
      <4>1. Fine!Closes(next) = <<AsCandle(fineBar)>> \o (IF f THEN FlatCandles(fineBar, next, b) ELSE <<>>)
        BY FineMeans, FineClock DEF Fine!Closes
      <4>2. fineBar.time < next /\ fineBar.volume <= MaxVolume /\ (f => ~FillRefused(fineBar, next, b))
        <5> HIDE DEF next
        <5>1. fineBar.time < next
          BY <2>2, <3>3
        <5>2. QED BY <3>1, <3>3, <5>1
      <4>3. QED BY <3>3, <4>1, <4>2 DEF TickOpens
    <3>4. QED BY <1>4, <3>2, <3>3, FineMeans, FineClock DEF Fine!Push
  <2>4. /\ TickState(fineBar', Append(fineTaken, t), fineClosed', b, f) /\ fineBar' # None
        /\ Taken(items, fineClosed', x, b, f)
        /\ ItemsOf(Append(fineTaken, t)) = Append(items, x)
        /\ items[Len(items)].time <= t.time
    <3>1. TickState(fineBar, fineTaken, fineClosed, b, f)
      BY DEF FineState
    <3> DEFINE bar1 == fineBar'
               closed1 == fineClosed'
    <3>2. \/ TickJoins(fineBar, bar1, fineClosed, closed1, t, b)
          \/ TickOpens(fineBar, bar1, fineClosed, closed1, t, b, f)
      BY <2>3
    <3>3. b \in Spans /\ f \in BOOLEAN
      BY <1>1
    <3> HIDE DEF b, f, bar1, closed1
    <3>4. /\ TickState(bar1, Append(fineTaken, t), closed1, b, f) /\ bar1 # None
          /\ Taken(ItemsOf(fineTaken), closed1, TickItem(t), b, f)
          /\ ItemsOf(Append(fineTaken, t)) = Append(ItemsOf(fineTaken), TickItem(t))
          /\ ItemsOf(fineTaken)[Len(ItemsOf(fineTaken))].time <= t.time
      BY <1>4, <3>1, <3>2, <3>3, TickPushes
    <3>5. QED BY <3>4 DEF bar1, closed1
  <2>5. FineState' /\ ItemsOf(fineTaken') = Append(items, x)
    BY <1>1, <2>3, <2>4 DEF FineState
  <2>6. Fine!Buckets!Take(x)
    <3> HIDE DEF x
    <3>1. /\ [i \in DOMAIN fineTaken |-> Fine!AsItem(fineTaken[i])] = items
          /\ [i \in DOMAIN fineTaken' |-> Fine!AsItem(fineTaken'[i])] = Append(items, x)
      BY <2>5, FineMeans DEF ItemsOf
    <3> HIDE DEF items
    <3>2. fineClosed' = Fine!Buckets!Front(Fine!Buckets!SeriesOf(Append(items, x)))
      BY <2>4, FineSeries DEF Taken, Front, Fine!Buckets!Front
    <3>3. Fine!Buckets!Number(Fine!Buckets!Last(items).time) = LastNumber(items, b)
      BY DEF Fine!Buckets!Number, LastNumber, NumberIn, Fine!Buckets!Last
    <3>4. Fine!Buckets!Number(x.time) = NumberIn(x.time, b)
      BY DEF Fine!Buckets!Number, NumberIn
    <3>5. /\ NumberIn(x.time, b) >= LastNumber(items, b)
          /\ NumberIn(x.time, b) > LastNumber(items, b) =>
               Fine!Buckets!Volume(items, LastNumber(items, b)) <= MaxVolume
      BY <2>4, FineVolume DEF Taken
    <3>6. x.time >= Fine!Buckets!Last(items).time
      <4>1. x.time = t.time
        BY DEF x, TickItem
      <4>2. items[Len(items)].time \in Int
        <5>1. Running(items, fineClosed, AsCandle(fineBar), b, f)
          BY <1>4 DEF FineState, TickState, OpenTicks, items
        <5> HIDE DEF b, f
        <5>2. items[Len(items)].time \in Clock
          BY <1>1, <5>1, RunningFacts
        <5>3. QED BY <5>2 DEF Clock, BarPipelineAssumption
      <4>3. QED BY <2>2, <2>4, <4>1, <4>2 DEF Fine!Buckets!Last
    <3>7. UNCHANGED <<b, f>> /\ (fineBar' # Fine!NoBar) = (fineBar # Fine!NoBar) /\ fineBar # Fine!NoBar
      BY <1>1, <1>4, <2>4, FineMeans
    <3>8. QED BY <3>1, <3>2, <3>3, <3>4, <3>5, <3>6, <3>7 DEF Fine!Buckets!Take
  <2>7. QED BY <1>2, <2>5, <2>6 DEF Fine!Buckets!Next
<1>5. QED BY <1>3, <1>4

(* The fine stage's flush ends its series. *)
LEMMA FineFlushed ==
  ASSUME BarPipelineAssumption, FillsAre, FineState, Fine!Flush, UNCHANGED fills
  PROVE  FineState' /\ Fine!Buckets!Next
<1> DEFINE b == Timeframes.fine
           f == fills.fine
           c == AsCandle(fineBar)
           items == ItemsOf(fineTaken)
<1>1. b \in Spans /\ b \in Nat \ {0} /\ f \in BOOLEAN /\ fills.fine' = f
  BY SpansAre DEF FillsAre
<1>2. /\ fineBar # None /\ fineBar' = None /\ fineTaken' = fineTaken
      /\ fineClosed' = IF fineBar.volume <= MaxVolume THEN Append(fineClosed, c) ELSE fineClosed
  BY FineMeans DEF Fine!Flush
<1>3. /\ fineTaken \in Seq(Ticks) /\ fineClosed \in Seq(Item)
      /\ Running(items, fineClosed, c, b, f)
  BY <1>2 DEF FineState, TickState, OpenTicks
<1>4. c \in Item
  BY <1>3 DEF Running
<1>5. FineState'
  <2> HIDE DEF c
  <2>1. fineClosed' \in Seq(Item)
    BY <1>2, <1>3, <1>4
  <2>2. QED BY <1>2, <1>3, <2>1 DEF FineState, TickState
<1>6. Fine!Buckets!SeriesOf(items) = Append(fineClosed, c)
  <2> HIDE DEF b, f, c, items
  <2>1. SeriesIn(items, b, f) = Append(fineClosed, c)
    BY <1>1, <1>3, RunningFacts
  <2>2. QED BY <2>1, FineSeries DEF b, f
<1>7. Fine!Buckets!Last(Append(fineClosed, c)) = c
  <2> HIDE DEF c
  <2>1. QED BY <1>3, <1>4, AppendFacts DEF Fine!Buckets!Last
<1>8. c.volume = fineBar.volume
  BY DEF AsCandle
<1>9. [i \in DOMAIN fineTaken |-> Fine!AsItem(fineTaken[i])] = items
  BY FineMeans DEF ItemsOf
<1>10. Fine!Buckets!End
  <2> HIDE DEF c, items
  <2>1. UNCHANGED <<b, f>>
    BY <1>1
  <2>2. QED BY <1>2, <1>6, <1>7, <1>8, <1>9, <2>1, FineMeans DEF Fine!Buckets!End
<1>11. QED BY <1>5, <1>10 DEF Fine!Buckets!Next

(* The fine stage as it was is its series as it was. *)
LEMMA FineWaits ==
  ASSUME FineState, UNCHANGED fills, UNCHANGED <<fineBar, fineTaken, fineClosed>>
  PROVE  FineState' /\ UNCHANGED Fine!Buckets!vars
BY DEF FineState, Fine!Buckets!vars

(* The fine stage starts without a series. *)
LEMMA FineBegins ==
  ASSUME Fine!Init
  PROVE  FineState /\ Fine!Buckets!Init
<1>1. fineBar = None /\ fineTaken = <<>> /\ fineClosed = <<>>
  BY FineMeans DEF Fine!Init
<1>2. FineState
  BY <1>1 DEF FineState, TickState
<1>3. [i \in DOMAIN fineTaken |-> Fine!AsItem(fineTaken[i])] = <<>>
  BY <1>1
<1>4. Fine!Buckets!Init
  BY <1>1, <1>3, FineMeans DEF Fine!Buckets!Init
<1>5. QED BY <1>2, <1>4

-----------------------------------------------------------------------------
(* The stage that rolls up                                                 *)

(* A bucket's volume in the resampling stage. *)
LEMMA RolledVolume ==
  ASSUME NEW T, NEW n
  PROVE  Rolled!Buckets!Volume(T, n) = VolumeIn(T, n, Timeframes.coarse)
BY DEF Rolled!Buckets!Volume, VolumeIn, Rolled!Buckets!Number, NumberIn

(* BucketSeries' series in the resampling stage. *)
LEMMA RolledSeries ==
  ASSUME NEW T
  PROVE  Rolled!Buckets!SeriesOf(T) = SeriesIn(T, Timeframes.coarse, fills.coarse)
<1>1. ASSUME NEW n PROVE Rolled!Buckets!Places(T, n) = PlacesIn(T, n, Timeframes.coarse)
  BY DEF Rolled!Buckets!Places, PlacesIn, Rolled!Buckets!Number, NumberIn
<1>2. ASSUME NEW n PROVE Rolled!Buckets!Start(n) = StartIn(n, Timeframes.coarse)
  BY DEF Rolled!Buckets!Start, StartIn
<1>3. ASSUME NEW S PROVE Rolled!Buckets!Smallest(S) = Least(S) /\ Rolled!Buckets!Largest(S) = Greatest(S)
  BY DEF Rolled!Buckets!Smallest, Rolled!Buckets!Largest, Least, Greatest
<1>4. ASSUME NEW n PROVE Rolled!Buckets!Candle(T, n) = CandleIn(T, n, Timeframes.coarse)
  BY <1>1, <1>2, <1>3, RolledVolume DEF Rolled!Buckets!Candle, CandleIn
<1>5. Rolled!Buckets!Numbers(T) = NumbersIn(T, Timeframes.coarse)
  BY DEF Rolled!Buckets!Numbers, NumbersIn, Rolled!Buckets!Number, NumberIn
<1>6. ASSUME NEW S, NEW j PROVE Rolled!Buckets!Nth(S, j) = NthOf(S, j)
  BY DEF Rolled!Buckets!Nth, NthOf, Rolled!Buckets!AtRank, AtRank, Rolled!Buckets!Cardinality, Cardinality
<1>7. Rolled!Buckets!Cover(T) = CoverIn(T, Timeframes.coarse, fills.coarse)
  BY <1>3, <1>5 DEF Rolled!Buckets!Cover, CoverIn
<1>8. ASSUME NEW n PROVE Rolled!Buckets!Filler(T, n) = FillerIn(T, n, Timeframes.coarse)
  BY <1>3 DEF Rolled!Buckets!Filler, FillerIn, Rolled!Buckets!Number, NumberIn, Rolled!Buckets!Start, StartIn
<1>9. QED
  BY <1>4, <1>5, <1>6, <1>7, <1>8
     DEF Rolled!Buckets!SeriesOf, SeriesIn, Rolled!Buckets!Cardinality, Cardinality

(* The first time of a bucket in the resampling stage. *)
LEMMA RolledClock ==
  /\ \A t, b : Rolled!Floor(t, b) = Floor(t, b)
  /\ \A p, t, b : Rolled!FillRefused(p, t, b) = FillRefused(p, t, b)
  /\ \A p, t, b : Rolled!FlatCandles(p, t, b) = FlatCandles(p, t, b)
<1>1. \A a, b : /\ Rolled!SaturatingSub(a, b) = SaturatingSub(a, b)
                /\ Rolled!SaturatingAdd(a, b) = SaturatingAdd(a, b)
  BY DEF Rolled!SaturatingSub, SaturatingSub, Rolled!SaturatingAdd, SaturatingAdd
<1>2. \A s, n, b : Rolled!GapCount(s, n, b) = GapCount(s, n, b)
  BY <1>1 DEF Rolled!GapCount, GapCount
<1>3. \A p, n, b : Rolled!IsGap(p, n, b) = IsGap(p, n, b)
  BY DEF Rolled!IsGap, IsGap
<1>4. \A t, b : Rolled!Floor(t, b) = Floor(t, b)
  BY <1>1 DEF Rolled!Floor, Floor
<1>5. \A p, t, b : Rolled!FillRefused(p, t, b) = FillRefused(p, t, b)
  BY <1>2, <1>3 DEF Rolled!FillRefused, FillRefused
<1>6. ASSUME NEW p, NEW t, NEW b PROVE Rolled!FlatCandles(p, t, b) = FlatCandles(p, t, b)
  <2> DEFINE g == GapCount(p.time + b, t, b)
             d(n) == Flat(p.close, SaturatingAdd(p.time, n * b))
  <2>1. Rolled!FlatCandles(p, t, b) = IF ~IsGap(p, t, b) THEN <<>> ELSE [n \in 1 .. g |-> d(n)]
    <3>1. \A n : Rolled!Flat(p.close, Rolled!SaturatingAdd(p.time, n * b)) = d(n)
      BY <1>1 DEF Rolled!Flat, Flat
    <3> HIDE DEF d
    <3>2. QED BY <1>2, <1>3, <3>1 DEF Rolled!FlatCandles
  <2>2. FlatCandles(p, t, b) = IF ~IsGap(p, t, b) THEN <<>> ELSE [n \in 1 .. g |-> d(n)]
    BY DEF FlatCandles
  <2>3. QED BY <2>1, <2>2
<1>7. QED BY <1>4, <1>5, <1>6

RolledState ==
  /\ rolledTaken \in Seq(Item) /\ rolledClosed \in Seq(Item)
  /\ rolledBar # None =>
       Running(rolledTaken, rolledClosed, rolledBar, Timeframes.coarse, fills.coarse)

(* What the resampling stage's operators stand for. *)
LEMMA RolledMeans ==
  ASSUME BarPipelineAssumption
  PROVE  /\ Rolled!NoBar = None
         /\ \A c \in Item : Rolled!FromCandle(c) = Fresh(c, Timeframes.coarse)
         /\ rolledBar \in Item => \A c \in Item : Rolled!Absorb(c) = Absorbed(rolledBar, c)
         /\ \A bar : Rolled!Finite(bar) <=> bar.volume <= MaxVolume
<1> DEFINE b == Timeframes.coarse
<1>1. ASSUME NEW c \in Item PROVE Rolled!FromCandle(c) = Fresh(c, b)
  <2>1. c.time \in Clock
    BY ItemParts
  <2>2. Floor(c.time, b) = StartIn(NumberIn(c.time, b), b)
    BY <2>1, SpansAre, StartFacts
  <2>3. Rolled!FromCandle(c) = [c EXCEPT !.time = Floor(c.time, b)]
    BY RolledClock DEF Rolled!FromCandle, Item
  <2>4. c = [time |-> c.time, open |-> c.open, high |-> c.high, low |-> c.low,
             close |-> c.close, volume |-> c.volume]
    BY DEF Item
  <2> DEFINE t == Floor(c.time, b)
  <2> HIDE DEF t
  <2>5. [c EXCEPT !.time = t] = [time |-> t, open |-> c.open, high |-> c.high, low |-> c.low,
                                 close |-> c.close, volume |-> c.volume]
    BY <2>4 DEF Item
  <2>6. QED BY <2>2, <2>3, <2>5 DEF Fresh, t
<1>2. ASSUME rolledBar \in Item, NEW c \in Item
      PROVE  Rolled!Absorb(c) = Absorbed(rolledBar, c)
  <2> DEFINE h == IF c.high > rolledBar.high THEN c.high ELSE rolledBar.high
             l == IF c.low < rolledBar.low THEN c.low ELSE rolledBar.low
             v == rolledBar.volume + c.volume
  <2>1. rolledBar = [time |-> rolledBar.time, open |-> rolledBar.open, high |-> rolledBar.high,
                     low |-> rolledBar.low, close |-> rolledBar.close,
                     volume |-> rolledBar.volume]
    BY <1>2 DEF Item
  <2>2. Rolled!Absorb(c) = [rolledBar EXCEPT !.high = h, !.low = l, !.close = c.close, !.volume = v]
    <3>1. Rolled!Absorb(c) =
            [rolledBar EXCEPT !.high = IF c.high > rolledBar.high THEN c.high ELSE rolledBar.high,
                              !.low = IF c.low < rolledBar.low THEN c.low ELSE rolledBar.low,
                              !.close = c.close, !.volume = rolledBar.volume + c.volume]
      BY <1>2 DEF Rolled!Absorb, Item
    <3>2. QED BY <3>1
  <2>3. Absorbed(rolledBar, c) =
          [time |-> rolledBar.time, open |-> rolledBar.open, high |-> h, low |-> l,
           close |-> c.close, volume |-> v]
    BY DEF Absorbed
  <2> HIDE DEF h, l, v
  <2>4. Rolled!Absorb(c) =
          [time |-> rolledBar.time, open |-> rolledBar.open, high |-> h, low |-> l,
           close |-> c.close, volume |-> v]
    BY <2>1, <2>2 DEF Item
  <2>5. QED BY <2>3, <2>4
<1>3. Rolled!NoBar = None /\ \A bar : Rolled!Finite(bar) <=> bar.volume <= MaxVolume
  BY DEF Rolled!NoBar, None, Rolled!Finite
<1>4. QED BY <1>1, <1>2, <1>3

(* What the resampling stage accepts is a step of its series. *)
LEMMA RolledPushed ==
  ASSUME BarPipelineAssumption, FillsAre, NEW x \in Item, x \in ToSet(queue), RolledState,
         Rolled!Push(x), UNCHANGED fills
  PROVE  RolledState' /\ Rolled!Buckets!Next
<1> DEFINE b == Timeframes.coarse
           f == fills.coarse
           items == rolledTaken
           next == Floor(x.time, b)
<1>1. b \in Spans /\ b \in Nat \ {0} /\ f \in BOOLEAN /\ fills.coarse' = f
  BY SpansAre DEF FillsAre
<1>2. /\ rolledTaken \in Seq(Item) /\ rolledClosed \in Seq(Item)
      /\ rolledBar # None => Running(items, rolledClosed, rolledBar, b, f) /\ rolledBar \in Item
  BY DEF RolledState, Running
<1>3. CASE rolledBar = None
  <2>1. rolledBar' = Fresh(x, b) /\ rolledTaken' = <<x>> /\ rolledClosed' = <<>>
    BY <1>3, RolledMeans DEF Rolled!Push
  <2>2. Running(<<x>>, <<>>, Fresh(x, b), b, f) /\ Fresh(x, b) \in Item
    BY <1>1, RunningBegins, FreshItem
  <2>3. rolledBar' # None
    BY <2>1, <2>2, BarIsSome
  <2>4. RolledState'
    <3>1. <<x>> \in Seq(Item) /\ <<>> \in Seq(Item)
      OBVIOUS
    <3>2. QED BY <1>1, <2>1, <2>2, <3>1 DEF RolledState
  <2>5. Rolled!Buckets!Begin(x)
    BY <1>3, <2>1, <2>3, RolledMeans DEF Rolled!Buckets!Begin
  <2>6. QED BY <2>4, <2>5 DEF Rolled!Buckets!Next
<1>4. CASE rolledBar # None
  <2>1. rolledBar \in Item /\ Running(items, rolledClosed, rolledBar, b, f)
    BY <1>2, <1>4
  <2>2. next \in Int /\ rolledBar.time \in Int
    <3>1. x.time \in Clock /\ rolledBar.time \in Clock
      BY <2>1, ItemParts
    <3>2. next \in Clock
      BY <1>1, <3>1, StartFacts
    <3>3. QED BY <3>1, <3>2 DEF Clock, BarPipelineAssumption
  <2>3. /\ rolledTaken' = Append(rolledTaken, x)
        /\ \/ Joins(rolledBar, rolledBar', rolledClosed, rolledClosed', x, b)
           \/ OpensNext(rolledBar, rolledBar', rolledClosed, rolledClosed', x, b, f)
    <3>1. ~(next > rolledBar.time
              /\ (~(rolledBar.volume <= MaxVolume) \/ (f /\ FillRefused(rolledBar, next, b))))
      BY <1>4, RolledMeans, RolledClock DEF Rolled!Push, Rolled!Refused
    <3>2. CASE next = rolledBar.time /\ rolledBar' = Absorbed(rolledBar, x)
               /\ rolledTaken' = Append(rolledTaken, x) /\ rolledClosed' = rolledClosed
      BY <3>2 DEF Joins
    <3>3. CASE next > rolledBar.time /\ rolledBar' = Fresh(x, b)
               /\ rolledTaken' = Append(rolledTaken, x)
               /\ rolledClosed' = rolledClosed \o Rolled!Closes(next)
      <4>1. Rolled!Closes(next) = <<rolledBar>> \o Fillings(rolledBar, x, b, f)
        BY RolledMeans, RolledClock DEF Rolled!Closes, Fillings
      <4>2. rolledBar.time < next /\ rolledBar.volume <= MaxVolume
            /\ (f => ~FillRefused(rolledBar, next, b))
        <5> HIDE DEF next
        <5>1. rolledBar.time < next
          BY <2>2, <3>3
        <5>2. QED BY <3>1, <3>3, <5>1
      <4>3. QED BY <3>3, <4>1, <4>2 DEF OpensNext
    <3>4. QED BY <1>4, <2>1, <3>2, <3>3, RolledMeans, RolledClock DEF Rolled!Push
  <2>4. /\ Running(Append(items, x), rolledClosed', rolledBar', b, f)
        /\ Taken(items, rolledClosed', x, b, f)
    <3> DEFINE bar1 == rolledBar'
               closed1 == rolledClosed'
    <3>1. \/ Joins(rolledBar, bar1, rolledClosed, closed1, x, b)
          \/ OpensNext(rolledBar, bar1, rolledClosed, closed1, x, b, f)
      BY <2>3
    <3> HIDE DEF b, f, bar1, closed1
    <3>2. CASE Joins(rolledBar, bar1, rolledClosed, closed1, x, b)
      <4>1. Running(Append(items, x), closed1, bar1, b, f) /\ Taken(items, closed1, x, b, f)
        BY <1>1, <2>1, <3>2, RunningJoins
      <4>2. QED BY <4>1 DEF bar1, closed1
    <3>3. CASE OpensNext(rolledBar, bar1, rolledClosed, closed1, x, b, f)
      <4>1. Running(Append(items, x), closed1, bar1, b, f) /\ Taken(items, closed1, x, b, f)
        BY <1>1, <2>1, <3>3, RunningOpens
      <4>2. QED BY <4>1 DEF bar1, closed1
    <3>4. QED BY <3>1, <3>2, <3>3
  <2>5. rolledTaken' \in Seq(Item) /\ rolledClosed' \in Seq(Item) /\ rolledBar' # None
    <3>1. rolledClosed' \in Seq(Item) /\ rolledBar' \in Item
      BY <2>4 DEF Running
    <3>2. QED BY <1>2, <2>3, <3>1, BarIsSome
  <2>6. RolledState'
    BY <1>1, <2>3, <2>4, <2>5 DEF RolledState
  <2>7. Rolled!Buckets!Take(x)
    <3>1. rolledClosed' = Rolled!Buckets!Front(Rolled!Buckets!SeriesOf(Append(items, x)))
      BY <2>4, RolledSeries DEF Taken, Front, Rolled!Buckets!Front
    <3>2. Rolled!Buckets!Number(Rolled!Buckets!Last(items).time) = LastNumber(items, b)
      BY DEF Rolled!Buckets!Number, LastNumber, NumberIn, Rolled!Buckets!Last
    <3>3. Rolled!Buckets!Number(x.time) = NumberIn(x.time, b)
      BY DEF Rolled!Buckets!Number, NumberIn
    <3>4. /\ NumberIn(x.time, b) >= LastNumber(items, b)
          /\ NumberIn(x.time, b) > LastNumber(items, b) =>
               Rolled!Buckets!Volume(items, LastNumber(items, b)) <= MaxVolume
      BY <2>4, RolledVolume DEF Taken
    <3>5. UNCHANGED <<b, f>>
      BY <1>1
    <3> HIDE DEF b, f
    <3>6. QED
      BY <1>4, <2>3, <2>5, <3>1, <3>2, <3>3, <3>4, <3>5, RolledMeans
         DEF Rolled!Buckets!Take, b, f
  <2>8. QED BY <2>6, <2>7 DEF Rolled!Buckets!Next
<1>5. QED BY <1>3, <1>4

(* The resampling stage's flush ends its series. *)
LEMMA RolledFlushed ==
  ASSUME BarPipelineAssumption, FillsAre, RolledState, Rolled!Flush, UNCHANGED fills
  PROVE  RolledState' /\ Rolled!Buckets!Next
<1> DEFINE b == Timeframes.coarse
           f == fills.coarse
<1>1. b \in Spans /\ b \in Nat \ {0} /\ f \in BOOLEAN /\ fills.coarse' = f
  BY SpansAre DEF FillsAre
<1>2. /\ rolledBar # None /\ rolledBar' = None /\ rolledTaken' = rolledTaken
      /\ rolledClosed' = IF rolledBar.volume <= MaxVolume THEN Append(rolledClosed, rolledBar)
                         ELSE rolledClosed
  BY RolledMeans DEF Rolled!Flush
<1>3. /\ rolledTaken \in Seq(Item) /\ rolledClosed \in Seq(Item) /\ rolledBar \in Item
      /\ Running(rolledTaken, rolledClosed, rolledBar, b, f)
  BY <1>2 DEF RolledState, Running
<1>4. RolledState'
  <2>1. rolledClosed' \in Seq(Item)
    BY <1>2, <1>3
  <2>2. QED BY <1>2, <1>3, <2>1 DEF RolledState
<1>5. Rolled!Buckets!SeriesOf(rolledTaken) = Append(rolledClosed, rolledBar)
  <2> HIDE DEF b, f
  <2>1. SeriesIn(rolledTaken, b, f) = Append(rolledClosed, rolledBar)
    BY <1>1, <1>3, RunningFacts
  <2>2. QED BY <2>1, RolledSeries DEF b, f
<1>6. Rolled!Buckets!Last(Append(rolledClosed, rolledBar)) = rolledBar
  BY <1>3, AppendFacts DEF Rolled!Buckets!Last
<1>7. Rolled!Buckets!End
  <2>1. UNCHANGED <<b, f>>
    BY <1>1
  <2>2. QED BY <1>2, <1>5, <1>6, <2>1, RolledMeans DEF Rolled!Buckets!End
<1>8. QED BY <1>4, <1>7 DEF Rolled!Buckets!Next

(* The resampling stage as it was is its series as it was. *)
LEMMA RolledWaits ==
  ASSUME RolledState, UNCHANGED fills, UNCHANGED <<rolledBar, rolledTaken, rolledClosed>>
  PROVE  RolledState' /\ UNCHANGED Rolled!Buckets!vars
BY DEF RolledState, Rolled!Buckets!vars

(* The resampling stage starts without a series. *)
LEMMA RolledBegins ==
  ASSUME BarPipelineAssumption, Rolled!Init
  PROVE  RolledState /\ Rolled!Buckets!Init
<1>1. rolledBar = None /\ rolledTaken = <<>> /\ rolledClosed = <<>>
  BY RolledMeans DEF Rolled!Init
<1>2. QED BY <1>1, RolledMeans DEF RolledState, Rolled!Buckets!Init

-----------------------------------------------------------------------------
(* The coarse stage, and the refinement of all three                       *)

(* A bucket's volume in the coarse stage. *)
LEMMA DirectVolume ==
  ASSUME NEW T, NEW n
  PROVE  Direct!Buckets!Volume(T, n) = VolumeIn(T, n, Timeframes.coarse)
BY DEF Direct!Buckets!Volume, VolumeIn, Direct!Buckets!Number, NumberIn

(* BucketSeries' series in the coarse stage. *)
LEMMA DirectSeries ==
  ASSUME NEW T
  PROVE  Direct!Buckets!SeriesOf(T) = SeriesIn(T, Timeframes.coarse, fills.coarse)
<1>1. ASSUME NEW n PROVE Direct!Buckets!Places(T, n) = PlacesIn(T, n, Timeframes.coarse)
  BY DEF Direct!Buckets!Places, PlacesIn, Direct!Buckets!Number, NumberIn
<1>2. ASSUME NEW n PROVE Direct!Buckets!Start(n) = StartIn(n, Timeframes.coarse)
  BY DEF Direct!Buckets!Start, StartIn
<1>3. ASSUME NEW S PROVE Direct!Buckets!Smallest(S) = Least(S) /\ Direct!Buckets!Largest(S) = Greatest(S)
  BY DEF Direct!Buckets!Smallest, Direct!Buckets!Largest, Least, Greatest
<1>4. ASSUME NEW n PROVE Direct!Buckets!Candle(T, n) = CandleIn(T, n, Timeframes.coarse)
  BY <1>1, <1>2, <1>3, DirectVolume DEF Direct!Buckets!Candle, CandleIn
<1>5. Direct!Buckets!Numbers(T) = NumbersIn(T, Timeframes.coarse)
  BY DEF Direct!Buckets!Numbers, NumbersIn, Direct!Buckets!Number, NumberIn
<1>6. ASSUME NEW S, NEW j PROVE Direct!Buckets!Nth(S, j) = NthOf(S, j)
  BY DEF Direct!Buckets!Nth, NthOf, Direct!Buckets!AtRank, AtRank, Direct!Buckets!Cardinality, Cardinality
<1>7. Direct!Buckets!Cover(T) = CoverIn(T, Timeframes.coarse, fills.coarse)
  BY <1>3, <1>5 DEF Direct!Buckets!Cover, CoverIn
<1>8. ASSUME NEW n PROVE Direct!Buckets!Filler(T, n) = FillerIn(T, n, Timeframes.coarse)
  BY <1>3 DEF Direct!Buckets!Filler, FillerIn, Direct!Buckets!Number, NumberIn, Direct!Buckets!Start, StartIn
<1>9. QED
  BY <1>4, <1>5, <1>6, <1>7, <1>8
     DEF Direct!Buckets!SeriesOf, SeriesIn, Direct!Buckets!Cardinality, Cardinality

(* The first time of a bucket in the coarse stage. *)
LEMMA DirectClock ==
  /\ \A t, b : Direct!Floor(t, b) = Floor(t, b)
  /\ \A p, t, b : Direct!FillRefused(p, t, b) = FillRefused(p, t, b)
  /\ \A p, t, b : Direct!FlatCandles(p, t, b) = FlatCandles(p, t, b)
<1>1. \A a, b : /\ Direct!SaturatingSub(a, b) = SaturatingSub(a, b)
                /\ Direct!SaturatingAdd(a, b) = SaturatingAdd(a, b)
  BY DEF Direct!SaturatingSub, SaturatingSub, Direct!SaturatingAdd, SaturatingAdd
<1>2. \A s, n, b : Direct!GapCount(s, n, b) = GapCount(s, n, b)
  BY <1>1 DEF Direct!GapCount, GapCount
<1>3. \A p, n, b : Direct!IsGap(p, n, b) = IsGap(p, n, b)
  BY DEF Direct!IsGap, IsGap
<1>4. \A t, b : Direct!Floor(t, b) = Floor(t, b)
  BY <1>1 DEF Direct!Floor, Floor
<1>5. \A p, t, b : Direct!FillRefused(p, t, b) = FillRefused(p, t, b)
  BY <1>2, <1>3 DEF Direct!FillRefused, FillRefused
<1>6. ASSUME NEW p, NEW t, NEW b PROVE Direct!FlatCandles(p, t, b) = FlatCandles(p, t, b)
  <2> DEFINE g == GapCount(p.time + b, t, b)
             d(n) == Flat(p.close, SaturatingAdd(p.time, n * b))
  <2>1. Direct!FlatCandles(p, t, b) = IF ~IsGap(p, t, b) THEN <<>> ELSE [n \in 1 .. g |-> d(n)]
    <3>1. \A n : Direct!Flat(p.close, Direct!SaturatingAdd(p.time, n * b)) = d(n)
      BY <1>1 DEF Direct!Flat, Flat
    <3> HIDE DEF d
    <3>2. QED BY <1>2, <1>3, <3>1 DEF Direct!FlatCandles
  <2>2. FlatCandles(p, t, b) = IF ~IsGap(p, t, b) THEN <<>> ELSE [n \in 1 .. g |-> d(n)]
    BY DEF FlatCandles
  <2>3. QED BY <2>1, <2>2
<1>7. QED BY <1>4, <1>5, <1>6

DirectState == TickState(directBar, directTaken, directClosed, Timeframes.coarse, fills.coarse)

(* What the coarse stage's operators stand for. *)
LEMMA DirectMeans ==
  /\ Direct!NoBar = None
  /\ \A t : Direct!AsItem(t) = TickItem(t) /\ Direct!FromTick(t) = TickBar(t, Timeframes.coarse)
            /\ Direct!Absorb(t) = TickAbsorb(directBar, t)
  /\ \A bar : Direct!IntoCandle(bar) = AsCandle(bar) /\ (Direct!Finite(bar) <=> bar.volume <= MaxVolume)
BY DirectClock DEF Direct!NoBar, None, Direct!AsItem, TickItem, Direct!FromTick, TickBar, Direct!Absorb, TickAbsorb,
              Direct!IntoCandle, AsCandle, Direct!Finite

(* What the coarse stage accepts is a step of its series. *)
LEMMA DirectPushed ==
  ASSUME BarPipelineAssumption, FillsAre, NEW t \in Ticks, DirectState, Direct!Push(t), UNCHANGED fills
  PROVE  DirectState' /\ Direct!Buckets!Next
<1> DEFINE b == Timeframes.coarse
           f == fills.coarse
           x == TickItem(t)
           items == ItemsOf(directTaken)
           next == Floor(t.time, b)
<1>1. b \in Spans /\ b \in Nat \ {0} /\ f \in BOOLEAN /\ fills.coarse' = f
  BY SpansAre DEF FillsAre
<1>2. x \in {Direct!AsItem(u) : u \in Ticks} /\ x = Direct!AsItem(t)
  BY DirectMeans
<1>3. CASE directBar = None
  <2>1. directBar' = TickBar(t, b) /\ directTaken' = <<t>> /\ directClosed' = <<>>
    BY <1>3, DirectMeans DEF Direct!Push
  <2>2. TickState(TickBar(t, b), <<t>>, <<>>, b, f) /\ ItemsOf(<<t>>) = <<x>>
    BY <1>1, TickBegins
  <2>3. DirectState' /\ ItemsOf(directTaken') = <<x>>
    BY <1>1, <2>1, <2>2 DEF DirectState
  <2>4. directBar' # None
    BY <1>1, <2>1, TickBarFacts, BarIsSome
  <2>5. Direct!Buckets!Begin(x)
    <3> HIDE DEF x
    <3>1. [i \in DOMAIN directTaken' |-> Direct!AsItem(directTaken'[i])] = <<x>>
      BY <2>3, DirectMeans DEF ItemsOf
    <3>2. QED BY <1>3, <2>1, <2>4, <3>1, DirectMeans DEF Direct!Buckets!Begin
  <2>6. QED BY <1>2, <2>3, <2>5 DEF Direct!Buckets!Next
<1>4. CASE directBar # None
  <2>1. directBar \in Bar /\ directTaken \in Seq(Ticks) /\ directClosed \in Seq(Item)
    BY <1>4 DEF DirectState, TickState, OpenTicks
  <2>2. /\ next \in Int /\ directBar.time \in Int /\ directBar.last \in Int /\ t.time \in Int
    <3>1. t.time \in Clock
      BY TickParts
    <3>2. next \in Clock
      BY <1>1, <3>1, StartFacts
    <3>3. QED BY <2>1, <3>1, <3>2 DEF Bar, Clock, BarPipelineAssumption
  <2>3. /\ directTaken' = Append(directTaken, t)
        /\ \/ TickJoins(directBar, directBar', directClosed, directClosed', t, b)
           \/ TickOpens(directBar, directBar', directClosed, directClosed', t, b, f)
    <3>1. /\ ~(next = directBar.time /\ t.time < directBar.last)
          /\ ~(next > directBar.time /\ (~(directBar.volume <= MaxVolume) \/ (f /\ FillRefused(directBar, next, b))))
      BY <1>4, DirectMeans, DirectClock DEF Direct!Push, Direct!Refused
    <3>2. CASE next = directBar.time /\ directBar' = TickAbsorb(directBar, t) /\ directTaken' = Append(directTaken, t) /\ directClosed' = directClosed
      <4>1. directBar.last <= t.time
        BY <2>2, <3>1, <3>2
      <4>2. QED BY <3>2, <4>1 DEF TickJoins
    <3>3. CASE next > directBar.time /\ directBar' = TickBar(t, b) /\ directTaken' = Append(directTaken, t)
               /\ directClosed' = directClosed \o Direct!Closes(next)
      <4>1. Direct!Closes(next) = <<AsCandle(directBar)>> \o (IF f THEN FlatCandles(directBar, next, b) ELSE <<>>)
        BY DirectMeans, DirectClock DEF Direct!Closes
      <4>2. directBar.time < next /\ directBar.volume <= MaxVolume /\ (f => ~FillRefused(directBar, next, b))
        <5> HIDE DEF next
        <5>1. directBar.time < next
          BY <2>2, <3>3
        <5>2. QED BY <3>1, <3>3, <5>1
      <4>3. QED BY <3>3, <4>1, <4>2 DEF TickOpens
    <3>4. QED BY <1>4, <3>2, <3>3, DirectMeans, DirectClock DEF Direct!Push
  <2>4. /\ TickState(directBar', Append(directTaken, t), directClosed', b, f) /\ directBar' # None
        /\ Taken(items, directClosed', x, b, f)
        /\ ItemsOf(Append(directTaken, t)) = Append(items, x)
        /\ items[Len(items)].time <= t.time
    <3>1. TickState(directBar, directTaken, directClosed, b, f)
      BY DEF DirectState
    <3> DEFINE bar1 == directBar'
               closed1 == directClosed'
    <3>2. \/ TickJoins(directBar, bar1, directClosed, closed1, t, b)
          \/ TickOpens(directBar, bar1, directClosed, closed1, t, b, f)
      BY <2>3
    <3>3. b \in Spans /\ f \in BOOLEAN
      BY <1>1
    <3> HIDE DEF b, f, bar1, closed1
    <3>4. /\ TickState(bar1, Append(directTaken, t), closed1, b, f) /\ bar1 # None
          /\ Taken(ItemsOf(directTaken), closed1, TickItem(t), b, f)
          /\ ItemsOf(Append(directTaken, t)) = Append(ItemsOf(directTaken), TickItem(t))
          /\ ItemsOf(directTaken)[Len(ItemsOf(directTaken))].time <= t.time
      BY <1>4, <3>1, <3>2, <3>3, TickPushes
    <3>5. QED BY <3>4 DEF bar1, closed1
  <2>5. DirectState' /\ ItemsOf(directTaken') = Append(items, x)
    BY <1>1, <2>3, <2>4 DEF DirectState
  <2>6. Direct!Buckets!Take(x)
    <3> HIDE DEF x
    <3>1. /\ [i \in DOMAIN directTaken |-> Direct!AsItem(directTaken[i])] = items
          /\ [i \in DOMAIN directTaken' |-> Direct!AsItem(directTaken'[i])] = Append(items, x)
      BY <2>5, DirectMeans DEF ItemsOf
    <3> HIDE DEF items
    <3>2. directClosed' = Direct!Buckets!Front(Direct!Buckets!SeriesOf(Append(items, x)))
      BY <2>4, DirectSeries DEF Taken, Front, Direct!Buckets!Front
    <3>3. Direct!Buckets!Number(Direct!Buckets!Last(items).time) = LastNumber(items, b)
      BY DEF Direct!Buckets!Number, LastNumber, NumberIn, Direct!Buckets!Last
    <3>4. Direct!Buckets!Number(x.time) = NumberIn(x.time, b)
      BY DEF Direct!Buckets!Number, NumberIn
    <3>5. /\ NumberIn(x.time, b) >= LastNumber(items, b)
          /\ NumberIn(x.time, b) > LastNumber(items, b) =>
               Direct!Buckets!Volume(items, LastNumber(items, b)) <= MaxVolume
      BY <2>4, DirectVolume DEF Taken
    <3>6. x.time >= Direct!Buckets!Last(items).time
      <4>1. x.time = t.time
        BY DEF x, TickItem
      <4>2. items[Len(items)].time \in Int
        <5>1. Running(items, directClosed, AsCandle(directBar), b, f)
          BY <1>4 DEF DirectState, TickState, OpenTicks, items
        <5> HIDE DEF b, f
        <5>2. items[Len(items)].time \in Clock
          BY <1>1, <5>1, RunningFacts
        <5>3. QED BY <5>2 DEF Clock, BarPipelineAssumption
      <4>3. QED BY <2>2, <2>4, <4>1, <4>2 DEF Direct!Buckets!Last
    <3>7. UNCHANGED <<b, f>> /\ (directBar' # Direct!NoBar) = (directBar # Direct!NoBar) /\ directBar # Direct!NoBar
      BY <1>1, <1>4, <2>4, DirectMeans
    <3>8. QED BY <3>1, <3>2, <3>3, <3>4, <3>5, <3>6, <3>7 DEF Direct!Buckets!Take
  <2>7. QED BY <1>2, <2>5, <2>6 DEF Direct!Buckets!Next
<1>5. QED BY <1>3, <1>4

(* The coarse stage's flush ends its series. *)
LEMMA DirectFlushed ==
  ASSUME BarPipelineAssumption, FillsAre, DirectState, Direct!Flush, UNCHANGED fills
  PROVE  DirectState' /\ Direct!Buckets!Next
<1> DEFINE b == Timeframes.coarse
           f == fills.coarse
           c == AsCandle(directBar)
           items == ItemsOf(directTaken)
<1>1. b \in Spans /\ b \in Nat \ {0} /\ f \in BOOLEAN /\ fills.coarse' = f
  BY SpansAre DEF FillsAre
<1>2. /\ directBar # None /\ directBar' = None /\ directTaken' = directTaken
      /\ directClosed' = IF directBar.volume <= MaxVolume THEN Append(directClosed, c) ELSE directClosed
  BY DirectMeans DEF Direct!Flush
<1>3. /\ directTaken \in Seq(Ticks) /\ directClosed \in Seq(Item)
      /\ Running(items, directClosed, c, b, f)
  BY <1>2 DEF DirectState, TickState, OpenTicks
<1>4. c \in Item
  BY <1>3 DEF Running
<1>5. DirectState'
  <2> HIDE DEF c
  <2>1. directClosed' \in Seq(Item)
    BY <1>2, <1>3, <1>4
  <2>2. QED BY <1>2, <1>3, <2>1 DEF DirectState, TickState
<1>6. Direct!Buckets!SeriesOf(items) = Append(directClosed, c)
  <2> HIDE DEF b, f, c, items
  <2>1. SeriesIn(items, b, f) = Append(directClosed, c)
    BY <1>1, <1>3, RunningFacts
  <2>2. QED BY <2>1, DirectSeries DEF b, f
<1>7. Direct!Buckets!Last(Append(directClosed, c)) = c
  <2> HIDE DEF c
  <2>1. QED BY <1>3, <1>4, AppendFacts DEF Direct!Buckets!Last
<1>8. c.volume = directBar.volume
  BY DEF AsCandle
<1>9. [i \in DOMAIN directTaken |-> Direct!AsItem(directTaken[i])] = items
  BY DirectMeans DEF ItemsOf
<1>10. Direct!Buckets!End
  <2> HIDE DEF c, items
  <2>1. UNCHANGED <<b, f>>
    BY <1>1
  <2>2. QED BY <1>2, <1>6, <1>7, <1>8, <1>9, <2>1, DirectMeans DEF Direct!Buckets!End
<1>11. QED BY <1>5, <1>10 DEF Direct!Buckets!Next

(* The coarse stage as it was is its series as it was. *)
LEMMA DirectWaits ==
  ASSUME DirectState, UNCHANGED fills, UNCHANGED <<directBar, directTaken, directClosed>>
  PROVE  DirectState' /\ UNCHANGED Direct!Buckets!vars
BY DEF DirectState, Direct!Buckets!vars

(* The coarse stage starts without a series. *)
LEMMA DirectBegins ==
  ASSUME Direct!Init
  PROVE  DirectState /\ Direct!Buckets!Init
<1>1. directBar = None /\ directTaken = <<>> /\ directClosed = <<>>
  BY DirectMeans DEF Direct!Init
<1>2. DirectState
  BY <1>1 DEF DirectState, TickState
<1>3. [i \in DOMAIN directTaken |-> Direct!AsItem(directTaken[i])] = <<>>
  BY <1>1
<1>4. Direct!Buckets!Init
  BY <1>1, <1>3, DirectMeans DEF Direct!Buckets!Init
<1>5. QED BY <1>2, <1>4

(* Each stage has made the series of what it took, but for its open bar. *)
PipelineInv ==
  /\ fills \in [fine: BOOLEAN, coarse: BOOLEAN]
  /\ FineState /\ DirectState /\ RolledState
  /\ queue \in Seq(Item)

(* The pipeline starts with three series that have not begun. *)
LEMMA Begun ==
  ASSUME BarPipelineAssumption, Init
  PROVE  /\ PipelineInv
         /\ Fine!Buckets!Init /\ Direct!Buckets!Init /\ Rolled!Buckets!Init
<1>1. fills \in [fine: BOOLEAN, coarse: BOOLEAN]
  BY DEF Init, BarPipelineAssumption
<1>2. FineState /\ Fine!Buckets!Init
  BY FineBegins DEF Init
<1>3. DirectState /\ Direct!Buckets!Init
  BY DirectBegins DEF Init
<1>4. RolledState /\ Rolled!Buckets!Init
  BY RolledBegins DEF Init
<1>5. queue \in Seq(Item)
  BY DEF Init
<1>6. QED BY <1>1, <1>2, <1>3, <1>4, <1>5 DEF PipelineInv

(* What the fine stage hands out in a step are candles. *)
LEMMA HandedItems ==
  ASSUME FineState, FineState'
  PROVE  Handed(fineClosed) \in Seq(Item)
<1> DEFINE s == fineClosed
           u == fineClosed'
<1>1. s \in Seq(Item) /\ u \in Seq(Item)
  BY DEF FineState, TickState
<1>2. Handed(s) = SubSeq(u, Len(s) + 1, Len(u))
  BY DEF Handed
<1> HIDE DEF s, u
<1> DEFINE w == SubSeq(u, Len(s) + 1, Len(u))
<1>3. \A i \in Len(s) + 1 .. Len(u) : u[i] \in Item
  BY <1>1
<1>4. w \in Seq(Item)
  BY <1>1, <1>3
<1>5. QED BY <1>2, <1>4 DEF s

(* A step of the pipeline is a step of each series, or none. *)
StepsOf ==
  /\ [Fine!Buckets!Next]_(Fine!Buckets!vars)
  /\ [Direct!Buckets!Next]_(Direct!Buckets!vars)
  /\ [Rolled!Buckets!Next]_(Rolled!Buckets!vars)

(* Every step keeps the invariant and is a step of each series, or none. *)
LEMMA Stepped ==
  ASSUME BarPipelineAssumption, PipelineInv, [Next]_vars
  PROVE  PipelineInv' /\ StepsOf
<1>1. FillsAre /\ FineState /\ DirectState /\ RolledState /\ queue \in Seq(Item)
  BY DEF PipelineInv, FillsAre
<1>2. UNCHANGED fills
  BY DEF Next, vars, Trade, Deliver, FlushFine, FlushRolled, FlushDirect
<1>3. FillsAre'
  BY <1>1, <1>2 DEF FillsAre
<1>4. ASSUME UNCHANGED fineVars PROVE FineState' /\ UNCHANGED Fine!Buckets!vars
  BY <1>1, <1>2, <1>4, FineWaits DEF fineVars
<1>5. ASSUME UNCHANGED directVars PROVE DirectState' /\ UNCHANGED Direct!Buckets!vars
  BY <1>1, <1>2, <1>5, DirectWaits DEF directVars
<1>6. ASSUME UNCHANGED rolledVars PROVE RolledState' /\ UNCHANGED Rolled!Buckets!vars
  BY <1>1, <1>2, <1>6, RolledWaits DEF rolledVars
<1>7. CASE \E t \in Ticks : Trade(t)
  <2>1. PICK t \in Ticks : Trade(t)
    BY <1>7
  <2>2. FineState' /\ [Fine!Buckets!Next]_(Fine!Buckets!vars)
    <3>1. CASE UNCHANGED fineVars
      BY <1>4, <3>1
    <3>2. CASE Fine!Push(t)
      BY <1>1, <1>2, <3>2, FinePushed
    <3>3. QED BY <2>1, <3>1, <3>2 DEF Trade
  <2>3. DirectState' /\ [Direct!Buckets!Next]_(Direct!Buckets!vars)
    <3>1. CASE UNCHANGED directVars
      BY <1>5, <3>1
    <3>2. CASE Direct!Push(t)
      BY <1>1, <1>2, <3>2, DirectPushed
    <3>3. QED BY <2>1, <3>1, <3>2 DEF Trade
  <2>4. RolledState' /\ UNCHANGED Rolled!Buckets!vars
    BY <1>6, <2>1 DEF Trade
  <2>5. queue' \in Seq(Item)
    <3>1. Handed(fineClosed) \in Seq(Item)
      BY <1>1, <2>2, HandedItems
    <3>2. queue' = queue \o IF fineBar = Fine!NoBar THEN <<>> ELSE Handed(fineClosed)
      BY <2>1 DEF Trade
    <3> DEFINE w == Handed(fineClosed)
    <3> HIDE DEF w
    <3>3. CASE fineBar = Fine!NoBar
      <4>1. queue' = queue \o <<>>
        BY <3>2, <3>3
      <4>2. QED BY <1>1, <4>1
    <3>4. CASE fineBar # Fine!NoBar
      <4>1. queue' = queue \o w /\ w \in Seq(Item)
        BY <3>1, <3>2, <3>4 DEF w
      <4>2. QED BY <1>1, <4>1
    <3>5. QED BY <3>3, <3>4
  <2>6. QED BY <1>3, <2>2, <2>3, <2>4, <2>5 DEF PipelineInv, StepsOf, FillsAre
<1>8. CASE \E i \in 1 .. 2 : Deliver(i)
  <2>1. PICK i \in 1 .. 2 : Deliver(i)
    BY <1>8
  <2>2. /\ FineState' /\ UNCHANGED Fine!Buckets!vars
        /\ DirectState' /\ UNCHANGED Direct!Buckets!vars
    BY <1>4, <1>5, <2>1 DEF Deliver
  <2>3. i \in 1 .. Len(queue) /\ queue[i] \in Item /\ queue[i] \in ToSet(queue)
    <3>1. i \in DOMAIN queue
      BY <2>1 DEF Deliver
    <3>2. QED BY <1>1, <3>1 DEF ToSet
  <2>4. RolledState' /\ [Rolled!Buckets!Next]_(Rolled!Buckets!vars)
    <3>1. CASE UNCHANGED rolledVars
      BY <1>6, <3>1
    <3>2. CASE Rolled!Push(queue[i])
      BY <1>1, <1>2, <2>3, <3>2, RolledPushed
    <3>3. QED BY <2>1, <3>1, <3>2 DEF Deliver
  <2>5. queue' \in Seq(Item)
    <3>1. queue' = RemoveAt(queue, i)
      BY <2>1 DEF Deliver
    <3> DEFINE a == SubSeq(queue, 1, i - 1)
               z == SubSeq(queue, i + 1, Len(queue))
    <3>2. queue' = a \o z
      BY <3>1 DEF RemoveAt
    <3>3. a \in Seq(Item)
      BY <1>1, <2>3
    <3>4. z \in Seq(Item)
      BY <1>1, <2>3
    <3> HIDE DEF a, z
    <3>5. QED BY <3>2, <3>3, <3>4
  <2>6. QED BY <1>3, <2>2, <2>4, <2>5 DEF PipelineInv, StepsOf, FillsAre
<1>9. CASE FlushFine
  <2>1. FineState' /\ Fine!Buckets!Next
    BY <1>1, <1>2, <1>9, FineFlushed DEF FlushFine
  <2>2. /\ RolledState' /\ UNCHANGED Rolled!Buckets!vars
        /\ DirectState' /\ UNCHANGED Direct!Buckets!vars
    BY <1>5, <1>6, <1>9 DEF FlushFine
  <2>3. queue' \in Seq(Item)
    <3> DEFINE w == Handed(fineClosed)
    <3>1. w \in Seq(Item)
      BY <1>1, <2>1, HandedItems
    <3>2. queue' = queue \o w
      BY <1>9 DEF FlushFine
    <3> HIDE DEF w
    <3>3. QED BY <1>1, <3>1, <3>2
  <2>4. QED BY <1>3, <2>1, <2>2, <2>3 DEF PipelineInv, StepsOf, FillsAre
<1>10. CASE FlushRolled
  <2>1. RolledState' /\ Rolled!Buckets!Next
    BY <1>1, <1>2, <1>10, RolledFlushed DEF FlushRolled
  <2>2. /\ FineState' /\ UNCHANGED Fine!Buckets!vars
        /\ DirectState' /\ UNCHANGED Direct!Buckets!vars /\ queue' = queue
    BY <1>4, <1>5, <1>10 DEF FlushRolled
  <2>3. QED BY <1>1, <1>3, <2>1, <2>2 DEF PipelineInv, StepsOf, FillsAre
<1>11. CASE FlushDirect
  <2>1. DirectState' /\ Direct!Buckets!Next
    BY <1>1, <1>2, <1>11, DirectFlushed DEF FlushDirect
  <2>2. /\ FineState' /\ UNCHANGED Fine!Buckets!vars
        /\ RolledState' /\ UNCHANGED Rolled!Buckets!vars /\ queue' = queue
    BY <1>4, <1>6, <1>11 DEF FlushDirect
  <2>3. QED BY <1>1, <1>3, <2>1, <2>2 DEF PipelineInv, StepsOf, FillsAre
<1>12. CASE UNCHANGED vars
  <2>1. UNCHANGED fineVars /\ UNCHANGED directVars /\ UNCHANGED rolledVars /\ queue' = queue
    BY <1>12 DEF vars
  <2>2. QED BY <1>1, <1>3, <1>4, <1>5, <1>6, <2>1 DEF PipelineInv, StepsOf, FillsAre
<1>13. QED BY <1>7, <1>8, <1>9, <1>10, <1>11, <1>12 DEF Next

(* Both aggregators' candles are the buckets of the ticks they accepted
   (TicksAreBucketed), for every clock, timeframe and gap. *)
THEOREM TicksBucketed == Spec => TicksAreBucketed
<1>1. Init => PipelineInv /\ Fine!Buckets!Init /\ Direct!Buckets!Init
  BY Begun, BarPipelineAssumption
<1>2. PipelineInv /\ [Next]_vars =>
        /\ PipelineInv'
        /\ [Fine!Buckets!Next]_(Fine!Buckets!vars) /\ [Direct!Buckets!Next]_(Direct!Buckets!vars)
  BY Stepped, BarPipelineAssumption DEF StepsOf
<1>3. Spec => Fine!Buckets!Spec /\ Direct!Buckets!Spec
  BY <1>1, <1>2, PTL DEF Spec, Fine!Buckets!Spec, Direct!Buckets!Spec
<1>4. QED
  BY <1>3 DEF TicksAreBucketed, Fine!ImplementsBucketSeries, Direct!ImplementsBucketSeries

(* The coarse candles are the buckets of the fine candles the resampler
   accepted (CandlesAreBucketed), whatever was lost, refused or out of order. *)
THEOREM CandlesBucketed == Spec => CandlesAreBucketed
<1>1. Init => PipelineInv /\ Rolled!Buckets!Init
  BY Begun, BarPipelineAssumption
<1>2. PipelineInv /\ [Next]_vars => PipelineInv' /\ [Rolled!Buckets!Next]_(Rolled!Buckets!vars)
  BY Stepped, BarPipelineAssumption DEF StepsOf
<1>3. Spec => Rolled!Buckets!Spec
  BY <1>1, <1>2, PTL DEF Spec, Rolled!Buckets!Spec
<1>4. QED BY <1>3 DEF CandlesAreBucketed, Rolled!ImplementsBucketSeries

-----------------------------------------------------------------------------
(* A series again: it is the only one, and there is one                    *)

(* What holds for one, and for the next of every number it holds for. *)
LEMMA Counting ==
  ASSUME NEW S, 1 \in S, \A k \in S : k \in Nat => k + 1 \in S
  PROVE  \A k \in Nat \ {0} : k \in S
<1> DEFINE B == {k \in Nat \ {0} : k \notin S}
<1> SUFFICES ASSUME B # {} PROVE FALSE
  OBVIOUS
<1>1. PICK n \in B : \A m \in B : n <= m
  <2>1. B \subseteq Nat
    OBVIOUS
  <2> HIDE DEF B
  <2>2. QED BY <2>1, LeastDistance
<1>2. n # 1 /\ n - 1 \in Nat \ {0} /\ n - 1 + 1 = n
  OBVIOUS
<1>3. n - 1 \notin B
  <2> HIDE DEF B
  <2>1. QED BY <1>1, <1>2
<1>4. n - 1 \in S
  BY <1>2, <1>3
<1>5. n \in S
  BY <1>2, <1>4
<1>6. QED BY <1>5

(* The flat candles of a gap are within the clock, as both its ends are. *)
LEMMA AlwaysTimely ==
  ASSUME BarPipelineAssumption, NEW b \in Nat \ {0}, NEW t \in Clock, NEW u \in Clock,
         NEW n, n = NumberIn(t, b), NEW m, m = NumberIn(u, b), n < m
  PROVE  Timely(n, m, b)
<1>1. /\ n \in Int /\ m \in Int /\ n * b <= t /\ t < n * b + b /\ m * b <= u
      /\ t \in Int /\ u \in Int /\ MinTime <= t /\ u <= MaxTime
      /\ MinTime \in Int /\ MaxTime \in Int
  <2>1. /\ t \in Int /\ u \in Int /\ MinTime <= t /\ u <= MaxTime
        /\ MinTime \in Int /\ MaxTime \in Int
    BY DEF Clock, BarPipelineAssumption
  <2>2. QED BY <2>1, NumberFacts
<1> SUFFICES ASSUME NEW k \in 1 .. m - n - 1 PROVE StartIn(n, b) + k * b \in Clock
  BY DEF Timely
<1> DEFINE p == n + k
<1>2. p \in Int /\ p < m /\ k \in Nat
  BY <1>1
<1>3. p * b + b <= m * b
  BY <1>1, <1>2, FurtherOn
<1>4. p * b = n * b + k * b /\ k * b \in Int /\ 0 <= k * b /\ n * b \in Int /\ m * b \in Int
  <2>1. k * b \in Nat
    BY <1>2
  <2>2. (n + k) * b = n * b + k * b
    BY <1>1, <1>2
  <2>3. QED BY <1>1, <2>1, <2>2
<1> DEFINE a == n * b
           z == k * b
           e == m * b
           g == p * b
<1>5. StartIn(n, b) = IF a < MinTime THEN MinTime ELSE a
  BY DEF StartIn
<1>6. /\ g = a + z /\ z \in Int /\ 0 <= z /\ a \in Int /\ e \in Int /\ g + b <= e /\ e <= u
      /\ t < a + b
  BY <1>1, <1>3, <1>4
<1> HIDE DEF a, z, e, g, p
<1>7. StartIn(n, b) + z \in Clock
  BY <1>1, <1>5, <1>6 DEF Clock
<1>8. QED BY <1>7 DEF z

(* What one more item makes of a series. *)
Extended(s, T, x, b, f) ==
  IF NumberIn(x.time, b) = LastNumber(T, b) THEN Replaced(s, Absorbed(s[Len(s)], x))
  ELSE Followed(s, LastNumber(T, b), x, b, f)

(* One more item extends a series. *)
LEMMA GoodExtends ==
  ASSUME BarPipelineAssumption, NEW b \in Nat \ {0}, NEW f \in BOOLEAN, NEW T, NEW s,
         Good(T, s, b, f), NEW x \in Item, LastNumber(T, b) <= NumberIn(x.time, b)
  PROVE  Good(Append(T, x), Extended(s, T, x, b, f), b, f)
<1> DEFINE l == LastNumber(T, b)
           m == NumberIn(x.time, b)
           z == T[Len(T)].time
           u == x.time
<1>1. T \in Seq(Item) /\ Len(T) \in 1 .. Len(T)
  BY DEF Good, Items
<1>2. z \in Clock /\ u \in Clock /\ l = NumberIn(z, b)
  <2>1. T[Len(T)] \in Item
    BY <1>1
  <2>2. QED BY <2>1, ItemParts DEF LastNumber
<1>3. l \in Int /\ m \in Int
  <2>1. z \in Int /\ u \in Int
    BY <1>2 DEF Clock, BarPipelineAssumption
  <2>2. QED BY <1>2, <2>1, NumberFacts
<1>4. CASE m = l
  <2>1. Good(Append(T, x), Replaced(s, Absorbed(s[Len(s)], x)), b, f)
    BY <1>4, GoodAbsorbs
  <2>2. QED BY <1>4, <2>1 DEF Extended
<1>5. CASE m # l
  <2> HIDE DEF l, m, z, u
  <2>1. l < m
    <3>1. l <= m
      BY DEF l, m
    <3>2. QED BY <1>3, <1>5, <3>1
  <2>2. m = NumberIn(u, b) /\ l = LastNumber(T, b) /\ m = NumberIn(x.time, b)
    BY DEF m, u, l
  <2>3. Timely(l, m, b)
    BY <1>2, <2>1, <2>2, AlwaysTimely
  <2>4. Good(Append(T, x), Followed(s, l, x, b, f), b, f)
    BY <2>1, <2>2, <2>3, GoodFollows
  <2>5. Extended(s, T, x, b, f) = Followed(s, l, x, b, f)
    BY <1>5, <2>2 DEF Extended
  <2>6. QED BY <2>4, <2>5
<1>6. QED BY <1>4, <1>5

(* Items have one series only. *)
LEMMA GoodUnique ==
  ASSUME BarPipelineAssumption, NEW b \in Nat \ {0}, NEW f \in BOOLEAN, NEW T, NEW s, NEW u,
         Good(T, s, b, f), Good(T, u, b, f)
  PROVE  s = u
BY GoodIsSeries

(* A sequence of more than one item is another and an item after it. *)
LEMMA LastApart ==
  ASSUME BarPipelineAssumption, NEW b \in Nat \ {0}, NEW T, Items(T, b), Len(T) > 1
  PROVE  \E S, x : /\ T = Append(S, x) /\ x \in Item /\ Items(S, b) /\ Len(S) = Len(T) - 1
                   /\ LastNumber(S, b) <= NumberIn(x.time, b)
<1> DEFINE k == Len(T) - 1
           S == [i \in 1 .. k |-> T[i]]
           x == T[Len(T)]
<1>1. T \in Seq(Item) /\ InOrder(T, b) /\ k \in Nat /\ k > 0 /\ Len(T) = k + 1
  BY DEF Items
<1> HIDE DEF k
<1>2. x \in Item /\ S \in [1 .. k -> Item]
  BY <1>1
<1>3. S \in Seq(Item) /\ Len(S) = k
  <2> HIDE DEF S
  <2>1. QED BY <1>1, <1>2
<1>4. \A i \in 1 .. k : S[i] = T[i]
  OBVIOUS
<1>5. T = Append(S, x)
  <2> DEFINE v == Append(S, x)
  <2> HIDE DEF S, x
  <2>1. /\ v \in Seq(Item) /\ Len(v) = k + 1
    BY <1>1, <1>2, <1>3
  <2>2. v[k + 1] = x
    BY <1>1, <1>2, <1>3
  <2>3. \A i \in 1 .. k : v[i] = S[i]
    BY <1>1, <1>2, <1>3
  <2> HIDE DEF v
  <2>4. v = [i \in 1 .. k + 1 |-> v[i]] /\ T = [i \in 1 .. k + 1 |-> T[i]]
    BY <1>1, <2>1
  <2>5. \A i \in 1 .. k + 1 : v[i] = T[i]
    <3> SUFFICES ASSUME NEW i \in 1 .. k + 1 PROVE v[i] = T[i]
      OBVIOUS
    <3>1. CASE i = k + 1
      BY <1>1, <2>2, <3>1 DEF x
    <3>2. CASE i # k + 1
      <4>1. i \in 1 .. k
        BY <1>1, <3>2
      <4>2. QED BY <1>4, <2>3, <4>1
    <3>3. QED BY <3>1, <3>2
  <2>6. v = T
    BY <2>4, <2>5
  <2>7. QED BY <2>6 DEF v
<1>6. InOrder(S, b)
  <2> SUFFICES ASSUME NEW i \in 1 .. Len(S), NEW j \in 1 .. Len(S), i <= j
               PROVE  NumberIn(S[i].time, b) <= NumberIn(S[j].time, b)
    BY DEF InOrder
  <2> HIDE DEF S
  <2>1. i \in 1 .. Len(T) /\ j \in 1 .. Len(T) /\ i \in 1 .. k /\ j \in 1 .. k
    BY <1>1, <1>3
  <2>2. NumberIn(T[i].time, b) <= NumberIn(T[j].time, b)
    BY <1>1, <2>1 DEF InOrder
  <2>3. QED BY <1>4, <2>1, <2>2
<1>7. LastNumber(S, b) <= NumberIn(x.time, b)
  <2> HIDE DEF S
  <2>1. k \in 1 .. Len(T) /\ Len(T) \in 1 .. Len(T) /\ k <= Len(T) /\ k \in 1 .. k
    BY <1>1
  <2>2. NumberIn(T[k].time, b) <= NumberIn(T[Len(T)].time, b)
    BY <1>1, <2>1 DEF InOrder
  <2>3. S[Len(S)] = T[k]
    BY <1>3, <1>4, <2>1
  <2>4. QED BY <2>2, <2>3 DEF LastNumber
<1>8. Items(S, b) /\ Len(S) = Len(T) - 1
  <2> HIDE DEF S
  <2>1. QED BY <1>1, <1>3, <1>6 DEF Items
<1> HIDE DEF S, x
<1>9. QED BY <1>2, <1>5, <1>7, <1>8

Lone(T) == \E x \in Item : T = <<x>>

(* A sequence of one item is that item and nothing else. *)
LEMMA LoneItem ==
  ASSUME NEW T \in Seq(Item), Len(T) = 1
  PROVE  Lone(T)
<1>1. T[1] \in Item /\ T = <<T[1]>>
  OBVIOUS
<1>2. QED BY <1>1 DEF Lone

HasSeries(T, b, f) == \E s : Good(T, s, b, f)

(* All items in the order of their buckets have a series. *)
LEMMA SeriesExist ==
  ASSUME BarPipelineAssumption, NEW b \in Nat \ {0}, NEW f \in BOOLEAN, NEW T, Items(T, b)
  PROVE  HasSeries(T, b, f)
<1> DEFINE A == {k \in Nat : \A U : Items(U, b) /\ Len(U) = k => HasSeries(U, b, f)}
<1>1. 1 \in A
  <2> SUFFICES ASSUME NEW U, Items(U, b), Len(U) = 1 PROVE HasSeries(U, b, f)
    OBVIOUS
  <2>1. PICK x \in Item : U = <<x>>
    BY LoneItem DEF Items, Lone
  <2>2. Good(<<x>>, <<Fresh(x, b)>>, b, f)
    BY GoodFirst
  <2>3. QED BY <2>1, <2>2 DEF HasSeries
<1>2. ASSUME NEW k \in A, k \in Nat PROVE k + 1 \in A
  <2> SUFFICES ASSUME NEW U, Items(U, b), Len(U) = k + 1 PROVE HasSeries(U, b, f)
    OBVIOUS
  <2>1. CASE k = 0
    <3>1. Len(U) = 1
      BY <2>1
    <3>2. QED BY <1>1, <3>1
  <2>2. CASE k # 0
    <3>1. Len(U) > 1
      BY <1>2, <2>2
    <3>2. PICK S, x : /\ U = Append(S, x) /\ x \in Item /\ Items(S, b) /\ Len(S) = Len(U) - 1
                      /\ LastNumber(S, b) <= NumberIn(x.time, b)
      BY <3>1, LastApart
    <3>3. Len(S) = k
      BY <1>2, <3>2
    <3>4. HasSeries(S, b, f)
      BY <1>2, <3>2, <3>3
    <3>5. PICK s : Good(S, s, b, f)
      BY <3>4 DEF HasSeries
    <3>6. Good(Append(S, x), Extended(s, S, x, b, f), b, f)
      BY <3>2, <3>5, GoodExtends
    <3>7. QED BY <3>2, <3>6 DEF HasSeries
  <2>3. QED BY <2>1, <2>2
<1> HIDE DEF A
<1>3. \A k \in Nat \ {0} : k \in A
  BY <1>1, <1>2, Counting
<1>4. Len(T) \in Nat \ {0}
  BY DEF Items
<1>5. Len(T) \in A
  BY <1>3, <1>4
<1>6. QED BY <1>5 DEF A

-----------------------------------------------------------------------------
(* Buckets within buckets                                                  *)

Nested(a, b) == a \in Nat \ {0} /\ b \in Nat \ {0} /\ b % a = 0

(* A bucket of the one length is within a bucket of the other. *)
LEMMA NestedStart ==
  ASSUME BarPipelineAssumption, NEW a, NEW b, Nested(a, b), NEW t \in Clock, NEW s,
         s = StartIn(NumberIn(t, a), a)
  PROVE  s \in Clock /\ NumberIn(s, b) = NumberIn(t, b)
<1> DEFINE n == NumberIn(t, a)
           m == NumberIn(t, b)
           q == b \div a
<1>1. a \in Nat \ {0} /\ b \in Nat \ {0} /\ q \in Nat /\ b = q * a
  <2>1. a \in Nat \ {0} /\ b \in Nat \ {0} /\ b % a = 0 /\ b \in Int
    BY DEF Nested
  <2>2. q \in Int /\ b % a = b - q * a
    BY <2>1, NumberFacts DEF NumberIn
  <2>3. q * a \in Int
    BY <2>1, <2>2
  <2>4. b = q * a
    BY <2>1, <2>2, <2>3
  <2>5. q \in Nat
    BY <2>1
  <2>6. QED BY <2>1, <2>4, <2>5
<1>2. t \in Int
  BY DEF Clock, BarPipelineAssumption
<1>3. n \in Int /\ n * a <= t /\ t < n * a + a /\ m \in Int /\ m * b <= t /\ t < m * b + b
  BY <1>1, <1>2, NumberFacts
<1>4. s \in Clock /\ s <= t /\ n * a <= s
  BY <1>1, StartFacts
<1> HIDE DEF n, m, q
<1> DEFINE p == m * q
<1>5. p \in Int /\ p * a = m * b
  <2>1. p \in Int
    BY <1>1, <1>3
  <2>2. (m * q) * a = m * (q * a)
    BY <1>1, <1>3
  <2>3. QED BY <1>1, <2>1, <2>2
<1> HIDE DEF p
<1>6. p <= n
  <2> DEFINE y == p * a
  <2>1. y \in Int /\ y <= t /\ p * a <= y /\ y < p * a + a
    BY <1>1, <1>3, <1>5
  <2>2. p = NumberIn(y, a)
    <3> HIDE DEF y
    <3>1. QED BY <1>1, <1>5, <2>1, NumberUnique
  <2> HIDE DEF y
  <2>3. NumberIn(y, a) <= NumberIn(t, a)
    BY <1>1, <1>2, <2>1, NumbersOrdered
  <2>4. QED BY <2>2, <2>3 DEF n
<1>7. p * a <= n * a
  BY <1>1, <1>3, <1>5, <1>6, FurtherOn
<1>8. s \in Int
  BY <1>4 DEF Clock, BarPipelineAssumption
<1>9. m * b <= s /\ s < m * b + b
  <2> DEFINE e == n * a
             g == m * b
  <2>1. e \in Int /\ g \in Int /\ g <= e /\ e <= s /\ s <= t /\ t < g + b
    BY <1>1, <1>3, <1>4, <1>5, <1>7
  <2> HIDE DEF e, g
  <2>2. g <= s /\ s < g + b
    BY <1>1, <1>2, <1>8, <2>1
  <2>3. QED BY <2>2 DEF g
<1>10. m = NumberIn(s, b)
  BY <1>1, <1>3, <1>8, <1>9, NumberUnique
<1>11. QED BY <1>4, <1>10 DEF m

(* Items in the order of the short buckets are in that of the long ones. *)
LEMMA NestedOrder ==
  ASSUME BarPipelineAssumption, NEW a, NEW b, Nested(a, b), NEW t \in Clock, NEW u \in Clock,
         NumberIn(t, a) <= NumberIn(u, a)
  PROVE  /\ NumberIn(t, b) <= NumberIn(u, b)
         /\ NumberIn(t, a) = NumberIn(u, a) => NumberIn(t, b) = NumberIn(u, b)
<1> DEFINE n == NumberIn(t, a)
           m == NumberIn(u, a)
<1>1. a \in Nat \ {0} /\ b \in Nat \ {0} /\ t \in Int /\ u \in Int
  BY DEF Nested, Clock, BarPipelineAssumption
<1>2. n \in Int /\ m \in Int /\ NumberIn(t, b) \in Int
  BY <1>1, NumberFacts
<1>3. ASSUME n = m PROVE NumberIn(t, b) = NumberIn(u, b)
  <2> DEFINE s == StartIn(n, a)
  <2>1. NumberIn(s, b) = NumberIn(t, b)
    BY NestedStart
  <2>2. s = StartIn(NumberIn(u, a), a)
    BY <1>3
  <2> HIDE DEF s
  <2>3. NumberIn(s, b) = NumberIn(u, b)
    BY <2>2, NestedStart
  <2>4. QED BY <2>1, <2>3
<1>4. CASE n = m
  BY <1>2, <1>3, <1>4
<1>5. CASE n # m
  <2>1. t <= u
    <3> SUFFICES ASSUME ~(t <= u) PROVE FALSE
      OBVIOUS
    <3>1. u <= t
      BY <1>1
    <3>2. m <= n
      BY <1>1, <3>1, NumbersOrdered
    <3> HIDE DEF n, m
    <3>3. n <= m
      BY DEF n, m
    <3>4. QED BY <1>2, <1>5, <3>2, <3>3
  <2>2. NumberIn(t, b) <= NumberIn(u, b)
    BY <1>1, <2>1, NumbersOrdered
  <2>3. QED BY <1>3, <2>2
<1>6. QED BY <1>4, <1>5

(* The same of sequences of items. *)
LEMMA NestedItems ==
  ASSUME BarPipelineAssumption, NEW a, NEW b, Nested(a, b), NEW T, Items(T, a)
  PROVE  Items(T, b)
<1>1. T \in Seq(Item) /\ Len(T) > 0 /\ InOrder(T, a)
  BY DEF Items
<1>2. InOrder(T, b)
  <2> SUFFICES ASSUME NEW i \in 1 .. Len(T), NEW j \in 1 .. Len(T), i <= j
               PROVE  NumberIn(T[i].time, b) <= NumberIn(T[j].time, b)
    BY DEF InOrder
  <2> DEFINE t == T[i].time
             u == T[j].time
  <2>1. t \in Clock /\ u \in Clock
    <3>1. T[i] \in Item /\ T[j] \in Item
      BY <1>1
    <3>2. QED BY <3>1, ItemParts
  <2>2. NumberIn(t, a) <= NumberIn(u, a)
    BY <1>1 DEF InOrder
  <2> HIDE DEF t, u
  <2>3. NumberIn(t, b) <= NumberIn(u, b)
    BY <2>1, <2>2, NestedOrder
  <2>4. QED BY <2>3 DEF t, u
<1>3. QED BY <1>1, <1>2 DEF Items

(* Absorbing a candle that absorbed an item is absorbing both. *)
LEMMA AbsorbTwice ==
  ASSUME NEW c \in Item, NEW y \in Item, NEW x \in Item
  PROVE  Absorbed(Absorbed(c, y), x) = Absorbed(c, Absorbed(y, x))
<1>1. /\ c.high \in Int /\ y.high \in Int /\ x.high \in Int
      /\ c.low \in Int /\ y.low \in Int /\ x.low \in Int
      /\ c.volume \in Nat /\ y.volume \in Nat /\ x.volume \in Nat
  BY ItemParts
<1>2. QED BY <1>1 DEF Absorbed

(* Beginning with a candle that absorbed an item, or absorbing the item then. *)
LEMMA FreshAbsorbs ==
  ASSUME NEW y, NEW x, NEW b
  PROVE  Fresh(Absorbed(y, x), b) = Absorbed(Fresh(y, b), x)
BY DEF Fresh, Absorbed

(* Flat candles are candles. *)
LEMMA BetweenItems ==
  ASSUME BarPipelineAssumption, NEW b \in Nat \ {0}, NEW f \in BOOLEAN, NEW c \in Item,
         NEW t \in Clock, NEW u \in Clock, NEW n, n = NumberIn(t, b), NEW m, m = NumberIn(u, b),
         n < m
  PROVE  Between(c, n, m, b, f) \in Seq(Item)
<1> DEFINE w == Between(c, n, m, b, f)
<1>1. CASE f
  <2>1. w = [k \in 1 .. m - n - 1 |-> Flat(c.close, StartIn(n, b) + k * b)]
    BY <1>1 DEF Between
  <2>2. \A k \in 1 .. m - n - 1 : StartIn(n, b) + k * b \in Clock
    BY AlwaysTimely DEF Timely
  <2>3. \A k \in 1 .. m - n - 1 : Flat(c.close, StartIn(n, b) + k * b) \in Item
    BY <2>2, ItemParts DEF Flat, Item
  <2>4. n \in Int /\ m \in Int
    <3>1. t \in Int /\ u \in Int
      BY DEF Clock, BarPipelineAssumption
    <3>2. QED BY <3>1, NumberFacts
  <2> DEFINE k1 == m - n - 1
  <2>5. k1 \in Nat
    BY <2>4
  <2>6. w \in [1 .. k1 -> Item]
    BY <2>1, <2>3
  <2> HIDE DEF w, k1
  <2>7. w \in Seq(Item)
    BY <2>5, <2>6
  <2>8. QED BY <2>7 DEF w
<1>2. CASE ~f
  BY <1>2 DEF Between
<1>3. QED BY <1>1, <1>2

(* Sequences that are alike with one more item each were alike before. *)
LEMMA AppendsAlike ==
  ASSUME NEW p \in Seq(Item), NEW q \in Seq(Item), NEW x \in Item, NEW y \in Item,
         Append(p, x) = Append(q, y)
  PROVE  p = q /\ x = y
<1> DEFINE u == Append(p, x)
<1>1. Front(u) = p /\ u[Len(u)] = x
  BY AppendFacts
<1>2. u = Append(q, y)
  OBVIOUS
<1> HIDE DEF u
<1>3. Front(u) = q /\ u[Len(u)] = y
  BY <1>2, AppendFacts
<1>4. QED BY <1>1, <1>3

(* The series of all but the last item, and the step from there. *)
LEMMA OneBack ==
  ASSUME BarPipelineAssumption, NEW b \in Nat \ {0}, NEW f \in BOOLEAN, NEW p \in Seq(Item),
         NEW y \in Item, NEW u, Good(Append(p, y), u, b, f), Len(p) > 0
  PROVE  /\ Items(p, b) /\ LastNumber(p, b) <= NumberIn(y.time, b)
         /\ \E v : Good(p, v, b, f) /\ u = Extended(v, p, y, b, f)
<1> DEFINE T == Append(p, y)
<1>1. Items(T, b)
  BY DEF Good
<1>2. Len(T) > 1
  OBVIOUS
<1> HIDE DEF T
<1>3. PICK S, x : /\ T = Append(S, x) /\ x \in Item /\ Items(S, b)
                  /\ LastNumber(S, b) <= NumberIn(x.time, b)
  BY <1>1, <1>2, LastApart
<1>4. S = p /\ x = y
  <2>1. S \in Seq(Item) /\ Append(p, y) = Append(S, x)
    BY <1>3 DEF Items, T
  <2>2. QED BY <1>3, <2>1, AppendsAlike
<1>5. Items(p, b) /\ LastNumber(p, b) <= NumberIn(y.time, b)
  BY <1>3, <1>4
<1>6. PICK v : Good(p, v, b, f)
  BY <1>5, SeriesExist DEF HasSeries
<1> DEFINE w == Extended(v, p, y, b, f)
<1>7. Good(T, w, b, f) /\ Good(T, u, b, f)
  BY <1>5, <1>6, GoodExtends DEF T
<1> HIDE DEF w
<1>8. u = w
  BY <1>7, GoodUnique
<1>9. QED BY <1>5, <1>6, <1>8 DEF w

(* Only the last replacement of the last candle is seen. *)
LEMMA ReplacedTwice ==
  ASSUME NEW v \in Seq(Item), Len(v) > 0, NEW c \in Item, NEW d \in Item
  PROVE  /\ Replaced(Replaced(v, c), d) = Replaced(v, d)
         /\ Replaced(v, c) \in Seq(Item) /\ Len(Replaced(v, c)) = Len(v)
         /\ Replaced(v, c)[Len(v)] = c
         /\ \A j \in 1 .. Len(v) - 1 : Replaced(v, c)[j] = v[j]
<1> DEFINE w == Replaced(v, c)
<1>1. w = [j \in 1 .. Len(v) |-> IF j = Len(v) THEN c ELSE v[j]] /\ Len(v) \in Nat
  BY DEF Replaced
<1>2. w \in [1 .. Len(v) -> Item]
  BY <1>1
<1>3. w[Len(v)] = c /\ \A j \in 1 .. Len(v) - 1 : w[j] = v[j]
  BY <1>1
<1> HIDE DEF w
<1>4. w \in Seq(Item) /\ Len(w) = Len(v)
  <2> DEFINE k == Len(v)
  <2>1. k \in Nat /\ w \in [1 .. k -> Item]
    BY <1>2
  <2> HIDE DEF k
  <2>2. w \in Seq(Item) /\ Len(w) = k
    BY <2>1
  <2>3. QED BY <2>2 DEF k
<1>5. Replaced(w, d) = Replaced(v, d)
  <2>1. Replaced(w, d) = [j \in 1 .. Len(v) |-> IF j = Len(v) THEN d ELSE w[j]]
    BY <1>4 DEF Replaced
  <2>2. \A j \in 1 .. Len(v) : j # Len(v) => w[j] = v[j]
    BY <1>1
  <2>3. QED BY <2>1, <2>2 DEF Replaced
<1>6. QED BY <1>3, <1>4, <1>5 DEF w

-----------------------------------------------------------------------------
(* The coarse series of the fine candles                                   *)

(* All there is of a series before the candle of a later bucket. *)
Ahead(q, s, l, m, b, f) == q = s \o Between(s[Len(s)], l, m, b, f)

(* A later bucket's candle is appended to all there is before it. *)
LEMMA FollowedIs ==
  ASSUME BarPipelineAssumption, NEW b \in Nat \ {0}, NEW f \in BOOLEAN, NEW T, NEW s,
         Good(T, s, b, f), NEW x \in Item, NEW l, l = LastNumber(T, b),
         NEW m, m = NumberIn(x.time, b), l < m,
         NEW q, Ahead(q, s, l, m, b, f)
  PROVE  q \in Seq(Item) /\ Followed(s, l, x, b, f) = Append(q, Fresh(x, b))
<1> DEFINE c == s[Len(s)]
           w == Between(c, l, m, b, f)
           y == Fresh(x, b)
           z == T[Len(T)].time
           u == x.time
<1>1. s \in Seq(Item) /\ T \in Seq(Item) /\ Len(T) \in 1 .. Len(T)
  BY DEF Good, Items
<1>2. c \in Item /\ y \in Item
  BY GoodLast, FreshItem
<1>3. z \in Clock /\ u \in Clock /\ l = NumberIn(z, b) /\ m = NumberIn(u, b)
  <2>1. T[Len(T)] \in Item
    BY <1>1
  <2>2. QED BY <2>1, ItemParts DEF LastNumber
<1>4. w \in Seq(Item)
  <2> HIDE DEF c, z, u
  <2>1. QED BY <1>2, <1>3, BetweenItems
<1>5. Followed(s, l, x, b, f) = q \o <<y>>
  BY DEF Followed, Ahead
<1>6. q \in Seq(Item)
  <2>1. q = s \o w
    BY DEF Ahead
  <2> HIDE DEF w, y
  <2>2. QED BY <1>1, <1>4, <2>1
<1> HIDE DEF w, y
<1>7. q \o <<y>> = Append(q, y)
  BY <1>2, <1>6
<1>8. QED BY <1>5, <1>6, <1>7 DEF y, w, c, Ahead

(* More of the last item is more of the last candle. *)
LEMMA LastReplaced ==
  ASSUME BarPipelineAssumption, NEW b \in Nat \ {0}, NEW f \in BOOLEAN, NEW p \in Seq(Item),
         NEW y \in Item, NEW u, Good(Append(p, y), u, b, f), NEW x \in Item
  PROVE  Good(Append(p, Absorbed(y, x)), Replaced(u, Absorbed(u[Len(u)], x)), b, f)
<1> DEFINE y1 == Absorbed(y, x)
           d == Absorbed(u[Len(u)], x)
           u1 == Replaced(u, d)
<1>1. y1 \in Item /\ y1.time = y.time
  BY AbsorbedItem
<1>2. Fresh(y1, b) = Absorbed(Fresh(y, b), x) /\ Fresh(y, b) \in Item /\ Fresh(y1, b) \in Item
  BY <1>1, FreshAbsorbs, FreshItem
<1>3. CASE Len(p) = 0
  <2>1. Append(p, y) = <<y>> /\ Append(p, y1) = <<y1>>
    BY <1>3
  <2> DEFINE g == Fresh(y, b)
             g1 == Fresh(y1, b)
  <2>2. Good(<<y>>, <<g>>, b, f) /\ Good(<<y1>>, <<g1>>, b, f)
    BY <1>1, GoodFirst
  <2>3. Good(<<y>>, u, b, f)
    BY <2>1
  <2>4. u = <<g>>
    <3> HIDE DEF g
    <3>1. QED BY <2>2, <2>3, GoodUnique
  <2>5. d = g1 /\ g1 \in Item
    BY <1>2, <2>4
  <2> HIDE DEF g, g1, d
  <2>6. Replaced(<<g>>, d) = <<g1>>
    BY <2>5 DEF Replaced
  <2>7. QED BY <2>1, <2>2, <2>4, <2>6 DEF d
<1>4. CASE Len(p) # 0
  <2> DEFINE l == LastNumber(p, b)
             m == NumberIn(y.time, b)
  <2>1. Len(p) > 0
    BY <1>4
  <2>2. PICK v : Good(p, v, b, f) /\ u = Extended(v, p, y, b, f)
    BY <2>1, OneBack
  <2>3. l <= m /\ Items(p, b)
    BY <2>1, OneBack
  <2>4. v \in Seq(Item) /\ Len(v) > 0 /\ v[Len(v)] \in Item
    BY <2>2, GoodLast DEF Good
  <2>5. Good(Append(p, y1), Extended(v, p, y1, b, f), b, f)
    <3> HIDE DEF y1
    <3>1. QED BY <1>1, <2>2, <2>3, GoodExtends
  <2>6. CASE m = l
    <3> DEFINE c == Absorbed(v[Len(v)], y)
               c1 == Absorbed(v[Len(v)], y1)
    <3>1. u = Replaced(v, c) /\ Extended(v, p, y1, b, f) = Replaced(v, c1)
      BY <1>1, <2>2, <2>6 DEF Extended
    <3>2. c \in Item /\ c1 \in Item
      BY <1>1, <2>4, AbsorbedItem
    <3>3. Absorbed(c, x) = c1
      BY <2>4, AbsorbTwice
    <3> HIDE DEF c, c1
    <3>4. Len(u) = Len(v) /\ u[Len(v)] = c
      BY <2>4, <3>1, <3>2, ReplacedTwice
    <3>5. d = c1
      BY <3>3, <3>4
    <3> HIDE DEF d
    <3>6. Replaced(u, d) = Replaced(v, c1)
      BY <2>4, <3>1, <3>2, <3>5, ReplacedTwice
    <3>7. QED BY <2>5, <3>1, <3>6 DEF d
  <2>7. CASE m # l
    <3> DEFINE q == v \o Between(v[Len(v)], l, m, b, f)
               g == Fresh(y, b)
               g1 == Fresh(y1, b)
    <3>1. l < m
      <4>1. l \in Int
        BY <2>3, CoverFacts
      <4>2. m \in Int
        <5>1. y.time \in Int
          BY ItemParts DEF Clock, BarPipelineAssumption
        <5>2. QED BY <5>1, NumberFacts
      <4> HIDE DEF l, m
      <4>3. l <= m
        BY <2>3 DEF l, m
      <4>4. QED BY <2>7, <4>1, <4>2, <4>3
    <3>2. u = Followed(v, l, y, b, f) /\ Extended(v, p, y1, b, f) = Followed(v, l, y1, b, f)
      BY <1>1, <2>2, <2>7 DEF Extended
    <3>3. q \in Seq(Item) /\ Followed(v, l, y, b, f) = Append(q, g)
      <4>1. l = LastNumber(p, b) /\ m = NumberIn(y.time, b)
            /\ Ahead(q, v, l, m, b, f)
        BY DEF Ahead
      <4> HIDE DEF l, m, q
      <4>2. QED BY <2>2, <3>1, <4>1, FollowedIs
    <3>4. Followed(v, l, y1, b, f) = Append(q, g1)
      <4>1. l = LastNumber(p, b) /\ m = NumberIn(y1.time, b)
            /\ Ahead(q, v, l, m, b, f)
        BY <1>1 DEF Ahead
      <4> HIDE DEF l, m, y1, q
      <4>2. QED BY <1>1, <2>2, <3>1, <4>1, FollowedIs
    <3>5. g \in Item /\ g1 \in Item /\ g1 = Absorbed(g, x)
      BY <1>2
    <3> HIDE DEF q, g, g1
    <3>6. u[Len(u)] = g
      BY <3>2, <3>3, <3>5, AppendFacts
    <3>7. d = g1
      BY <3>5, <3>6
    <3> HIDE DEF d
    <3>8. Replaced(u, d) = Append(q, g1)
      BY <3>2, <3>3, <3>5, <3>7, AppendFacts
    <3>9. QED BY <2>5, <3>2, <3>4, <3>8 DEF d
  <2>8. QED BY <2>6, <2>7
<1>5. QED BY <1>3, <1>4

(* A new fine candle is to the coarse series what its first item is. *)
LEMMA NewAlike ==
  ASSUME BarPipelineAssumption, NEW a, NEW b, Nested(a, b), NEW f \in BOOLEAN,
         NEW S, NEW s, NEW g \in BOOLEAN, Good(S, s, a, g), NEW u, NEW x \in Item,
         NEW z, z = Fresh(x, a)
  PROVE  /\ z \in Item /\ NumberIn(z.time, b) = NumberIn(x.time, b)
         /\ LastNumber(s, b) = LastNumber(S, b)
         /\ Fresh(z, b) = Fresh(x, b)
         /\ Extended(u, s, z, b, f) = Extended(u, S, x, b, f)
<1> DEFINE l == LastNumber(S, a)
<1>0. a \in Nat \ {0} /\ b \in Nat \ {0}
  BY DEF Nested
<1>1. z \in Item /\ z.time = StartIn(NumberIn(x.time, a), a) /\ x.time \in Clock
  BY <1>0, FreshItem, ItemParts DEF Fresh
<1>2. /\ z.open = x.open /\ z.high = x.high /\ z.low = x.low /\ z.close = x.close
      /\ z.volume = x.volume
  BY DEF Fresh
<1>3. NumberIn(z.time, b) = NumberIn(x.time, b)
  BY <1>1, NestedStart
<1>4. LastNumber(s, b) = LastNumber(S, b)
  <2> DEFINE t == S[Len(S)].time
  <2>1. t \in Clock
    <3>1. S \in Seq(Item) /\ Len(S) \in 1 .. Len(S)
      BY DEF Good, Items
    <3>2. S[Len(S)] \in Item
      BY <3>1
    <3>3. QED BY <3>2, ItemParts
  <2>2. l = NumberIn(t, a)
    BY DEF LastNumber
  <2> HIDE DEF l
  <2>3. l = LastNumber(S, a)
    BY DEF l
  <2>5. IsCandle(s[Len(s)], S, l, a)
    BY <1>0, <2>3, GoodLast
  <2>6. s[Len(s)].time = StartIn(l, a)
    BY <2>5 DEF IsCandle
  <2> HIDE DEF t
  <2>7. NumberIn(s[Len(s)].time, b) = NumberIn(t, b)
    BY <2>1, <2>2, <2>6, NestedStart
  <2>8. QED BY <2>7 DEF LastNumber, t
<1>5. Fresh(z, b) = Fresh(x, b)
  BY <1>2, <1>3 DEF Fresh
<1>6. \A c : Absorbed(c, z) = Absorbed(c, x)
  BY <1>2 DEF Absorbed
<1>7. \A n : Followed(u, n, z, b, f) = Followed(u, n, x, b, f)
  BY <1>3, <1>5 DEF Followed
<1>8. Extended(u, s, z, b, f) = Extended(u, S, x, b, f)
  BY <1>3, <1>4, <1>6, <1>7 DEF Extended
<1>9. QED BY <1>1, <1>3, <1>4, <1>5, <1>8

(* A sequence that is not empty is all but its last item, and that one. *)
LEMMA Apart ==
  ASSUME NEW s \in Seq(Item), Len(s) > 0
  PROVE  /\ Front(s) \in Seq(Item) /\ Len(Front(s)) = Len(s) - 1 /\ s[Len(s)] \in Item
         /\ s = Append(Front(s), s[Len(s)])
         /\ \A i \in 1 .. Len(s) - 1 : Front(s)[i] = s[i]
<1> DEFINE p == Front(s)
           y == s[Len(s)]
<1>0. Len(s) \in Nat /\ y \in Item
  OBVIOUS
<1> DEFINE k == Len(s) - 1
<1>1. p = [i \in 1 .. k |-> s[i]] /\ k \in Nat /\ Len(s) = k + 1
  BY <1>0 DEF Front
<1> HIDE DEF k, p
<1>2. p \in [1 .. k -> Item]
  BY <1>0, <1>1
<1>3. p \in Seq(Item) /\ Len(p) = k
  BY <1>1, <1>2
<1>4. \A i \in 1 .. k : p[i] = s[i]
  BY <1>1
<1>5. s = Append(p, y)
  <2> DEFINE w == Append(p, y)
  <2>1. w \in Seq(Item) /\ Len(w) = k + 1 /\ w[k + 1] = y
    BY <1>0, <1>3
  <2>2. \A i \in 1 .. k : w[i] = p[i]
    BY <1>0, <1>3
  <2> HIDE DEF w
  <2>3. s = [i \in 1 .. k + 1 |-> s[i]] /\ w = [i \in 1 .. k + 1 |-> w[i]]
    BY <1>0, <1>1, <2>1
  <2>4. \A i \in 1 .. k + 1 : w[i] = s[i]
    <3> SUFFICES ASSUME NEW i \in 1 .. k + 1 PROVE w[i] = s[i]
      OBVIOUS
    <3>1. CASE i = k + 1
      BY <1>1, <2>1, <3>1
    <3>2. CASE i # k + 1
      <4>1. i \in 1 .. k
        BY <1>1, <3>2
      <4>2. QED BY <1>4, <2>2, <4>1
    <3>3. QED BY <3>1, <3>2
  <2>5. w = s
    BY <2>3, <2>4
  <2>6. QED BY <2>5 DEF w
<1>6. QED BY <1>0, <1>1, <1>3, <1>4, <1>5 DEF p

Unfilled(f) == f = FALSE

(* Without gaps filled, the candle of a later bucket comes right after the last. *)
LEMMA Appended ==
  ASSUME BarPipelineAssumption, NEW a \in Nat \ {0}, NEW f0, Unfilled(f0), NEW S, NEW s0,
         Good(S, s0, a, f0), NEW x \in Item, LastNumber(S, a) <= NumberIn(x.time, a),
         NumberIn(x.time, a) # LastNumber(S, a)
  PROVE  /\ Extended(s0, S, x, a, f0) = Append(s0, Fresh(x, a))
         /\ LastNumber(S, a) < NumberIn(x.time, a)
<1> DEFINE z == Fresh(x, a)
           l == LastNumber(S, a)
           m == NumberIn(x.time, a)
<1>0. f0 \in BOOLEAN /\ s0 \in Seq(Item) /\ Items(S, a)
  BY DEF Good, Unfilled
<1>1. l < m
  <2>1. l \in Int
    BY <1>0, CoverFacts
  <2>2. m \in Int
    <3>1. x.time \in Int
      BY ItemParts DEF Clock, BarPipelineAssumption
    <3>2. QED BY <3>1, NumberFacts
  <2> HIDE DEF l, m
  <2>3. l <= m /\ l # m
    BY DEF l, m
  <2>4. QED BY <2>1, <2>2, <2>3
<1>2. Extended(s0, S, x, a, f0) = Append(s0, z)
  <2> DEFINE w == Between(s0[Len(s0)], l, m, a, f0)
  <2>1. Extended(s0, S, x, a, f0) = Followed(s0, l, x, a, f0)
    BY DEF Extended
  <2>2. w = <<>>
    BY DEF Between, Unfilled
  <2>3. Followed(s0, l, x, a, f0) = Append(s0 \o w, z)
    <3> DEFINE q == s0 \o w
    <3>1. l = LastNumber(S, a) /\ m = NumberIn(x.time, a)
          /\ Ahead(q, s0, l, m, a, f0)
      BY DEF Ahead
    <3> HIDE DEF l, m, q
    <3>2. Followed(s0, l, x, a, f0) = Append(q, Fresh(x, a))
      BY <1>0, <1>1, <3>1, FollowedIs
    <3>3. QED BY <3>2 DEF q
  <2> HIDE DEF w, z
  <2>4. s0 \o w = s0
    BY <1>0, <2>2
  <2>5. QED BY <2>1, <2>3, <2>4
<1>3. QED BY <1>1, <1>2

RollsUp(T, a, b, f) ==
  \A s, u : Good(T, s, a, FALSE) /\ Good(T, u, b, f) => Good(s, u, b, f)

(* One more item of either kind keeps the two coarse series the same. *)
LEMMA RollsUpStep ==
  ASSUME BarPipelineAssumption, NEW a, NEW b, Nested(a, b), NEW f \in BOOLEAN,
         NEW S, NEW x \in Item, Items(S, a), LastNumber(S, a) <= NumberIn(x.time, a),
         RollsUp(S, a, b, f)
  PROVE  RollsUp(Append(S, x), a, b, f)
<1> DEFINE f0 == FALSE
           T == Append(S, x)
<1>0. a \in Nat \ {0} /\ b \in Nat \ {0} /\ f0 \in BOOLEAN
  BY DEF Nested
<1>1. Items(S, b)
  BY NestedItems
<1> DEFINE t == S[Len(S)].time
           v == x.time
<1>2. S \in Seq(Item) /\ Len(S) > 0 /\ t \in Clock /\ v \in Clock
  <2>1. S \in Seq(Item) /\ Len(S) > 0 /\ S[Len(S)] \in Item
    BY DEF Items
  <2>2. QED BY <2>1, ItemParts
<1>3. /\ LastNumber(S, b) <= NumberIn(v, b)
      /\ LastNumber(S, a) = NumberIn(v, a) => LastNumber(S, b) = NumberIn(v, b)
  <2>1. NumberIn(t, a) <= NumberIn(v, a)
    BY DEF LastNumber
  <2> HIDE DEF t, v
  <2>2. /\ NumberIn(t, b) <= NumberIn(v, b)
        /\ NumberIn(t, a) = NumberIn(v, a) => NumberIn(t, b) = NumberIn(v, b)
    BY <1>2, <2>1, NestedOrder
  <2>3. QED BY <2>2 DEF LastNumber, t
<1> SUFFICES ASSUME NEW s, NEW u, Good(T, s, a, f0), Good(T, u, b, f) PROVE Good(s, u, b, f)
  BY DEF RollsUp
<1> HIDE DEF f0
<1>4. PICK s0 : Good(S, s0, a, f0) /\ s = Extended(s0, S, x, a, f0)
  BY <1>0, <1>2, OneBack
<1>5. PICK u0 : Good(S, u0, b, f) /\ u = Extended(u0, S, x, b, f)
  BY <1>0, <1>2, OneBack
<1>6. Good(s0, u0, b, f)
  BY <1>4, <1>5 DEF RollsUp, f0
<1>7. s0 \in Seq(Item) /\ Len(s0) \in Nat /\ Len(s0) > 0 /\ s0[Len(s0)] \in Item
  <2>1. s0 \in Seq(Item)
    BY <1>4 DEF Good
  <2> DEFINE l == LastNumber(S, a)
  <2> HIDE DEF l
  <2>2. l = LastNumber(S, a)
    BY DEF l
  <2>3. QED BY <1>0, <1>4, <2>1, <2>2, GoodLast
<1>8. CASE NumberIn(v, a) = LastNumber(S, a)
  <2> DEFINE y == s0[Len(s0)]
             p == Front(s0)
  <2>1. s = Replaced(s0, Absorbed(y, x)) /\ u = Replaced(u0, Absorbed(u0[Len(u0)], x))
    BY <1>3, <1>4, <1>5, <1>8 DEF Extended
  <2>2. p \in Seq(Item) /\ s0 = Append(p, y) /\ y \in Item
    <3>1. QED BY <1>7, Apart
  <2> HIDE DEF y, p
  <2>3. Good(Append(p, Absorbed(y, x)), Replaced(u0, Absorbed(u0[Len(u0)], x)), b, f)
    BY <1>0, <1>6, <2>2, LastReplaced
  <2>4. s = Append(p, Absorbed(y, x))
    <3> DEFINE d == Absorbed(y, x)
    <3>1. d \in Item /\ s = Replaced(Append(p, y), d)
      BY <2>1, <2>2, AbsorbedItem
    <3> HIDE DEF d
    <3>2. s = Append(p, d)
      BY <2>2, <3>1, AppendFacts
    <3>3. QED BY <3>2 DEF d
  <2>5. QED BY <2>1, <2>3, <2>4
<1>9. CASE NumberIn(v, a) # LastNumber(S, a)
  <2> DEFINE z == Fresh(x, a)
             l == LastNumber(S, a)
             m == NumberIn(v, a)
  <2>1. s = Append(s0, z)
    <3>1. Extended(s0, S, x, a, f0) = Append(s0, z)
      <4>1. Unfilled(f0)
        BY DEF Unfilled, f0
      <4>2. QED BY <1>0, <1>4, <1>9, <4>1, Appended
    <3>2. QED BY <1>4, <3>1
  <2>3. /\ z \in Item /\ NumberIn(z.time, b) = NumberIn(v, b)
        /\ LastNumber(s0, b) = LastNumber(S, b)
        /\ Extended(u0, s0, z, b, f) = Extended(u0, S, x, b, f)
    <3>1. z = Fresh(x, a)
      OBVIOUS
    <3> HIDE DEF z
    <3>2. QED BY <1>0, <1>4, <3>1, NewAlike
  <2> HIDE DEF z
  <2>4. LastNumber(s0, b) <= NumberIn(z.time, b)
    BY <1>3, <2>3
  <2>5. Good(Append(s0, z), Extended(u0, s0, z, b, f), b, f)
    BY <1>0, <1>6, <2>3, <2>4, GoodExtends
  <2>6. QED BY <1>5, <2>1, <2>3, <2>5
<1>10. QED BY <1>8, <1>9

(* The coarse series of items is that of their fine one. *)
LEMMA RollingUp ==
  ASSUME BarPipelineAssumption, NEW a, NEW b, Nested(a, b), NEW f \in BOOLEAN, NEW T,
         Items(T, a)
  PROVE  RollsUp(T, a, b, f)
<1> DEFINE A == {k \in Nat : \A U : Items(U, a) /\ Len(U) = k => RollsUp(U, a, b, f)}
<1>0. a \in Nat \ {0} /\ b \in Nat \ {0}
  BY DEF Nested
<1>1. 1 \in A
  <2> SUFFICES ASSUME NEW U, Items(U, a), Len(U) = 1 PROVE RollsUp(U, a, b, f)
    OBVIOUS
  <2>1. PICK x \in Item : U = <<x>>
    BY LoneItem DEF Items, Lone
  <2> SUFFICES ASSUME NEW s, NEW u, Good(U, s, a, FALSE), Good(U, u, b, f)
               PROVE  Good(s, u, b, f)
    BY DEF RollsUp
  <2> DEFINE f0 == FALSE
             z == Fresh(x, a)
             w == <<z>>
             e == <<Fresh(x, b)>>
             g == <<Fresh(z, b)>>
  <2>2. f0 \in BOOLEAN /\ Good(U, s, a, f0)
    OBVIOUS
  <2> HIDE DEF f0
  <2>3. Good(U, w, a, f0) /\ Good(U, e, b, f)
    BY <1>0, <2>1, <2>2, GoodFirst
  <2>4. s = w /\ u = e
    <3> HIDE DEF w, e
    <3>1. s = w
      BY <1>0, <2>2, <2>3, GoodUnique
    <3>2. u = e
      BY <1>0, <2>3, GoodUnique
    <3>3. QED BY <3>1, <3>2
  <2>5. z \in Item /\ Fresh(z, b) = Fresh(x, b)
    <3>1. z = Fresh(x, a)
      OBVIOUS
    <3> HIDE DEF z
    <3>2. QED BY <1>0, <2>2, <3>1, NewAlike
  <2>6. Good(<<z>>, g, b, f)
    <3> HIDE DEF z
    <3>1. QED BY <1>0, <2>5, GoodFirst
  <2>7. g = e
    BY <2>5
  <2>8. QED BY <2>4, <2>6, <2>7
<1>2. ASSUME NEW k \in A, k \in Nat PROVE k + 1 \in A
  <2> SUFFICES ASSUME NEW U, Items(U, a), Len(U) = k + 1 PROVE RollsUp(U, a, b, f)
    OBVIOUS
  <2>1. CASE k = 0
    <3>1. Len(U) = 1
      BY <2>1
    <3>2. QED BY <1>1, <3>1
  <2>2. CASE k # 0
    <3>1. Len(U) > 1
      BY <1>2, <2>2
    <3>2. PICK S, x : /\ U = Append(S, x) /\ x \in Item /\ Items(S, a) /\ Len(S) = Len(U) - 1
                      /\ LastNumber(S, a) <= NumberIn(x.time, a)
      BY <1>0, <3>1, LastApart
    <3>3. Len(S) = k
      BY <1>2, <3>2
    <3>4. RollsUp(S, a, b, f)
      BY <1>2, <3>2, <3>3
    <3>5. QED BY <3>2, <3>4, RollsUpStep
  <2>3. QED BY <2>1, <2>2
<1> HIDE DEF A
<1>3. \A k \in Nat \ {0} : k \in A
  BY <1>1, <1>2, Counting
<1>4. Len(T) \in Nat \ {0}
  BY DEF Items
<1>5. Len(T) \in A
  BY <1>3, <1>4
<1>6. QED BY <1>5 DEF A

-----------------------------------------------------------------------------
(* Volumes, and series of a beginning                                      *)

Volumes(s) == [k \in 1 .. Len(s) |-> s[k].volume]

(* A sequence's volume is the end of a running sum. *)
LEMMA SumTotals ==
  ASSUME NEW s, Len(s) \in Nat
  PROVE  \E g : Sum(s) = g[Len(s)] /\ g[0] = 0 /\ RunsUp(g, Volumes(s), Len(s))
<1> DEFINE Totals(g) ==
             g = [k \in 0 .. Len(s) |-> IF k = 0 THEN 0 ELSE g[k - 1] + s[k].volume]
           f == CHOOSE g : Totals(g)
<1>1. PICK g : Adds(g, Volumes(s), Len(s))
  BY SumsExist
<1>2. Totals(g)
  <2>1. \A k \in 0 .. Len(s) :
          (IF k = 0 THEN 0 ELSE g[k - 1] + Volumes(s)[k]) =
          IF k = 0 THEN 0 ELSE g[k - 1] + s[k].volume
    BY DEF Volumes
  <2>2. QED BY <1>1, <2>1 DEF Adds
<1>3. Totals(f)
  <2> HIDE DEF Totals
  <2>1. QED BY <1>2
<1>4. Sum(s) = f[Len(s)]
  BY DEF Sum
<1> HIDE DEF f
<1>5. f[0] = 0 /\ \A k \in 1 .. Len(s) : f[k] = f[k - 1] + Volumes(s)[k]
  BY <1>3 DEF Volumes
<1>6. QED BY <1>4, <1>5 DEF RunsUp

(* Sequences of the same volumes weigh the same. *)
LEMMA SumSame ==
  ASSUME NEW s, NEW u, Len(s) \in Nat, Len(u) = Len(s),
         \A k \in 1 .. Len(s) : s[k].volume = u[k].volume
  PROVE  Sum(s) = Sum(u)
<1> DEFINE k == Len(s)
           w == Volumes(s)
<1>1. Volumes(u) = w /\ k \in Nat
  BY DEF Volumes
<1>2. PICK g : Sum(s) = g[k] /\ g[0] = 0 /\ RunsUp(g, w, k)
  BY SumTotals
<1>3. PICK h : Sum(u) = h[k] /\ h[0] = 0 /\ RunsUp(h, w, k)
  <2>1. Len(u) \in Nat
    OBVIOUS
  <2>2. PICK h : Sum(u) = h[Len(u)] /\ h[0] = 0 /\ RunsUp(h, Volumes(u), Len(u))
    BY <2>1, SumTotals
  <2>3. QED BY <1>1, <2>2
<1> HIDE DEF k, w
<1>4. \A j \in 0 .. k : g[j] = h[j]
  BY <1>1, <1>2, <1>3, SumsAgree
<1>5. k \in 0 .. k
  BY <1>1
<1>6. QED BY <1>2, <1>3, <1>4, <1>5

(* Nothing weighs nothing. *)
LEMMA SumNone == Sum(<<>>) = 0
<1> DEFINE s == <<>>
<1>1. Len(s) = 0 /\ Len(s) \in Nat
  OBVIOUS
<1> HIDE DEF s
<1>2. Sum(s) = 0
  BY <1>1, SumTotals
<1>3. QED BY <1>2 DEF s

(* One more item adds its volume. *)
LEMMA SumAppend ==
  ASSUME NEW s \in Seq(Item), NEW x \in Item
  PROVE  Sum(s) \in Nat /\ Sum(Append(s, x)) = Sum(s) + x.volume
<1> DEFINE u == Append(s, x)
           k == Len(s)
           v == Volumes(s)
           w == Volumes(u)
<1>1. /\ u \in Seq(Item) /\ Len(u) = k + 1 /\ u[k + 1] = x /\ k \in Nat
      /\ \A i \in 1 .. k : u[i] = s[i] /\ s[i] \in Item
  OBVIOUS
<1>2. \A i \in 1 .. k : s[i].volume \in Nat
  BY <1>1, ItemParts
<1> HIDE DEF u
<1>3. v \in [1 .. k -> Nat] /\ \A i \in 1 .. k : v[i] = w[i]
  <2>1. v \in [1 .. k -> Nat]
    BY <1>2 DEF Volumes
  <2>2. \A i \in 1 .. k : v[i] = s[i].volume /\ w[i] = s[i].volume
    BY <1>1 DEF Volumes
  <2>3. QED BY <2>1, <2>2
<1>4. w[k + 1] = x.volume
  <2>1. k + 1 \in 1 .. Len(u)
    BY <1>1
  <2>2. QED BY <1>1, <2>1 DEF Volumes
<1>5. PICK g : Sum(s) = g[k] /\ g[0] = 0 /\ RunsUp(g, v, k)
  BY <1>1, SumTotals
<1>6. PICK h : Sum(u) = h[Len(u)] /\ h[0] = 0 /\ RunsUp(h, w, Len(u))
  <2>1. Len(u) \in Nat
    BY <1>1
  <2>2. QED BY <2>1, SumTotals
<1> HIDE DEF k, v, w
<1>7. RunsUp(h, v, k) /\ h[k + 1] = h[k] + w[k + 1]
  <2>1. \A i \in 1 .. k : i \in 1 .. k + 1
    BY <1>1
  <2>2. \A i \in 1 .. k : h[i] = h[i - 1] + v[i]
    BY <1>1, <1>3, <1>6, <2>1 DEF RunsUp
  <2>3. k + 1 \in 1 .. k + 1 /\ (k + 1) - 1 = k
    BY <1>1
  <2>4. QED BY <1>1, <1>6, <2>2, <2>3 DEF RunsUp
<1>8. \A i \in 0 .. k : g[i] = h[i]
  BY <1>1, <1>5, <1>6, <1>7, SumsAgree
<1>9. \A i \in 0 .. k : g[i] \in Nat
  BY <1>1, <1>3, <1>5, SumsNatural
<1>10. k \in 0 .. k
  BY <1>1
<1>11. QED BY <1>1, <1>4, <1>5, <1>6, <1>7, <1>8, <1>9, <1>10 DEF u

Weighs(T, a, f) == \A s : Good(T, s, a, f) => Sum(s) = Sum(T)

(* Without gaps filled, a series weighs what its items weigh. *)
LEMMA SeriesWeighs ==
  ASSUME BarPipelineAssumption, NEW a \in Nat \ {0}, NEW f, Unfilled(f), NEW T, Items(T, a)
  PROVE  Weighs(T, a, f)
<1> DEFINE A == {k \in Nat : \A U : Items(U, a) /\ Len(U) = k => Weighs(U, a, f)}
<1>0. f \in BOOLEAN
  BY DEF Unfilled
<1>1. 1 \in A
  <2> SUFFICES ASSUME NEW U, Items(U, a), Len(U) = 1 PROVE Weighs(U, a, f)
    OBVIOUS
  <2>1. PICK x \in Item : U = <<x>>
    BY LoneItem DEF Items, Lone
  <2> SUFFICES ASSUME NEW s, Good(U, s, a, f) PROVE Sum(s) = Sum(U)
    BY DEF Weighs
  <2> DEFINE z == Fresh(x, a)
             w == <<z>>
  <2>2. z.volume = x.volume
    BY DEF Fresh
  <2>3. Good(U, w, a, f)
    BY <1>0, <2>1, GoodFirst
  <2>4. s = w
    <3> HIDE DEF w
    <3>1. QED BY <1>0, <2>3, GoodUnique
  <2>5. Sum(w) = Sum(U)
    <3> HIDE DEF z
    <3>1. Len(w) = 1 /\ Len(U) = 1 /\ w[1] = z /\ U[1] = x
      BY <2>1
    <3> HIDE DEF w
    <3>2. \A k \in 1 .. Len(w) : w[k].volume = U[k].volume
      BY <2>2, <3>1
    <3>3. Len(w) \in Nat /\ Len(U) = Len(w)
      BY <3>1
    <3>4. QED BY <3>2, <3>3, SumSame
  <2>6. QED BY <2>4, <2>5
<1>2. ASSUME NEW k \in A, k \in Nat PROVE k + 1 \in A
  <2> SUFFICES ASSUME NEW U, Items(U, a), Len(U) = k + 1 PROVE Weighs(U, a, f)
    OBVIOUS
  <2>1. CASE k = 0
    <3>1. Len(U) = 1
      BY <2>1
    <3>2. QED BY <1>1, <3>1
  <2>2. CASE k # 0
    <3>1. Len(U) > 1
      BY <1>2, <2>2
    <3>2. PICK S, x : /\ U = Append(S, x) /\ x \in Item /\ Items(S, a) /\ Len(S) = Len(U) - 1
                      /\ LastNumber(S, a) <= NumberIn(x.time, a)
      BY <3>1, LastApart
    <3>3. Len(S) = k /\ S \in Seq(Item) /\ Len(S) > 0
      BY <1>2, <3>2 DEF Items
    <3>4. Weighs(S, a, f)
      BY <1>2, <3>2, <3>3
    <3> SUFFICES ASSUME NEW s, Good(U, s, a, f) PROVE Sum(s) = Sum(U)
      BY DEF Weighs
    <3>5. PICK s0 : Good(S, s0, a, f) /\ s = Extended(s0, S, x, a, f)
      BY <1>0, <3>2, <3>3, OneBack
    <3>6. Sum(s0) = Sum(S) /\ Sum(U) = Sum(S) + x.volume /\ Sum(S) \in Nat /\ x.volume \in Nat
      BY <3>2, <3>3, <3>4, <3>5, SumAppend, ItemParts DEF Weighs
    <3>7. s0 \in Seq(Item) /\ Len(s0) \in Nat /\ Len(s0) > 0 /\ s0[Len(s0)] \in Item
      <4>1. s0 \in Seq(Item)
        BY <3>5 DEF Good
      <4> DEFINE l == LastNumber(S, a)
      <4>2. l = LastNumber(S, a)
        OBVIOUS
      <4> HIDE DEF l
      <4>3. QED BY <1>0, <3>5, <4>1, <4>2, GoodLast
    <3>8. CASE NumberIn(x.time, a) = LastNumber(S, a)
      <4> DEFINE y == s0[Len(s0)]
                 d == Absorbed(y, x)
                 p == Front(s0)
      <4>1. p \in Seq(Item) /\ s0 = Append(p, y) /\ y \in Item
        BY <3>7, Apart
      <4>2. d \in Item /\ d.volume = y.volume + x.volume /\ y.volume \in Nat
        <5> HIDE DEF y
        <5>1. QED BY <3>2, <4>1, AbsorbedItem, ItemParts DEF Absorbed
      <4>3. s = Replaced(s0, d)
        BY <3>5, <3>8 DEF Extended
      <4> HIDE DEF y, d, p
      <4>4. s = Append(p, d)
        BY <4>1, <4>2, <4>3, AppendFacts
      <4>5. Sum(s) = Sum(p) + d.volume /\ Sum(s0) = Sum(p) + y.volume /\ Sum(p) \in Nat
        BY <4>1, <4>2, <4>4, SumAppend
      <4>6. QED BY <3>6, <4>2, <4>5
    <3>9. CASE NumberIn(x.time, a) # LastNumber(S, a)
      <4> DEFINE z == Fresh(x, a)
      <4>1. s = Append(s0, z)
        BY <1>0, <3>2, <3>5, <3>9, Appended
      <4>2. z \in Item /\ z.volume = x.volume
        BY <3>2, FreshItem DEF Fresh
      <4> HIDE DEF z
      <4>3. Sum(s) = Sum(s0) + x.volume
        BY <3>7, <4>1, <4>2, SumAppend
      <4>4. QED BY <3>6, <4>3
    <3>10. QED BY <3>8, <3>9
  <2>3. QED BY <2>1, <2>2
<1> HIDE DEF A
<1>3. \A k \in Nat \ {0} : k \in A
  BY <1>1, <1>2, Counting
<1>4. Len(T) \in Nat \ {0}
  BY DEF Items
<1>5. Len(T) \in A
  BY <1>3, <1>4
<1>6. QED BY <1>5 DEF A

(* All but the last, which may still take more. *)
Agrees(w, u) == Len(w) <= Len(u) /\ \A j \in 1 .. Len(w) - 1 : u[j] = w[j]

StartsWith(T, v) == Len(v) <= Len(T) /\ \A j \in 1 .. Len(v) : T[j] = v[j]

Grows(T, b, f) ==
  \A v, w, u : Good(v, w, b, f) /\ Good(T, u, b, f) /\ StartsWith(T, v) => Agrees(w, u)

(* One more item leaves all but the last candle of a series. *)
LEMMA ExtendedAgrees ==
  ASSUME BarPipelineAssumption, NEW b \in Nat \ {0}, NEW f \in BOOLEAN, NEW S, NEW u,
         Good(S, u, b, f), NEW x \in Item, LastNumber(S, b) <= NumberIn(x.time, b)
  PROVE  Agrees(u, Extended(u, S, x, b, f))
<1> DEFINE l == LastNumber(S, b)
           m == NumberIn(x.time, b)
           u1 == Extended(u, S, x, b, f)
<1>1. u \in Seq(Item) /\ Len(u) \in Nat /\ Len(u) > 0 /\ u[Len(u)] \in Item
  <2>1. u \in Seq(Item)
    BY DEF Good
  <2>2. l = LastNumber(S, b)
    OBVIOUS
  <2> HIDE DEF l
  <2>3. QED BY <2>1, <2>2, GoodLast
<1>2. CASE m = l
  <2> DEFINE d == Absorbed(u[Len(u)], x)
  <2>1. u1 = Replaced(u, d) /\ d \in Item
    BY <1>1, <1>2, AbsorbedItem DEF Extended
  <2> HIDE DEF d, u1
  <2>2. Len(u1) = Len(u) /\ \A j \in 1 .. Len(u) - 1 : u1[j] = u[j]
    BY <1>1, <2>1, ReplacedTwice
  <2>3. QED BY <1>1, <2>2 DEF Agrees, u1
<1>3. CASE m # l
  <2> DEFINE q == u \o Between(u[Len(u)], l, m, b, f)
             g == Fresh(x, b)
             w == Between(u[Len(u)], l, m, b, f)
             z == S[Len(S)].time
  <2>1. u1 = Followed(u, l, x, b, f)
    BY <1>3 DEF Extended
  <2>2. z \in Clock /\ x.time \in Clock
    <3>1. S \in Seq(Item) /\ Len(S) \in 1 .. Len(S)
      BY DEF Good, Items
    <3>2. S[Len(S)] \in Item
      BY <3>1
    <3>3. QED BY <3>2, ItemParts
  <2>3. l < m
    <3>1. l \in Int
      BY CoverFacts DEF Good
    <3>2. m \in Int
      <4>1. x.time \in Int
        BY ItemParts DEF Clock, BarPipelineAssumption
      <4>2. QED BY <4>1, NumberFacts
    <3> HIDE DEF l, m
    <3>3. l <= m /\ l # m
      BY <1>3 DEF l, m
    <3>4. QED BY <3>1, <3>2, <3>3
  <2>4. u1 = Append(q, g)
    <3>1. l = LastNumber(S, b) /\ m = NumberIn(x.time, b) /\ Ahead(q, u, l, m, b, f)
      BY DEF Ahead
    <3> HIDE DEF l, m, q, u1
    <3>2. Followed(u, l, x, b, f) = Append(q, Fresh(x, b))
      BY <2>3, <3>1, FollowedIs
    <3>3. QED BY <2>1, <3>2
  <2>5. w \in Seq(Item) /\ q = u \o w
    <3>1. l = NumberIn(z, b) /\ m = NumberIn(x.time, b)
      BY DEF LastNumber
    <3> HIDE DEF l, m, z
    <3>2. w \in Seq(Item)
      BY <1>1, <2>2, <2>3, <3>1, BetweenItems
    <3>3. QED BY <3>2
  <2> HIDE DEF w, q, g, u1, l, m, z
  <2>6. /\ q \in Seq(Item) /\ Len(q) >= Len(u) /\ Len(q) \in Nat
        /\ \A j \in 1 .. Len(u) : q[j] = u[j]
    BY <1>1, <2>5
  <2>7. g \in Item
    BY FreshItem DEF g
  <2>8. Len(u1) = Len(q) + 1 /\ \A j \in 1 .. Len(q) : u1[j] = q[j]
    BY <2>4, <2>6, <2>7
  <2>9. \A j \in 1 .. Len(u) - 1 : j \in 1 .. Len(u) /\ j \in 1 .. Len(q)
    BY <1>1, <2>6
  <2>10. Len(u) <= Len(u1)
    BY <1>1, <2>6, <2>8
  <2>11. QED BY <2>6, <2>8, <2>9, <2>10 DEF Agrees, u1
<1>4. QED BY <1>2, <1>3

(* The series of a beginning is the beginning of the series, but for its last
   candle. *)
LEMMA SeriesGrows ==
  ASSUME BarPipelineAssumption, NEW b \in Nat \ {0}, NEW f \in BOOLEAN, NEW T, Items(T, b)
  PROVE  Grows(T, b, f)
<1> DEFINE A == {k \in Nat : \A U : Items(U, b) /\ Len(U) = k => Grows(U, b, f)}
<1>0. ASSUME NEW U, NEW v, NEW w, NEW u, Items(U, b), Good(v, w, b, f), Good(U, u, b, f),
             StartsWith(U, v), ~(Len(v) < Len(U))
      PROVE  Agrees(w, u)
  <2>1. v \in Seq(Item) /\ U \in Seq(Item) /\ Len(v) = Len(U)
    BY <1>0 DEF Good, Items, StartsWith
  <2>2. \A j \in 1 .. Len(U) : U[j] = v[j]
    BY <1>0, <2>1 DEF StartsWith
  <2>3. v = U
    BY <2>1, <2>2
  <2>4. w = u
    BY <1>0, <2>3, GoodUnique
  <2>5. Len(u) \in Nat
    BY <1>0 DEF Good
  <2>6. QED BY <2>4, <2>5 DEF Agrees
<1>1. 1 \in A
  <2> SUFFICES ASSUME NEW U, Items(U, b), Len(U) = 1 PROVE Grows(U, b, f)
    OBVIOUS
  <2> SUFFICES ASSUME NEW v, NEW w, NEW u, Good(v, w, b, f), Good(U, u, b, f), StartsWith(U, v)
               PROVE  Agrees(w, u)
    BY DEF Grows
  <2>1. Len(v) > 0 /\ Len(v) \in Nat
    BY DEF Good, Items
  <2>2. ~(Len(v) < Len(U))
    BY <2>1
  <2>3. QED BY <1>0, <2>2
<1>2. ASSUME NEW k \in A, k \in Nat PROVE k + 1 \in A
  <2> SUFFICES ASSUME NEW U, Items(U, b), Len(U) = k + 1 PROVE Grows(U, b, f)
    OBVIOUS
  <2>1. CASE k = 0
    <3>1. Len(U) = 1
      BY <2>1
    <3>2. QED BY <1>1, <3>1
  <2>2. CASE k # 0
    <3>1. Len(U) > 1
      BY <1>2, <2>2
    <3>2. PICK S, x : /\ U = Append(S, x) /\ x \in Item /\ Items(S, b) /\ Len(S) = Len(U) - 1
                      /\ LastNumber(S, b) <= NumberIn(x.time, b)
      BY <3>1, LastApart
    <3>3. Len(S) = k /\ S \in Seq(Item) /\ Len(S) > 0
      BY <1>2, <3>2 DEF Items
    <3>4. Grows(S, b, f)
      BY <1>2, <3>2, <3>3
    <3> SUFFICES ASSUME NEW v, NEW w, NEW u, Good(v, w, b, f), Good(U, u, b, f), StartsWith(U, v)
                 PROVE  Agrees(w, u)
      BY DEF Grows
    <3>5. CASE Len(v) < Len(U)
      <4>1. StartsWith(S, v)
        <5>1. Len(v) \in Nat /\ Len(v) <= Len(S)
          <6>1. Len(v) \in Nat
            BY DEF Good, Items
          <6>2. QED BY <1>2, <3>3, <3>5, <6>1
        <5>2. \A j \in 1 .. Len(S) : U[j] = S[j]
          BY <3>2, <3>3
        <5>3. \A j \in 1 .. Len(v) : j \in 1 .. Len(S) /\ U[j] = v[j]
          BY <1>2, <3>3, <5>1 DEF StartsWith
        <5>4. QED BY <5>1, <5>2, <5>3 DEF StartsWith
      <4>2. PICK u0 : Good(S, u0, b, f) /\ u = Extended(u0, S, x, b, f)
        BY <3>2, <3>3, OneBack
      <4>3. Agrees(w, u0)
        BY <3>4, <4>1, <4>2 DEF Grows
      <4>4. Agrees(u0, u)
        BY <3>2, <4>2, ExtendedAgrees
      <4>5. Len(w) \in Nat /\ Len(u0) \in Nat
        BY <4>2 DEF Good
      <4>6. Len(u) \in Nat
        BY DEF Good
      <4>7. \A j \in 1 .. Len(w) - 1 : j \in 1 .. Len(u0) - 1
        BY <4>3, <4>5 DEF Agrees
      <4>8. QED BY <4>3, <4>4, <4>5, <4>6, <4>7 DEF Agrees
    <3>6. CASE ~(Len(v) < Len(U))
      BY <1>0, <3>6
    <3>7. QED BY <3>5, <3>6
  <2>3. QED BY <2>1, <2>2
<1> HIDE DEF A
<1>3. \A k \in Nat \ {0} : k \in A
  BY <1>1, <1>2, Counting
<1>4. Len(T) \in Nat \ {0}
  BY DEF Items
<1>5. Len(T) \in A
  BY <1>3, <1>4
<1>6. QED BY <1>5 DEF A

-----------------------------------------------------------------------------
(* What is left when a stage has ended                                     *)

Shown(s) == IF s[Len(s)].volume <= MaxVolume THEN s ELSE Front(s)

Ended(items, closed, b, f) ==
  \/ items = <<>> /\ closed = <<>>
  \/ \E s : Good(items, s, b, f) /\ closed = Shown(s)

PipelineEnds ==
  /\ fineBar = None =>
       Ended(ItemsOf(fineTaken), fineClosed, Timeframes.fine, fills.fine)
  /\ directBar = None =>
       Ended(ItemsOf(directTaken), directClosed, Timeframes.coarse, fills.coarse)
  /\ rolledBar = None =>
       Ended(rolledTaken, rolledClosed, Timeframes.coarse, fills.coarse)

(* A flush hands out what the stage shows of its series. *)
LEMMA RunningEnds ==
  ASSUME NEW items, NEW closed, NEW c, NEW b, NEW f, Running(items, closed, c, b, f),
         NEW closed1, closed1 = IF c.volume <= MaxVolume THEN Append(closed, c) ELSE closed
  PROVE  Ended(items, closed1, b, f)
<1> DEFINE s == Append(closed, c)
<1>1. closed \in Seq(Item) /\ c \in Item /\ Good(items, s, b, f)
  BY DEF Running
<1>2. Front(s) = closed /\ s[Len(s)] = c
  BY <1>1, AppendFacts
<1> HIDE DEF s
<1>3. closed1 = Shown(s)
  BY <1>2 DEF Shown, s
<1>4. QED BY <1>1, <1>3 DEF Ended

(* Before its first item a stage has shown nothing. *)
LEMMA EndsBegin ==
  ASSUME BarPipelineAssumption, Init
  PROVE  PipelineEnds
<1>1. /\ fineTaken = <<>> /\ fineClosed = <<>> /\ directTaken = <<>> /\ directClosed = <<>>
      /\ rolledTaken = <<>> /\ rolledClosed = <<>>
  BY DEF Init, Fine!Init, Direct!Init, Rolled!Init
<1>2. ItemsOf(fineTaken) = <<>> /\ ItemsOf(directTaken) = <<>>
  <2>1. ItemsOf(<<>>) = <<>>
    BY DEF ItemsOf
  <2>2. QED BY <1>1, <2>1
<1>3. QED BY <1>1, <1>2 DEF PipelineEnds, Ended

(* After a tick the fine stage has a bar. *)
LEMMA FineOpens ==
  ASSUME BarPipelineAssumption, FineState, NEW t \in Ticks, Fine!Push(t)
  PROVE  fineBar' # None
<1>1. CASE fineBar' = TickBar(t, Timeframes.fine)
  BY <1>1, SpansAre, TickBarFacts, BarIsSome
<1>2. CASE fineBar # None /\ fineBar' = TickAbsorb(fineBar, t)
  <2>1. fineBar \in Bar
    BY <1>2 DEF FineState, TickState, OpenTicks
  <2>2. QED BY <1>2, <2>1, TickAbsorbFacts, BarIsSome
<1>3. QED BY <1>1, <1>2, FineMeans DEF Fine!Push

(* After a tick the coarse stage has a bar. *)
LEMMA DirectOpens ==
  ASSUME BarPipelineAssumption, DirectState, NEW t \in Ticks, Direct!Push(t)
  PROVE  directBar' # None
<1>1. CASE directBar' = TickBar(t, Timeframes.coarse)
  BY <1>1, SpansAre, TickBarFacts, BarIsSome
<1>2. CASE directBar # None /\ directBar' = TickAbsorb(directBar, t)
  <2>1. directBar \in Bar
    BY <1>2 DEF DirectState, TickState, OpenTicks
  <2>2. QED BY <1>2, <2>1, TickAbsorbFacts, BarIsSome
<1>3. QED BY <1>1, <1>2, DirectMeans DEF Direct!Push

(* After a candle the resampler has a bar. *)
LEMMA RolledOpens ==
  ASSUME BarPipelineAssumption, RolledState, NEW x \in Item, Rolled!Push(x)
  PROVE  rolledBar' # None
<1>1. CASE rolledBar' = Fresh(x, Timeframes.coarse)
  BY <1>1, SpansAre, FreshItem, BarIsSome
<1>2. CASE rolledBar # None /\ rolledBar' = Rolled!Absorb(x)
  <2>1. rolledBar \in Item
    BY <1>2 DEF RolledState, Running
  <2>2. Rolled!Absorb(x) = Absorbed(rolledBar, x)
    BY <2>1, RolledMeans
  <2>3. QED BY <1>2, <2>1, <2>2, AbsorbedItem, BarIsSome
<1>3. QED BY <1>1, <1>2, RolledMeans DEF Rolled!Push

(* Every step keeps what is left of the series that ended. *)
LEMMA EndsStep ==
  ASSUME BarPipelineAssumption, PipelineInv, PipelineEnds, [Next]_vars
  PROVE  PipelineEnds'
<1> DEFINE a == Timeframes.fine
           b == Timeframes.coarse
<1>1. FineState /\ DirectState /\ RolledState /\ queue \in Seq(Item)
  BY DEF PipelineInv
<1>2. fills' = fills
  BY DEF Next, vars, Trade, Deliver, FlushFine, FlushRolled, FlushDirect
<1>3. fineBar' = None => Ended(ItemsOf(fineTaken'), fineClosed', a, fills'.fine)
  <2>1. CASE UNCHANGED fineVars
    BY <1>2, <2>1 DEF fineVars, PipelineEnds
  <2>2. CASE \E t \in Ticks : Fine!Push(t)
    BY <1>1, <2>2, FineOpens
  <2>3. CASE Fine!Flush
    <3> DEFINE c == AsCandle(fineBar)
    <3>1. /\ fineBar # None /\ fineTaken' = fineTaken
          /\ fineClosed' = IF c.volume <= MaxVolume THEN Append(fineClosed, c) ELSE fineClosed
      BY <2>3, FineMeans DEF Fine!Flush, AsCandle
    <3>2. Running(ItemsOf(fineTaken), fineClosed, c, a, fills.fine)
      BY <1>1, <3>1 DEF FineState, TickState, OpenTicks
    <3> HIDE DEF c
    <3>3. QED BY <1>2, <3>1, <3>2, RunningEnds
  <2>4. QED BY <2>1, <2>2, <2>3
            DEF Next, vars, Trade, Deliver, FlushFine, FlushRolled, FlushDirect
<1>4. directBar' = None => Ended(ItemsOf(directTaken'), directClosed', b, fills'.coarse)
  <2>1. CASE UNCHANGED directVars
    BY <1>2, <2>1 DEF directVars, PipelineEnds
  <2>2. CASE \E t \in Ticks : Direct!Push(t)
    BY <1>1, <2>2, DirectOpens
  <2>3. CASE Direct!Flush
    <3> DEFINE c == AsCandle(directBar)
    <3>1. /\ directBar # None /\ directTaken' = directTaken
          /\ directClosed' = IF c.volume <= MaxVolume THEN Append(directClosed, c)
                             ELSE directClosed
      BY <2>3, DirectMeans DEF Direct!Flush, AsCandle
    <3>2. Running(ItemsOf(directTaken), directClosed, c, b, fills.coarse)
      BY <1>1, <3>1 DEF DirectState, TickState, OpenTicks
    <3> HIDE DEF c
    <3>3. QED BY <1>2, <3>1, <3>2, RunningEnds
  <2>4. QED BY <2>1, <2>2, <2>3
            DEF Next, vars, Trade, Deliver, FlushFine, FlushRolled, FlushDirect
<1>5. rolledBar' = None => Ended(rolledTaken', rolledClosed', b, fills'.coarse)
  <2>1. CASE UNCHANGED rolledVars
    BY <1>2, <2>1 DEF rolledVars, PipelineEnds
  <2>2. CASE \E i \in 1 .. 2 : Deliver(i)
    <3>1. PICK i \in 1 .. 2 : Deliver(i)
      BY <2>2
    <3>2. CASE Rolled!Push(queue[i])
      <4>1. queue[i] \in Item
        <5>1. i \in DOMAIN queue
          BY <3>1 DEF Deliver
        <5>2. QED BY <1>1, <5>1
      <4>2. QED BY <1>1, <3>2, <4>1, RolledOpens
    <3>3. QED BY <2>1, <3>1, <3>2 DEF Deliver
  <2>3. CASE Rolled!Flush
    <3>1. /\ rolledBar # None /\ rolledTaken' = rolledTaken
          /\ rolledClosed' = IF rolledBar.volume <= MaxVolume THEN Append(rolledClosed, rolledBar)
                             ELSE rolledClosed
      BY <2>3, RolledMeans DEF Rolled!Flush
    <3>2. Running(rolledTaken, rolledClosed, rolledBar, b, fills.coarse)
      BY <1>1, <3>1 DEF RolledState
    <3>3. QED BY <1>2, <3>1, <3>2, RunningEnds
  <2>4. QED BY <2>1, <2>2, <2>3 DEF Next, vars, Trade, FlushFine, FlushRolled, FlushDirect
<1>6. ItemsOf(fineTaken)' = ItemsOf(fineTaken') /\ ItemsOf(directTaken)' = ItemsOf(directTaken')
  BY DEF ItemsOf
<1>7. QED BY <1>3, <1>4, <1>5, <1>6 DEF PipelineEnds, Ended

Outcome(bar, items, whole, b, f) ==
  \/ bar = None /\ items = <<>> /\ whole = <<>>
  \/ \E s : Good(items, s, b, f) /\ whole = IF bar = None THEN Shown(s) ELSE s

(* Each stage has shown its series, whether it ended or has an open bar. *)
LEMMA Outcomes ==
  ASSUME PipelineInv, PipelineEnds
  PROVE  /\ Outcome(fineBar, ItemsOf(fineTaken), Whole(fineBar, fineClosed),
                    Timeframes.fine, fills.fine)
         /\ Outcome(directBar, ItemsOf(directTaken), Whole(directBar, directClosed),
                    Timeframes.coarse, fills.coarse)
         /\ Outcome(rolledBar, rolledTaken, Whole(rolledBar, rolledClosed),
                    Timeframes.coarse, fills.coarse)
<1>1. \A bar, closed : Whole(bar, closed) = IF bar = None THEN closed
                                            ELSE Append(closed, AsCandle(bar))
  BY FineMeans DEF Whole
<1>2. Outcome(fineBar, ItemsOf(fineTaken), Whole(fineBar, fineClosed),
              Timeframes.fine, fills.fine)
  <2>1. CASE fineBar = None
    BY <1>1, <2>1 DEF PipelineEnds, Ended, Outcome
  <2>2. CASE fineBar # None
    <3>1. Good(ItemsOf(fineTaken), Append(fineClosed, AsCandle(fineBar)),
               Timeframes.fine, fills.fine)
      BY <2>2 DEF PipelineInv, FineState, TickState, OpenTicks, Running
    <3>2. QED BY <1>1, <2>2, <3>1 DEF Outcome
  <2>3. QED BY <2>1, <2>2
<1>3. Outcome(directBar, ItemsOf(directTaken), Whole(directBar, directClosed),
              Timeframes.coarse, fills.coarse)
  <2>1. CASE directBar = None
    BY <1>1, <2>1 DEF PipelineEnds, Ended, Outcome
  <2>2. CASE directBar # None
    <3>1. Good(ItemsOf(directTaken), Append(directClosed, AsCandle(directBar)),
               Timeframes.coarse, fills.coarse)
      BY <2>2 DEF PipelineInv, DirectState, TickState, OpenTicks, Running
    <3>2. QED BY <1>1, <2>2, <3>1 DEF Outcome
  <2>3. QED BY <2>1, <2>2
<1>4. Outcome(rolledBar, rolledTaken, Whole(rolledBar, rolledClosed),
              Timeframes.coarse, fills.coarse)
  <2>1. CASE rolledBar = None
    BY <1>1, <2>1 DEF PipelineEnds, Ended, Outcome
  <2>2. CASE rolledBar # None
    <3>1. /\ Good(rolledTaken, Append(rolledClosed, rolledBar), Timeframes.coarse, fills.coarse)
          /\ rolledBar \in Item
      BY <2>2 DEF PipelineInv, RolledState, Running
    <3>2. AsCandle(rolledBar) = rolledBar
      BY <3>1 DEF Item, AsCandle
    <3>3. QED BY <1>1, <2>2, <3>1, <3>2 DEF Outcome
  <2>3. QED BY <2>1, <2>2
<1>5. QED BY <1>2, <1>3, <1>4

-----------------------------------------------------------------------------
(* Resampled is direct                                                     *)

(* What a stage shows is the series, or all of it but the last candle. *)
LEMMA ShownParts ==
  ASSUME BarPipelineAssumption, NEW b \in Nat \ {0}, NEW f \in BOOLEAN, NEW T, NEW s,
         Good(T, s, b, f)
  PROVE  /\ s \in Seq(Item) /\ Shown(s) \in Seq(Item) /\ Len(s) > 0
         /\ Len(s) - 1 <= Len(Shown(s)) /\ Len(Shown(s)) <= Len(s)
         /\ \A j \in 1 .. Len(Shown(s)) : Shown(s)[j] = s[j]
         /\ Sum(Shown(s)) = Sum(s) => Shown(s) = s
<1> DEFINE l == LastNumber(T, b)
           y == s[Len(s)]
           p == Front(s)
<1>1. s \in Seq(Item) /\ Len(s) \in Nat /\ Len(s) > 0
  <2>1. s \in Seq(Item) /\ l = LastNumber(T, b)
    BY DEF Good
  <2> HIDE DEF l
  <2>2. QED BY <2>1, GoodLast
<1>2. CASE y.volume <= MaxVolume
  <2>1. Shown(s) = s
    BY <1>2 DEF Shown
  <2>2. QED BY <1>1, <2>1
<1>3. CASE ~(y.volume <= MaxVolume)
  <2>1. /\ p \in Seq(Item) /\ Len(p) = Len(s) - 1 /\ y \in Item /\ s = Append(p, y)
        /\ \A j \in 1 .. Len(s) - 1 : p[j] = s[j]
    BY <1>1, Apart
  <2>2. Shown(s) = p
    BY <1>3 DEF Shown
  <2> HIDE DEF p, y
  <2>3. Sum(s) = Sum(p) + y.volume /\ Sum(p) \in Nat
    BY <2>1, SumAppend
  <2>4. y.volume \in Nat /\ y.volume > 0
    <3>1. y.volume \in Nat /\ MaxVolume \in Nat
      BY <2>1, ItemParts DEF BarPipelineAssumption
    <3>2. QED BY <1>3, <3>1
  <2>5. Sum(p) # Sum(s)
    BY <2>3, <2>4
  <2>6. QED BY <1>1, <2>1, <2>2, <2>5
<1>4. QED BY <1>2, <1>3

(* A beginning of a sequence, element by element. *)
LEMMA PrefixStarts ==
  ASSUME NEW s \in Seq(Item), NEW u \in Seq(Item)
  PROVE  IsPrefix(s, u) <=> StartsWith(u, s)
<1> DEFINE n == Len(s)
<1>1. n \in Nat /\ Len(u) \in Nat
  OBVIOUS
<1>2. CASE n <= Len(u)
  <2> DEFINE v == SubSeq(s, 1, n)
             w == SubSeq(u, 1, n)
  <2>1. /\ v \in Seq(Item) /\ Len(v) = n /\ \A j \in 1 .. n : v[j] = s[j]
    BY <1>1
  <2>2. /\ w \in Seq(Item) /\ Len(w) = n /\ \A j \in 1 .. n : w[j] = u[j]
    BY <1>1, <1>2
  <2>3. IsPrefix(s, u) <=> v = w
    BY <1>2 DEF IsPrefix
  <2>4. StartsWith(u, s) <=> \A j \in 1 .. n : u[j] = s[j]
    BY <1>2 DEF StartsWith
  <2> HIDE DEF v, w
  <2>5. v = w <=> \A j \in 1 .. n : v[j] = w[j]
    BY <2>1, <2>2
  <2>6. (\A j \in 1 .. n : v[j] = w[j]) <=> \A j \in 1 .. n : u[j] = s[j]
    BY <2>1, <2>2
  <2>7. QED BY <2>3, <2>4, <2>5, <2>6
<1>3. CASE ~(n <= Len(u))
  BY <1>3 DEF IsPrefix, StartsWith
<1>4. QED BY <1>2, <1>3

(* The coarse series of the fine candles so far, and of the items themselves. *)
LEMMA CoarseAgrees ==
  ASSUME BarPipelineAssumption, NEW a, NEW b, Nested(a, b), NEW f0, Unfilled(f0),
         NEW f \in BOOLEAN, NEW T, NEW S, Good(T, S, a, f0), NEW U, Good(T, U, b, f),
         NEW v, NEW w, Good(v, w, b, f), StartsWith(S, v)
  PROVE  Agrees(w, U) /\ (v = S => w = U)
<1>0. a \in Nat \ {0} /\ b \in Nat \ {0} /\ f0 \in BOOLEAN
  BY DEF Nested, Unfilled
<1>1. RollsUp(T, a, b, f)
  <2>1. Items(T, a)
    BY DEF Good
  <2>2. QED BY <2>1, RollingUp
<1>2. Good(S, U, b, f)
  BY <1>1 DEF RollsUp, Unfilled
<1>3. Grows(S, b, f)
  <2>1. Items(S, b)
    BY <1>2 DEF Good
  <2>2. QED BY <1>0, <2>1, SeriesGrows
<1>4. Agrees(w, U)
  BY <1>2, <1>3 DEF Grows
<1>5. ASSUME v = S PROVE w = U
  BY <1>0, <1>2, <1>5, GoodUnique
<1>6. QED BY <1>4, <1>5

(* Ticks weigh what their items weigh. *)
LEMMA SumOfTicks ==
  ASSUME BarPipelineAssumption, NEW ticks \in Seq(Ticks)
  PROVE  Sum(ItemsOf(ticks)) = Sum(ticks)
<1> DEFINE s == ItemsOf(ticks)
<1>1. s = [i \in 1 .. Len(ticks) |-> TickItem(ticks[i])] /\ Len(ticks) \in Nat
  <2>1. DOMAIN ticks = 1 .. Len(ticks) /\ Len(ticks) \in Nat
    OBVIOUS
  <2>2. QED BY <2>1 DEF ItemsOf
<1>2. \A i \in 1 .. Len(ticks) : s[i].volume = ticks[i].volume
  <2> HIDE DEF s
  <2>1. \A i \in 1 .. Len(ticks) : s[i] = TickItem(ticks[i])
    BY <1>1
  <2>2. \A i \in 1 .. Len(ticks) : TickItem(ticks[i]).volume = ticks[i].volume
    BY DEF TickItem
  <2>3. QED BY <2>1, <2>2
<1>3. Len(s) = Len(ticks)
  <2> DEFINE k == Len(ticks)
  <2>1. s \in [1 .. k -> {TickItem(ticks[i]) : i \in 1 .. k}] /\ k \in Nat
    BY <1>1
  <2> HIDE DEF k, s
  <2>2. Len(s) = k
    BY <2>1
  <2>3. QED BY <2>2 DEF k
<1> HIDE DEF s
<1>4. Len(s) \in Nat
  BY <1>1, <1>3
<1>5. Sum(s) = Sum(ticks)
  BY <1>2, <1>3, <1>4, SumSame
<1>6. QED BY <1>5 DEF s

(* What the fine stage has handed out begins the series of its ticks. *)
LEMMA FineSeriesStarts ==
  ASSUME BarPipelineAssumption, PipelineInv, PipelineEnds, fineClosed # <<>>
  PROVE  \E S : /\ Good(ItemsOf(fineTaken), S, Timeframes.fine, fills.fine)
                /\ StartsWith(S, fineClosed)
<1> DEFINE a == Timeframes.fine
           T == ItemsOf(fineTaken)
           f0 == fills.fine
<1>1. fineClosed \in Seq(Item) /\ a \in Nat \ {0} /\ f0 \in BOOLEAN
  BY SpansAre DEF PipelineInv, FineState, TickState
<1>2. CASE fineBar = None
  <2>1. PICK S : Good(T, S, a, f0) /\ fineClosed = Shown(S)
    BY <1>2 DEF PipelineEnds, Ended
  <2> HIDE DEF a, T, f0
  <2>2. StartsWith(S, fineClosed)
    BY <1>1, <2>1, ShownParts DEF StartsWith
  <2>3. QED BY <2>1, <2>2 DEF a, T, f0
<1>3. CASE fineBar # None
  <2> DEFINE c == AsCandle(fineBar)
             S == Append(fineClosed, c)
  <2>1. Good(T, S, a, f0) /\ c \in Item
    BY <1>3 DEF PipelineInv, FineState, TickState, OpenTicks, Running
  <2> HIDE DEF c
  <2>2. /\ Len(fineClosed) <= Len(S)
        /\ \A j \in 1 .. Len(fineClosed) : S[j] = fineClosed[j]
    BY <1>1, <2>1
  <2> HIDE DEF S
  <2>3. StartsWith(S, fineClosed)
    BY <2>2 DEF StartsWith
  <2>4. QED BY <2>1, <2>3
<1>4. QED BY <1>2, <1>3

(* The fine buckets are within the coarse ones. *)
LEMMA TimeframesNest ==
  ASSUME BarPipelineAssumption
  PROVE  Nested(Timeframes.fine, Timeframes.coarse)
<1> DEFINE a == Timeframes.fine
           b == Timeframes.coarse
<1>1. a \in Nat \ {0} /\ b \in Nat \ {0} /\ b % a = 0
  BY SpansAre DEF BarPipelineAssumption
<1> HIDE DEF a, b
<1>2. b = a * (b \div a) /\ b \div a \in Nat
  BY <1>1
<1>3. QED BY <1>1, <1>2 DEF Nested, a, b

(* The coarse candles rolled up so far are those made of the ticks. *)
LEMMA RolledSoFar ==
  ASSUME BarPipelineAssumption, PipelineInv, PipelineEnds, fineTaken = directTaken,
         ~fills.fine, IsPrefix(rolledTaken, fineClosed), rolledBar # None
  PROVE  IsPrefix(rolledClosed, Whole(directBar, directClosed))
<1> DEFINE a == Timeframes.fine
           b == Timeframes.coarse
           f0 == fills.fine
           f == fills.coarse
           T == ItemsOf(fineTaken)
           v == rolledTaken
           w == Append(rolledClosed, rolledBar)
           whole == Whole(directBar, directClosed)
<1>1. /\ a \in Nat \ {0} /\ b \in Nat \ {0} /\ f \in BOOLEAN /\ f0 \in BOOLEAN
      /\ Nested(a, b) /\ Unfilled(f0)
  BY SpansAre, TimeframesNest DEF PipelineInv, Unfilled
<1>2. /\ Good(v, w, b, f) /\ v \in Seq(Item) /\ rolledClosed \in Seq(Item) /\ rolledBar \in Item
      /\ fineClosed \in Seq(Item)
  BY DEF PipelineInv, RolledState, Running, FineState, TickState
<1>3. StartsWith(fineClosed, v) /\ Len(v) > 0
  BY <1>2, PrefixStarts DEF Good, Items
<1>4. fineClosed # <<>>
  <2>1. Len(v) \in Nat /\ Len(v) <= Len(fineClosed) /\ Len(<<>>) = 0
    BY <1>2, <1>3 DEF StartsWith
  <2>2. QED BY <1>3, <2>1
<1>5. PICK S : Good(T, S, a, f0) /\ StartsWith(S, fineClosed)
  BY <1>4, FineSeriesStarts
<1>6. PICK U : Good(T, U, b, f) /\ whole = IF directBar = None THEN Shown(U) ELSE U
  <2>1. Outcome(directBar, T, whole, b, f)
    BY Outcomes
  <2>2. T # <<>>
    <3>1. Len(T) > 0
      BY <1>5 DEF Good, Items
    <3>2. QED BY <3>1
  <2> HIDE DEF T, whole, b, f
  <2>3. QED BY <2>1, <2>2 DEF Outcome
<1> HIDE DEF a, b, f0, f, T, v, whole, w
<1>7. StartsWith(S, v)
  <2>1. S \in Seq(Item)
    BY <1>5 DEF Good
  <2>2. Len(v) \in Nat /\ Len(fineClosed) \in Nat /\ Len(S) \in Nat
    BY <1>2, <2>1
  <2>3. \A j \in 1 .. Len(v) : j \in 1 .. Len(fineClosed)
    BY <1>3, <2>2 DEF StartsWith
  <2>4. QED BY <1>3, <1>5, <2>2, <2>3 DEF StartsWith
<1>8. Agrees(w, U)
  BY <1>1, <1>2, <1>5, <1>6, <1>7, CoarseAgrees
<1>9. /\ Len(w) = Len(rolledClosed) + 1 /\ Len(rolledClosed) \in Nat
      /\ \A j \in 1 .. Len(rolledClosed) : w[j] = rolledClosed[j]
  BY <1>2 DEF w
<1>10. /\ U \in Seq(Item) /\ whole \in Seq(Item) /\ Len(U) \in Nat /\ Len(whole) \in Nat
       /\ Len(U) - 1 <= Len(whole) /\ \A j \in 1 .. Len(whole) : whole[j] = U[j]
  BY <1>1, <1>6, ShownParts
<1>11. Len(rolledClosed) <= Len(whole)
  BY <1>8, <1>9, <1>10 DEF Agrees
<1>12. \A j \in 1 .. Len(rolledClosed) : whole[j] = rolledClosed[j]
  <2> SUFFICES ASSUME NEW j \in 1 .. Len(rolledClosed) PROVE whole[j] = rolledClosed[j]
    OBVIOUS
  <2>1. j \in 1 .. Len(w) - 1 /\ j \in 1 .. Len(whole)
    BY <1>9, <1>10, <1>11
  <2>2. QED BY <1>8, <1>9, <1>10, <2>1 DEF Agrees
<1>13. StartsWith(whole, rolledClosed)
  BY <1>11, <1>12 DEF StartsWith
<1>14. IsPrefix(rolledClosed, whole)
  BY <1>2, <1>10, <1>13, PrefixStarts
<1>15. QED BY <1>14 DEF whole

(* In the end, all of them. *)
LEMMA RolledInTheEnd ==
  ASSUME BarPipelineAssumption, PipelineInv, PipelineEnds, fineTaken = directTaken,
         ~fills.fine, fineBar = None, Sum(fineClosed) = Sum(fineTaken),
         rolledTaken = fineClosed, (rolledBar = None) = (directBar = None)
  PROVE  Whole(rolledBar, rolledClosed) = Whole(directBar, directClosed)
<1> DEFINE a == Timeframes.fine
           b == Timeframes.coarse
           f0 == fills.fine
           f == fills.coarse
           T == ItemsOf(fineTaken)
           rolled == Whole(rolledBar, rolledClosed)
           direct == Whole(directBar, directClosed)
<1>1. /\ a \in Nat \ {0} /\ b \in Nat \ {0} /\ f \in BOOLEAN /\ f0 \in BOOLEAN
      /\ Nested(a, b) /\ Unfilled(f0)
  BY SpansAre, TimeframesNest DEF PipelineInv, Unfilled
<1>2. /\ Outcome(directBar, T, direct, b, f) /\ Outcome(rolledBar, fineClosed, rolled, b, f)
      /\ Ended(T, fineClosed, a, f0)
  BY Outcomes DEF PipelineEnds
<1>3. Sum(T) = Sum(fineTaken)
  BY SumOfTicks DEF PipelineInv, FineState, TickState
<1> HIDE DEF a, b, f0, f, T, rolled, direct
<1>4. CASE T = <<>>
  <2>1. \A s, bb, ff : ~Good(T, s, bb, ff)
    <3>1. ~(Len(T) > 0)
      BY <1>4
    <3>2. QED BY <3>1 DEF Good, Items
  <2>2. fineClosed = <<>> /\ direct = <<>>
    BY <1>2, <2>1 DEF Ended, Outcome
  <2>3. \A s, bb, ff : ~Good(fineClosed, s, bb, ff)
    <3>1. ~(Len(fineClosed) > 0)
      BY <2>2
    <3>2. QED BY <3>1 DEF Good, Items
  <2>4. rolled = <<>>
    BY <1>2, <2>3 DEF Outcome
  <2>5. QED BY <2>2, <2>4 DEF rolled, direct
<1>5. CASE T # <<>>
  <2>1. PICK S : Good(T, S, a, f0) /\ fineClosed = Shown(S)
    BY <1>2, <1>5 DEF Ended
  <2>2. PICK U : Good(T, U, b, f) /\ direct = IF directBar = None THEN Shown(U) ELSE U
    BY <1>2, <1>5 DEF Outcome
  <2>3. Sum(S) = Sum(T)
    <3>1. Items(T, a)
      BY <2>1 DEF Good
    <3>2. Weighs(T, a, f0)
      BY <1>1, <3>1, SeriesWeighs
    <3>3. QED BY <2>1, <3>2 DEF Weighs
  <2>4. fineClosed = S /\ S \in Seq(Item) /\ Len(S) > 0
    BY <1>1, <1>3, <2>1, <2>3, ShownParts
  <2>5. PICK w : Good(S, w, b, f) /\ rolled = IF rolledBar = None THEN Shown(w) ELSE w
    <3>1. S # <<>>
      BY <2>4
    <3>2. QED BY <1>2, <2>4, <3>1 DEF Outcome
  <2>6. StartsWith(S, S)
    BY <2>4 DEF StartsWith
  <2>7. w = U
    BY <1>1, <2>1, <2>2, <2>5, <2>6, CoarseAgrees
  <2>8. rolled = direct
    BY <2>2, <2>5, <2>7
  <2>9. QED BY <2>8 DEF rolled, direct
<1>6. QED BY <1>4, <1>5

(* As long as the fine candles are handed on in order and none is made up, the
   coarse candles are those of the ticks themselves (ResampledIsDirect). *)
THEOREM ResampledDirect == Spec => []ResampledIsDirect
<1>1. Init => PipelineInv /\ PipelineEnds
  BY Begun, EndsBegin, BarPipelineAssumption
<1>2. PipelineInv /\ PipelineEnds /\ [Next]_vars => PipelineInv' /\ PipelineEnds'
  BY Stepped, EndsStep, BarPipelineAssumption
<1>3. PipelineInv /\ PipelineEnds => ResampledIsDirect
  <2>1. Fine!NoBar = None /\ Direct!NoBar = None /\ Rolled!NoBar = None
    BY FineMeans, DirectMeans, RolledMeans, BarPipelineAssumption
  <2> DEFINE whole == Whole(directBar, directClosed)
             rolled == Whole(rolledBar, rolledClosed)
             handed == /\ fineTaken = directTaken /\ ~fills.fine
                       /\ IsPrefix(rolledTaken, fineClosed)
             same == (rolledBar = None) = (directBar = None)
             complete == /\ fineBar = None /\ Sum(fineClosed) = Sum(fineTaken)
                         /\ rolledTaken = fineClosed /\ same
  <2> SUFFICES ASSUME PipelineInv, PipelineEnds PROVE ResampledIsDirect
    OBVIOUS
  <2>2. handed /\ rolledBar # None => IsPrefix(rolledClosed, whole)
    BY RolledSoFar, BarPipelineAssumption
  <2>3. handed /\ complete => rolled = whole
    BY RolledInTheEnd, BarPipelineAssumption
  <2>4. ResampledIsDirect <=>
          (handed => (rolledBar # None => IsPrefix(rolledClosed, whole))
                     /\ (complete => rolled = whole))
    BY <2>1, Zenon DEF ResampledIsDirect
  <2> HIDE DEF handed, complete, whole, rolled
  <2>5. QED BY <2>2, <2>3, <2>4
<1>4. QED BY <1>1, <1>2, <1>3, PTL DEF Spec
=============================================================================
