-------------------------- MODULE StreamStateProofs --------------------------
(***************************************************************************)
(* Lemmas about kernels, states, logs and snapshots, for any identities,   *)
(* profiles, candles, clock range and window length.                       *)
(***************************************************************************)
EXTENDS StreamState, WellFoundedInduction, TLAPS

-----------------------------------------------------------------------------
(* Reference kernels                                                       *)

(* A set of numbers has a least one. *)
LEMMA LeastNumber ==
  ASSUME NEW T \in SUBSET Nat, T # {}
  PROVE  \E x \in T : \A y \in T : x <= y
<1>1. PICK x \in T : \A y \in T : ~(<<y, x>> \in OpToRel(<, Nat))
  BY NatLessThanWellFounded, WFMin
<1>2. \A y \in T : ~(y < x)
  BY <1>1 DEF OpToRel
<1>3. QED BY <1>2

(* Every reference kernel is of a reference kind. *)
LEMMA ReferenceKind ==
  ASSUME NEW k \in ReferenceKernel
  PROVE  k.kind \in ReferenceKinds
BY DEF ReferenceKernel, ReferenceKinds, Alma, SuperTrend, StochRsi, Vortex, Ulcer

(* Every reference profile starts with a kernel of its kind and of the shape *)
(* of an empty history (Reference::new, valid_for).                          *)
LEMMA NewReferenceValid ==
  ASSUME NEW p \in ReferenceKinds
  PROVE  /\ NewReference(p) \in ReferenceKernel /\ NewReference(p).kind = p
         /\ ReferenceValid(NewReference(p), p, 0)
<1> DEFINE k == NewReference(p)
<1> USE PeriodAssumption DEF ReferenceKernel, ReferenceValid, Filled, Smaller, Larger
<1>1. CASE p = "alma"
  BY <1>1 DEF NewReference, Alma
<1>2. CASE p = "supertrend"
  BY <1>2 DEF NewReference, SuperTrend, SuperTrendValid, AtrValid, NewAtr, Atr, NoBands, Average
<1>3. CASE p = "stoch_rsi"
  <2>1. k = [kind |-> "stoch_rsi", rsi |-> NewRsi, window |-> <<>>, last |-> FALSE,
             defined |-> <<>>]
    BY <1>3 DEF NewReference
  <2> HIDE DEF k
  <2>2. NewRsi \in Rsi
    <3> DEFINE none == <<<<>>, <<>>>>
    <3>1. <<>> \in Average
      BY DEF Average
    <3>2. none \in Average \X Average
      BY <3>1
    <3> HIDE DEF none
    <3>3. NewRsi = [previous |-> 0, seedGains |-> <<>>, seedLosses |-> <<>>, seeded |-> FALSE,
                    averages |-> none]
      BY DEF NewRsi, none
    <3>4. QED BY <3>1, <3>2, <3>3 DEF Rsi
  <2>3. RsiValid(NewRsi, 0)
    <3>1. /\ NewRsi.previous = 0 /\ NewRsi.seedGains = <<>> /\ NewRsi.seedLosses = <<>>
          /\ NewRsi.seeded = FALSE
      BY DEF NewRsi
    <3>2. QED BY <3>1 DEF RsiValid
  <2>4. <<>> \in Seq(Average \X Average) /\ <<>> \in Seq(BOOLEAN)
    OBVIOUS
  <2>5. k \in StochRsi
    BY <2>1, <2>2, <2>4 DEF StochRsi
  <2>6. StochRsiValid(k, 0)
    BY <2>1, <2>3 DEF StochRsiValid
  <2>7. QED
    BY <1>3, <2>1, <2>5, <2>6 DEF k
<1>4. CASE p = "vortex"
  BY <1>4 DEF NewReference, Vortex, VortexValid
<1>5. CASE p = "ulcer"
  BY <1>5 DEF NewReference, Ulcer, UlcerValid
<1>6. QED BY <1>1, <1>2, <1>3, <1>4, <1>5 DEF ReferenceKinds

(* push keeps a window at the number of bars seen, up to Period, and every  *)
(* member of it is an old one or the new one.                               *)
LEMMA PushWindow ==
  ASSUME NEW S, NEW w \in Seq(S), NEW x \in S, Len(w) <= Period
  PROVE  /\ Push(w, x) \in Seq(S)
         /\ Len(Push(w, x)) = IF Len(w) < Period THEN Len(w) + 1 ELSE Period
         /\ \A i \in DOMAIN Push(w, x) :
              Push(w, x)[i] = x \/ \E j \in DOMAIN w : Push(w, x)[i] = w[j]
<1> USE PeriodAssumption DEF Push
<1>1. CASE Len(w) = Period
  <2>1. w # <<>> /\ Tail(w) \in Seq(S) /\ Len(Tail(w)) = Period - 1
    BY <1>1
  <2>2. \A i \in 1 .. Period - 1 : Tail(w)[i] = w[i + 1]
    BY <1>1
  <2>3. Push(w, x) = Append(Tail(w), x)
    BY <1>1
  <2> QED
    BY <1>1, <2>1, <2>2, <2>3
<1>2. CASE Len(w) # Period
  BY <1>2
<1>3. QED BY <1>1, <1>2

-----------------------------------------------------------------------------
(* One lemma per kernel: a bar with prices takes n bars to n + 1.          *)

Priced(c) ==
  /\ c.high \in Int /\ c.low \in Int /\ c.close \in Int
  /\ c.low > 0 /\ c.low <= c.close /\ c.close <= c.high

(* The number of members of a window after one bar more. *)
LEMMA FilledNext ==
  ASSUME NEW n \in Nat, NEW before \in Nat
  PROVE  /\ Filled(n, before) \in Nat /\ Filled(n, before) <= Period
         /\ n < before => Filled(n + 1, before) = 0 /\ Filled(n, before) = 0
         /\ n >= before => Filled(n + 1, before) = IF Filled(n, before) < Period
                                                  THEN Filled(n, before) + 1 ELSE Period
         /\ Filled(n, before) < Period <=> n < before + Period
BY PeriodAssumption DEF Filled, Smaller, Larger

(* A true range is not negative (true_range). *)
LEMMA TrueRangeNat ==
  ASSUME NEW c, Priced(c), NEW previous \in Int
  PROVE  TrueRange(c, previous) \in Int /\ TrueRange(c, previous) >= 0
BY DEF Priced, TrueRange, Larger, Smaller

(* Alma::update *)
LEMMA AlmaStepValid ==
  ASSUME NEW k \in Alma, NEW n \in Nat, NEW c, Priced(c), ReferenceValid(k, "alma", n)
  PROVE  AlmaStep(k, c) \in Alma /\ ReferenceValid(AlmaStep(k, c), "alma", n + 1)
<1> DEFINE w == Push(k.window, c.close)
           u == IF Len(w) < Period THEN k.current ELSE w
<1>1. /\ k.window \in Seq(Int) /\ k.current \in Seq(Int) /\ c.close \in Int /\ c.close > 0
      /\ Len(k.window) = Filled(n, 0) /\ \A i \in DOMAIN k.window : k.window[i] > 0
      /\ (k.current # <<>>) <=> (n >= Period)
  BY DEF Alma, Priced, ReferenceValid
<1>2. /\ w \in Seq(Int)
      /\ Len(w) = IF Len(k.window) < Period THEN Len(k.window) + 1 ELSE Period
      /\ \A i \in DOMAIN w : w[i] = c.close \/ \E j \in DOMAIN k.window : w[i] = k.window[j]
  <2>1. Len(k.window) <= Period
    BY <1>1, FilledNext
  <2> DEFINE q == k.window
             x == c.close
  <2>2. q \in Seq(Int) /\ x \in Int /\ Len(q) <= Period
    BY <1>1, <2>1
  <2>3. w = Push(q, x)
    OBVIOUS
  <2> HIDE DEF q, x, w
  <2>4. /\ w \in Seq(Int) /\ Len(w) = IF Len(q) < Period THEN Len(q) + 1 ELSE Period
        /\ \A i \in DOMAIN w : w[i] = x \/ \E j \in DOMAIN q : w[i] = q[j]
    BY <2>2, <2>3, PushWindow
  <2>5. QED BY <2>4 DEF q, x
<1>3. AlmaStep(k, c) = [kind |-> "alma", window |-> w, current |-> u]
  <2>1. AlmaStep(k, c) = [k EXCEPT !.window = w, !.current = u]
    BY DEF AlmaStep
  <2> HIDE DEF w, u
  <2>2. QED BY <2>1 DEF Alma
<1>4. /\ Len(w) = Filled(n + 1, 0)
      /\ Filled(n, 0) < Period <=> n < Period
      /\ Filled(n + 1, 0) < Period <=> n + 1 < Period
  <2> HIDE DEF w
  <2>1. n + 1 \in Nat /\ 0 \in Nat
    OBVIOUS
  <2>2. QED BY <1>1, <1>2, <2>1, FilledNext, PeriodAssumption
<1>5. \A i \in DOMAIN w : w[i] > 0
  BY <1>1, <1>2
<1>6. u \in Seq(Int) /\ ((u # <<>>) <=> (n + 1 >= Period))
  <2> HIDE DEF w
  <2>1. Len(w) < Period <=> n + 1 < Period
    BY <1>4
  <2>2. CASE Len(w) < Period
    BY <1>1, <2>1, <2>2, PeriodAssumption
  <2>3. CASE ~(Len(w) < Period)
    <3>1. w # <<>>
      BY <2>3, <1>2, PeriodAssumption
    <3>2. QED BY <1>2, <2>1, <2>3, <3>1, PeriodAssumption
  <2>4. QED BY <2>2, <2>3
<1> HIDE DEF w, u
<1>7. QED
  BY <1>2, <1>3, <1>4, <1>5, <1>6 DEF Alma, ReferenceValid

(* Atr::update *)
LEMMA AtrUpdateValid ==
  ASSUME NEW a \in Atr, NEW n \in Nat, NEW c, Priced(c), AtrValid(a, n)
  PROVE  /\ AtrUpdate(a, c) \in Atr /\ AtrValid(AtrUpdate(a, c), n + 1)
         /\ AtrUpdate(a, c).previous = c.close
<1> DEFINE r == TrueRange(c, a.previous)
           s == Append(a.seed, r)
<1>1. /\ a.previous \in Int /\ a.seed \in Seq(Int) /\ a.seeded \in BOOLEAN
      /\ a.average \in Seq(Int) /\ c.close \in Int /\ c.close > 0
  BY DEF Atr, Average, Priced
<1>2. r \in Int /\ r >= 0
  BY <1>1, TrueRangeNat
<1>3. /\ Len(a.seed) = Filled(n, 0) /\ \A i \in DOMAIN a.seed : a.seed[i] >= 0
      /\ a.seeded <=> (n >= Period)
      /\ a.seeded \/ a.average = <<>>
  BY DEF AtrValid
<1>f. /\ Filled(n, 0) < Period <=> n < Period
      /\ n >= Period => Filled(n, 0) = Period /\ Filled(n + 1, 0) = Period
      /\ n < Period => Filled(n, 0) = n /\ Filled(n + 1, 0) = n + 1
  BY PeriodAssumption DEF Filled, Smaller, Larger
<1> HIDE DEF r
<1>4. s \in Seq(Int) /\ Len(s) = Len(a.seed) + 1 /\ \A i \in DOMAIN s : s[i] >= 0
  BY <1>1, <1>2, <1>3
<1>5. CASE a.seeded
  <2>1. AtrUpdate(a, c) = [previous |-> c.close, seed |-> a.seed, seeded |-> TRUE,
                           average |-> Append(a.average, r)]
    BY <1>5 DEF AtrUpdate, Atr, r
  <2>2. Append(a.average, r) \in Seq(Int)
    BY <1>1, <1>2
  <2>3. Filled(n + 1, 0) = Filled(n, 0) /\ n + 1 >= Period
    BY <1>3, <1>5, <1>f, PeriodAssumption
  <2>4. QED BY <1>1, <1>3, <2>1, <2>2, <2>3 DEF Atr, AtrValid, Average
<1>6. CASE ~a.seeded /\ Len(s) < Period
  <2>1. AtrUpdate(a, c) = [previous |-> c.close, seed |-> s, seeded |-> FALSE,
                           average |-> a.average]
    BY <1>1, <1>6 DEF AtrUpdate, Atr, r
  <2>2. Filled(n + 1, 0) = Len(s) /\ n + 1 < Period
    BY <1>3, <1>4, <1>6, <1>f, PeriodAssumption
  <2> HIDE DEF s
  <2>3. AtrUpdate(a, c) \in Atr
    BY <1>1, <1>4, <2>1 DEF Atr, Average
  <2> DEFINE b == AtrUpdate(a, c)
  <2>4. b.previous = c.close /\ b.seed = s /\ b.seeded = FALSE /\ b.average = <<>>
    BY <1>3, <1>6, <2>1
  <2> HIDE DEF b
  <2>5. AtrValid(b, n + 1)
    BY <1>1, <1>4, <2>2, <2>4, PeriodAssumption DEF AtrValid
  <2>6. QED BY <2>3, <2>4, <2>5 DEF b
<1>7. CASE ~a.seeded /\ ~(Len(s) < Period)
  <2>1. AtrUpdate(a, c) = [previous |-> c.close, seed |-> s, seeded |-> TRUE, average |-> s]
    BY <1>1, <1>7 DEF AtrUpdate, Atr, r
  <2>2. Filled(n + 1, 0) = Len(s) /\ n + 1 >= Period
    BY <1>3, <1>4, <1>7, <1>f, PeriodAssumption
  <2> HIDE DEF s
  <2>3. AtrUpdate(a, c) \in Atr
    BY <1>1, <1>4, <2>1 DEF Atr, Average
  <2> DEFINE b == AtrUpdate(a, c)
  <2>4. b.previous = c.close /\ b.seed = s /\ b.seeded = TRUE
    BY <2>1
  <2> HIDE DEF b
  <2>5. AtrValid(b, n + 1)
    BY <1>1, <1>4, <2>2, <2>4, PeriodAssumption DEF AtrValid
  <2>6. QED BY <2>3, <2>4, <2>5 DEF b
<1>8. QED BY <1>1, <1>5, <1>6, <1>7

(* SuperTrend::update *)
LEMMA SuperTrendStepValid ==
  ASSUME NEW k \in SuperTrend, NEW n \in Nat, NEW c, Priced(c), SuperTrendValid(k, n)
  PROVE  SuperTrendStep(k, c) \in SuperTrend /\ SuperTrendValid(SuperTrendStep(k, c), n + 1)
<1> DEFINE a == AtrUpdate(k.atr, c)
           b == IF a.seeded THEN NextBands(k.bands, a.average, c) ELSE k.bands
<1>1. k.atr \in Atr /\ k.bands \in Bands \cup {NoBands}
  BY DEF SuperTrend
<1>2. a \in Atr /\ AtrValid(a, n + 1) /\ a.previous = c.close
  BY <1>1, AtrUpdateValid DEF SuperTrendValid
<1>3. SuperTrendStep(k, c) = [kind |-> "supertrend", atr |-> a, bands |-> b]
  <2>1. SuperTrendStep(k, c) = [k EXCEPT !.atr = a, !.bands = b]
    BY DEF SuperTrendStep
  <2> HIDE DEF a, b
  <2>2. QED BY <2>1 DEF SuperTrend
<1> HIDE DEF a
<1>4. CASE a.seeded
  <2> DEFINE basic == [middle |-> c.high + c.low, average |-> a.average]
  <2>1. basic \in Band
    BY <1>2 DEF Band, Atr, Priced
  <2>2. c.close \in Int
    BY DEF Priced
  <2> HIDE DEF basic
  <2>3. b \in Bands /\ b.close = c.close
    <3>1. CASE k.bands = NoBands
      <4>1. b = [upper |-> basic, lower |-> basic, close |-> c.close, direction |-> 1]
        BY <1>4, <3>1 DEF NextBands, basic
      <4>2. QED BY <2>1, <2>2, <4>1 DEF Bands
    <3>2. CASE k.bands # NoBands
      <4> DEFINE u == UpperBand(k.bands, basic)
                 l == LowerBand(k.bands, basic)
                 d == Direction(k.bands, u, l, c.close)
      <4>1. b = [upper |-> u, lower |-> l, close |-> c.close, direction |-> d]
        BY <1>4, <3>2 DEF NextBands, basic
      <4>2. k.bands.upper \in Band /\ k.bands.lower \in Band
        BY <1>1, <3>2 DEF Bands
      <4>3. u \in Band /\ l \in Band
        BY <2>1, <4>2 DEF UpperBand, LowerBand
      <4> HIDE DEF u, l
      <4>4. d \in {1, -1}
        BY DEF Direction
      <4> HIDE DEF d
      <4>5. QED BY <2>2, <4>1, <4>3, <4>4 DEF Bands
    <3>3. QED BY <3>1, <3>2
  <2>4. b # NoBands /\ n + 1 >= Period
    <3>1. b.direction # 0
      BY <2>3 DEF Bands
    <3>2. QED BY <3>1, <1>2, <1>4 DEF NoBands, AtrValid
  <2> HIDE DEF b
  <2>5. QED BY <1>2, <1>3, <2>3, <2>4 DEF SuperTrend, SuperTrendValid
<1>5. CASE ~a.seeded
  <2>1. ~(n + 1 >= Period) /\ b = k.bands /\ k.bands = NoBands
    BY <1>2, <1>5, PeriodAssumption DEF AtrValid, SuperTrendValid
  <2> HIDE DEF b
  <2>2. QED BY <1>1, <1>2, <1>3, <2>1 DEF SuperTrend, SuperTrendValid
<1>6. QED BY <1>4, <1>5

(* What is appended to a sequence of amounts is the only new member of it. *)
LEMMA AppendAmount ==
  ASSUME NEW w \in Seq(Int), NEW x \in Int, x >= 0, \A i \in DOMAIN w : w[i] >= 0
  PROVE  /\ Append(w, x) \in Seq(Int) /\ Len(Append(w, x)) = Len(w) + 1
         /\ \A i \in DOMAIN Append(w, x) : Append(w, x)[i] >= 0
OBVIOUS

(* Rsi::update *)
LEMMA RsiUpdateValid ==
  ASSUME NEW r \in Rsi, NEW n \in Nat, NEW c, Priced(c), RsiValid(r, n)
  PROVE  /\ RsiUpdate(r, c.close) \in Rsi /\ RsiValid(RsiUpdate(r, c.close), n + 1)
         /\ RsiUpdate(r, c.close).averages \in Average \X Average
<1> DEFINE x  == c.close
           g  == Larger(x - r.previous, 0)
           l  == Larger(r.previous - x, 0)
           gs == Append(r.seedGains, g)
           ls == Append(r.seedLosses, l)
           u  == RsiUpdate(r, x)
<1>1. /\ r.previous \in Int /\ r.seeded \in BOOLEAN
      /\ r.seedGains \in Seq(Int) /\ r.seedLosses \in Seq(Int)
      /\ r.averages \in Seq(Int) \X Seq(Int) /\ x \in Int /\ x > 0
  BY DEF Rsi, Average, Priced
<1>2. g \in Int /\ g >= 0 /\ l \in Int /\ l >= 0
  BY <1>1 DEF Larger
<1>3. /\ (r.previous # 0) <=> (n > 0)
      /\ Len(r.seedGains) = Filled(n, 1) /\ Len(r.seedLosses) = Filled(n, 1)
      /\ \A i \in DOMAIN r.seedGains : r.seedGains[i] >= 0
      /\ \A i \in DOMAIN r.seedLosses : r.seedLosses[i] >= 0
      /\ r.seeded <=> (n >= Period + 1)
  BY DEF RsiValid
<1>f. /\ n = 0 => Filled(n, 1) = 0 /\ Filled(n + 1, 1) = 0
      /\ n > 0 /\ n < Period + 1 => Filled(n, 1) = n - 1 /\ Filled(n + 1, 1) = n
      /\ n >= Period + 1 => Filled(n, 1) = Period /\ Filled(n + 1, 1) = Period
  BY PeriodAssumption DEF Filled, Smaller, Larger
<1> HIDE DEF x, g, l
<1>4. /\ gs \in Seq(Int) /\ Len(gs) = Len(r.seedGains) + 1 /\ \A i \in DOMAIN gs : gs[i] >= 0
      /\ ls \in Seq(Int) /\ Len(ls) = Len(r.seedLosses) + 1 /\ \A i \in DOMAIN ls : ls[i] >= 0
  BY <1>1, <1>2, <1>3, AppendAmount
<1>5. CASE n = 0
  <2>1. u = [previous |-> x, seedGains |-> r.seedGains, seedLosses |-> r.seedLosses,
             seeded |-> r.seeded, averages |-> r.averages]
    BY <1>3, <1>5 DEF RsiUpdate, Rsi
  <2> HIDE DEF u
  <2>2. u \in Rsi /\ u.averages \in Average \X Average
    BY <1>1, <2>1 DEF Rsi, Average
  <2>3. /\ u.previous = x /\ u.seedGains = r.seedGains /\ u.seedLosses = r.seedLosses
        /\ u.seeded = r.seeded
    BY <2>1
  <2>4. ~(n + 1 >= Period + 1) /\ ~(n >= Period + 1) /\ n + 1 > 0
    BY <1>5, PeriodAssumption
  <2>5. RsiValid(u, n + 1)
    BY <1>1, <1>3, <1>5, <1>f, <2>3, <2>4 DEF RsiValid
  <2>6. QED BY <2>2, <2>5 DEF u, x
<1>6. CASE n > 0 /\ r.seeded
  <2> DEFINE as == <<Append(r.averages[1], g), Append(r.averages[2], l)>>
  <2>1. as \in Seq(Int) \X Seq(Int)
    <3>1. r.averages[1] \in Seq(Int) /\ r.averages[2] \in Seq(Int)
      BY <1>1
    <3>2. Append(r.averages[1], g) \in Seq(Int) /\ Append(r.averages[2], l) \in Seq(Int)
      BY <1>2, <3>1
    <3>3. QED BY <3>2
  <2>2. u = [r EXCEPT !.previous = x, !.averages = as]
    BY <1>3, <1>6 DEF RsiUpdate, g, l
  <2> HIDE DEF as, u
  <2>3. u = [previous |-> x, seedGains |-> r.seedGains, seedLosses |-> r.seedLosses,
             seeded |-> TRUE, averages |-> as]
    BY <1>6, <2>2 DEF Rsi
  <2>4. u \in Rsi /\ u.averages \in Average \X Average
    BY <1>1, <2>1, <2>3 DEF Rsi, Average
  <2>5. RsiValid(u, n + 1)
    BY <1>1, <1>3, <1>6, <1>f, <2>3, PeriodAssumption DEF RsiValid
  <2>6. QED BY <2>4, <2>5 DEF u, x
<1>7. CASE n > 0 /\ ~r.seeded
  <2> DEFINE full == Len(gs) = Period
             as   == IF full THEN <<gs, ls>> ELSE r.averages
  <2>1. n < Period + 1 /\ Len(r.seedGains) = n - 1
    BY <1>3, <1>7, <1>f, PeriodAssumption
  <2>2. /\ Len(gs) = Filled(n + 1, 1) /\ Len(ls) = Filled(n + 1, 1)
        /\ full <=> (n + 1 >= Period + 1)
    <3> HIDE DEF gs, ls
    <3> QED BY <1>3, <1>4, <1>7, <1>f, <2>1, PeriodAssumption
  <2>3. as \in Seq(Int) \X Seq(Int)
    <3> HIDE DEF gs, ls
    <3> QED BY <1>1, <1>4
  <2>4. u = [previous |-> x, seedGains |-> gs, seedLosses |-> ls, seeded |-> full,
             averages |-> as]
    BY <1>3, <1>7 DEF RsiUpdate, g, l
  <2>5. full \in BOOLEAN
    OBVIOUS
  <2> HIDE DEF gs, ls, full, as, u
  <2>6. u \in Rsi /\ u.averages \in Average \X Average
    BY <1>1, <1>4, <2>3, <2>4, <2>5 DEF Rsi, Average
  <2>7. RsiValid(u, n + 1)
    BY <1>1, <1>4, <1>7, <2>2, <2>4 DEF RsiValid
  <2>8. QED BY <2>6, <2>7 DEF u, x
<1>8. QED BY <1>1, <1>5, <1>6, <1>7

(* StochRsi::update *)
LEMMA StochRsiStepValid ==
  ASSUME NEW k \in StochRsi, NEW n \in Nat, NEW c, Priced(c), StochRsiValid(k, n)
  PROVE  StochRsiStep(k, c) \in StochRsi /\ StochRsiValid(StochRsiStep(k, c), n + 1)
<1> DEFINE r == RsiUpdate(k.rsi, c.close)
           as == r.averages
           m == Moved(as)
           w == Push(k.window, as)
           d == Push(k.defined, m)
           last == k.last \/ Len(w) = Period
           u == StochRsiStep(k, c)
           AA == Average \X Average
<1>1. /\ k.rsi \in Rsi /\ k.window \in Seq(AA)
      /\ k.last \in BOOLEAN /\ k.defined \in Seq(BOOLEAN)
  BY DEF StochRsi
<1>2. r \in Rsi /\ RsiValid(r, n + 1) /\ as \in AA
  BY <1>1, RsiUpdateValid DEF StochRsiValid
<1>3. /\ Len(k.window) = Filled(n, Period) /\ Len(k.defined) = Len(k.window)
      /\ k.last <=> (n >= 2 * Period)
  BY DEF StochRsiValid
<1>4. r.seeded <=> (n >= Period)
  <2> HIDE DEF r
  <2> QED BY <1>2, PeriodAssumption DEF RsiValid
<1>f. /\ n < Period => Filled(n, Period) = 0 /\ Filled(n + 1, Period) = 0
      /\ n >= Period => Filled(n + 1, Period) = IF Filled(n, Period) < Period
                                                THEN Filled(n, Period) + 1 ELSE Period
      /\ Filled(n + 1, Period) = Period <=> n + 1 >= 2 * Period
      /\ Filled(n, Period) <= Period /\ Filled(n, Period) \in Nat
  BY PeriodAssumption DEF Filled, Smaller, Larger
<1>5. CASE ~r.seeded
  <2>1. u = [kind |-> "stoch_rsi", rsi |-> r, window |-> k.window, last |-> k.last,
             defined |-> k.defined]
    <3>1. u = [k EXCEPT !.rsi = r]
      BY <1>5 DEF StochRsiStep
    <3> HIDE DEF u, r
    <3>2. QED BY <3>1 DEF StochRsi
  <2> HIDE DEF u, r
  <2>2. n < Period
    BY <1>4, <1>5, PeriodAssumption
  <2>3. u \in StochRsi
    BY <1>1, <1>2, <2>1 DEF StochRsi
  <2>4. StochRsiValid(u, n + 1)
    BY <1>2, <1>3, <1>f, <2>1, <2>2, PeriodAssumption DEF StochRsiValid
  <2>5. QED BY <2>3, <2>4 DEF u
<1>6. CASE r.seeded
  <2>1. m \in BOOLEAN
    BY DEF Moved
  <2>2. Len(k.window) <= Period /\ Len(k.defined) <= Period
    BY <1>3, <1>f
  <2> HIDE DEF m, as
  <2>3. w \in Seq(AA) /\ Len(w) = IF Len(k.window) < Period THEN Len(k.window) + 1 ELSE Period
    <3> HIDE DEF AA
    <3> QED BY <1>1, <1>2, <2>2, PushWindow
  <2>4. /\ d \in Seq(BOOLEAN)
        /\ Len(d) = IF Len(k.defined) < Period THEN Len(k.defined) + 1 ELSE Period
    BY <1>1, <2>1, <2>2, PushWindow
  <2>5. u = [kind |-> "stoch_rsi", rsi |-> r, window |-> w, last |-> last, defined |-> d]
    <3>1. u = [k EXCEPT !.rsi = r, !.window = w, !.last = last, !.defined = d]
      BY <1>6 DEF StochRsiStep, m, as
    <3> HIDE DEF u, r, w, d, last
    <3>2. QED BY <3>1 DEF StochRsi
  <2>6. Len(w) = Filled(n + 1, Period) /\ Len(d) = Len(w)
    <3> HIDE DEF w, d
    <3> QED BY <1>3, <1>4, <1>6, <1>f, <2>3, <2>4
  <2>7. last \in BOOLEAN /\ (last <=> (n + 1 >= 2 * Period))
    <3> HIDE DEF w, d
    <3> QED BY <1>3, <1>f, <2>6, PeriodAssumption
  <2> HIDE DEF u, r, w, d, last
  <2>8. u \in StochRsi
    BY <1>2, <2>3, <2>4, <2>5, <2>7 DEF StochRsi
  <2>9. StochRsiValid(u, n + 1)
    BY <1>2, <2>5, <2>6, <2>7 DEF StochRsiValid
  <2>10. QED BY <2>8, <2>9 DEF u
<1>7. QED BY <1>5, <1>6

(* Vortex::update *)
LEMMA VortexStepValid ==
  ASSUME NEW k \in Vortex, NEW n \in Nat, NEW c, Priced(c), VortexValid(k, n)
  PROVE  VortexStep(k, c) \in Vortex /\ VortexValid(VortexStep(k, c), n + 1)
<1> DEFINE p == k.previous
           now == <<c.high, c.low, c.close>>
           moves == <<Distance(c.high, p[2]), Distance(c.low, p[1]), TrueRange(c, p[3])>>
           w == Push(k.window, moves)
           last == k.last \/ Len(w) = Period
           u == VortexStep(k, c)
<1>1. p \in {<<>>} \cup Triple /\ k.window \in Seq(Triple) /\ k.last \in BOOLEAN
  BY DEF Vortex
<1>2. now \in Triple /\ now # <<>>
  BY DEF Triple, Priced
<1>3. /\ (p # <<>>) <=> (n > 0)
      /\ Len(k.window) = Filled(n, 1)
      /\ \A i \in DOMAIN k.window : \A j \in 1 .. 3 : k.window[i][j] >= 0
      /\ k.last <=> (n >= Period + 1)
  BY DEF VortexValid
<1>f. /\ n = 0 => Filled(n, 1) = 0 /\ Filled(n + 1, 1) = 0
      /\ n > 0 => Filled(n + 1, 1) = IF Filled(n, 1) < Period
                                     THEN Filled(n, 1) + 1 ELSE Period
      /\ Filled(n + 1, 1) = Period <=> n + 1 >= Period + 1
      /\ Filled(n, 1) <= Period /\ Filled(n, 1) \in Nat
  BY PeriodAssumption DEF Filled, Smaller, Larger
<1>4. CASE n = 0
  <2>1. u = [kind |-> "vortex", previous |-> now, window |-> k.window, last |-> k.last]
    <3>1. u = [k EXCEPT !.previous = now]
      BY <1>3, <1>4 DEF VortexStep
    <3> HIDE DEF u, now
    <3>2. QED BY <3>1 DEF Vortex
  <2> HIDE DEF u, now
  <2>2. u \in Vortex
    BY <1>1, <1>2, <2>1 DEF Vortex
  <2>3. VortexValid(u, n + 1)
    BY <1>2, <1>3, <1>4, <1>f, <2>1, PeriodAssumption DEF VortexValid
  <2>4. QED BY <2>2, <2>3 DEF u
<1>5. CASE n # 0
  <2>1. p[1] \in Int /\ p[2] \in Int /\ p[3] \in Int
    BY <1>1, <1>3, <1>5 DEF Triple
  <2>2. moves \in Triple /\ \A j \in 1 .. 3 : moves[j] >= 0
    <3>1. Distance(c.high, p[2]) \in Int /\ Distance(c.high, p[2]) >= 0
      BY <2>1 DEF Distance, Larger, Priced
    <3>2. Distance(c.low, p[1]) \in Int /\ Distance(c.low, p[1]) >= 0
      BY <2>1 DEF Distance, Larger, Priced
    <3>3. TrueRange(c, p[3]) \in Int /\ TrueRange(c, p[3]) >= 0
      BY <2>1, TrueRangeNat
    <3>4. QED BY <3>1, <3>2, <3>3 DEF Triple
  <2>3. Len(k.window) <= Period
    BY <1>3, <1>f
  <2> HIDE DEF moves
  <2>4. /\ w \in Seq(Triple)
        /\ Len(w) = IF Len(k.window) < Period THEN Len(k.window) + 1 ELSE Period
        /\ \A i \in DOMAIN w : w[i] = moves \/ \E j \in DOMAIN k.window : w[i] = k.window[j]
    BY <1>1, <2>2, <2>3, PushWindow
  <2>5. u = [kind |-> "vortex", previous |-> now, window |-> w, last |-> last]
    <3>1. u = [k EXCEPT !.previous = now, !.window = w, !.last = last]
      BY <1>3, <1>5 DEF VortexStep, moves
    <3> HIDE DEF u, now, w, last
    <3>2. QED BY <3>1 DEF Vortex
  <2> HIDE DEF w
  <2>6. Len(w) = Filled(n + 1, 1)
    BY <1>3, <1>5, <1>f, <2>4
  <2>7. last \in BOOLEAN /\ (last <=> (n + 1 >= Period + 1))
    BY <1>3, <1>f, <2>6, PeriodAssumption
  <2>8. \A i \in DOMAIN w : \A j \in 1 .. 3 : w[i][j] >= 0
    BY <1>3, <2>2, <2>4
  <2> HIDE DEF u, now, last
  <2>9. u \in Vortex
    BY <1>2, <2>4, <2>5, <2>7 DEF Vortex
  <2>10. VortexValid(u, n + 1)
    BY <1>2, <2>5, <2>6, <2>7, <2>8 DEF VortexValid
  <2>11. QED BY <2>9, <2>10 DEF u
<1>6. QED BY <1>4, <1>5

-----------------------------------------------------------------------------
(* The deque of maxima                                                     *)

Mark == Nat \X Int

(* Along a deque the bars move on and the prices fall. *)
Descending(q) ==
  \A i \in 1 .. Len(q) - 1 : q[i][1] < q[i + 1][1] /\ q[i][2] > q[i + 1][2]

(* Popping the tail leaves a beginning of the deque whose last price is *)
(* above the new one; what is popped is not.                            *)
LEMMA DominatingPrefix ==
  ASSUME NEW q \in Seq(Mark), NEW price \in Int
  PROVE  \E n \in 0 .. Len(q) : /\ Dominating(q, price) = SubSeq(q, 1, n)
                                /\ n > 0 => q[n][2] > price
                                /\ \A i \in n + 1 .. Len(q) : q[i][2] <= price
<1> DEFINE Cut(n) == /\ \A i \in n + 1 .. Len(q) : q[i][2] <= price
                     /\ n > 0 => q[n][2] > price
           T == {n \in 0 .. Len(q) : \A i \in n + 1 .. Len(q) : q[i][2] <= price}
<1>1. Len(q) \in Nat /\ \A i \in 1 .. Len(q) : q[i][2] \in Int
  BY DEF Mark
<1>2. Len(q) \in T /\ T \in SUBSET Nat
  BY <1>1
<1>3. PICK n \in T : \A y \in T : n <= y
  <2> HIDE DEF T
  <2> QED BY <1>2, LeastNumber
<1>4. n > 0 => q[n][2] > price
  <2> SUFFICES ASSUME n > 0, ~(q[n][2] > price) PROVE FALSE
    OBVIOUS
  <2>1. n - 1 \in 0 .. Len(q) /\ n \in 1 .. Len(q) /\ q[n][2] <= price
    BY <1>1, <1>3
  <2>2. \A i \in (n - 1) + 1 .. Len(q) : q[i][2] <= price
    <3> SUFFICES ASSUME NEW i \in (n - 1) + 1 .. Len(q) PROVE q[i][2] <= price
      OBVIOUS
    <3>1. i = n \/ i \in n + 1 .. Len(q)
      BY <1>1, <1>3
    <3>2. QED BY <2>1, <3>1, <1>3
  <2>3. n - 1 \in T
    BY <2>1, <2>2
  <2>4. QED
    <3>1. n <= n - 1 /\ n \in Nat
      BY <1>2, <1>3, <2>3
    <3>2. QED BY <3>1
<1>5. n \in 0 .. Len(q) /\ Cut(n)
  BY <1>3, <1>4
<1>6. (CHOOSE m \in 0 .. Len(q) : Cut(m)) \in 0 .. Len(q) /\ Cut(CHOOSE m \in 0 .. Len(q) : Cut(m))
  <2> HIDE DEF Cut
  <2> QED BY <1>5
<1>7. Dominating(q, price) = SubSeq(q, 1, CHOOSE m \in 0 .. Len(q) : Cut(m))
  BY DEF Dominating
<1>8. QED BY <1>6, <1>7

(* Popping the head leaves an end of the deque whose first bar is recent *)
(* enough, if its last one is; what is popped is not.                    *)
LEMMA RecentSuffix ==
  ASSUME NEW q \in Seq(Mark), q # <<>>, NEW first \in Int, q[Len(q)][1] >= first
  PROVE  \E n \in 1 .. Len(q) : /\ Recent(q, first) = SubSeq(q, n, Len(q))
                                /\ q[n][1] >= first
                                /\ \A i \in 1 .. n - 1 : q[i][1] < first
<1> DEFINE Cut(n) == /\ \A i \in 1 .. n - 1 : q[i][1] < first
                     /\ q[n][1] >= first
           T == {n \in 1 .. Len(q) : q[n][1] >= first}
<1>1. /\ Len(q) \in Nat /\ Len(q) \in 1 .. Len(q)
      /\ \A i \in 1 .. Len(q) : q[i][1] \in Int
  BY DEF Mark
<1>2. Len(q) \in T /\ T \in SUBSET Nat
  BY <1>1
<1>3. PICK n \in T : \A y \in T : n <= y
  <2> HIDE DEF T
  <2> QED BY <1>2, LeastNumber
<1>4. ASSUME NEW i \in 1 .. n - 1 PROVE q[i][1] < first
  <2>1. i \in 1 .. Len(q) /\ i < n
    BY <1>1, <1>3
  <2>2. i \notin T
    BY <2>1, <1>1, <1>3
  <2>3. QED BY <2>1, <2>2, <1>1
<1>5. n \in 1 .. Len(q) /\ Cut(n)
  BY <1>3, <1>4
<1>6. (CHOOSE m \in 1 .. Len(q) : Cut(m)) \in 1 .. Len(q) /\ Cut(CHOOSE m \in 1 .. Len(q) : Cut(m))
  <2> HIDE DEF Cut
  <2> QED BY <1>5
<1>7. Recent(q, first) = SubSeq(q, CHOOSE m \in 1 .. Len(q) : Cut(m), Len(q))
  BY DEF Recent
<1>8. QED BY <1>6, <1>7

(* A deque along which the bars move on spans at least its length. *)
LEMMA Climbing ==
  ASSUME NEW q \in Seq(Mark), Descending(q)
  PROVE  \A i \in 1 .. Len(q) : q[i][1] >= q[1][1] + (i - 1)
<1> DEFINE T == {i \in 1 .. Len(q) : ~(q[i][1] >= q[1][1] + (i - 1))}
<1>1. Len(q) \in Nat /\ \A i \in 1 .. Len(q) : q[i][1] \in Nat
  BY DEF Mark
<1>2. SUFFICES ASSUME T # {} PROVE FALSE
  OBVIOUS
<1>3. T \in SUBSET Nat
  BY <1>1
<1>4. PICK i \in T : \A y \in T : i <= y
  <2> HIDE DEF T
  <2> QED BY <1>2, <1>3, LeastNumber
<1>5. i \in 1 .. Len(q) /\ i # 1 /\ q[1][1] \in Nat /\ q[i][1] \in Nat
  BY <1>1, <1>4
<1>6. i - 1 \in 1 .. Len(q) - 1 /\ i - 1 \in 1 .. Len(q) /\ (i - 1) + 1 = i
  BY <1>1, <1>5
<1>7. i - 1 \notin T
  BY <1>4, <1>5
<1>8. q[i - 1][1] >= q[1][1] + (i - 2)
  BY <1>5, <1>6, <1>7
<1>9. q[i - 1][1] < q[i][1]
  BY <1>6 DEF Descending
<1>10. ~(q[i][1] >= q[1][1] + (i - 1))
  BY <1>4
<1> HIDE DEF T
<1>11. q[i - 1][1] \in Nat
  BY <1>1, <1>6
<1>12. QED BY <1>5, <1>8, <1>9, <1>10, <1>11

(* The deque after one bar more (Ulcer::update). *)
LEMMA MaximaNext ==
  ASSUME NEW k \in Ulcer, NEW n \in Nat, UlcerValid(k, n), NEW price \in Int, price > 0
  PROVE  LET t == Maxima(k, price)
         IN  /\ t \in Seq(Mark) /\ t # <<>> /\ Len(t) <= Filled(n + 1, 0) /\ Descending(t)
             /\ \A i \in DOMAIN t : /\ t[i][1] > 0 /\ t[i][1] <= n + 1
                                    /\ t[i][1] >= (n + 1) - (Period - 1) /\ t[i][2] > 0
<1> DEFINE m == k.maxima
           d == Dominating(m, price)
           count == k.count + 1
           q == Append(d, <<count, price>>)
           first == Larger(count - (Period - 1), 0)
           t == Maxima(k, price)
<1>1. /\ m \in Seq(Mark) /\ k.count = n
      /\ \A i \in 1 .. Len(m) : m[i][1] \in Nat /\ m[i][2] \in Int
      /\ \A i \in 1 .. Len(m) : m[i][1] > 0 /\ m[i][1] <= n /\ m[i][2] > 0
      /\ Descending(m)
  BY DEF Ulcer, UlcerValid, Descending, Mark
<1>2. t = Recent(q, first) /\ count = n + 1
  BY <1>1 DEF Maxima
<1> HIDE DEF count
<1>3. PICK j \in 0 .. Len(m) : d = SubSeq(m, 1, j) /\ (j > 0 => m[j][2] > price)
  BY <1>1, DominatingPrefix
<1>4. /\ d \in Seq(Mark) /\ Len(d) = j /\ \A i \in 1 .. j : d[i] = m[i]
  <2> HIDE DEF m, d
  <2> QED BY <1>1, <1>3
<1>5. <<n + 1, price>> \in Mark
  BY DEF Mark
<1>6. /\ q \in Seq(Mark) /\ Len(q) = j + 1 /\ q[j + 1] = <<n + 1, price>>
      /\ \A i \in 1 .. j : q[i] = m[i]
  <2> HIDE DEF m, d
  <2> QED BY <1>2, <1>3, <1>4, <1>5
<1> HIDE DEF m, d, q
<1>7. Descending(q)
  <2> SUFFICES ASSUME NEW i \in 1 .. Len(q) - 1
               PROVE  q[i][1] < q[i + 1][1] /\ q[i][2] > q[i + 1][2]
    BY DEF Descending
  <2>1. i \in 1 .. j /\ q[i] = m[i] /\ j \in Nat /\ i \in 1 .. Len(m)
    BY <1>1, <1>3, <1>6
  <2>2. CASE i = j
    <3>1. q[i + 1] = <<n + 1, price>>
      BY <1>6, <2>2
    <3>2. m[i][1] <= n /\ m[i][2] > price /\ m[i][1] \in Nat
      BY <1>1, <1>3, <2>1, <2>2
    <3>3. QED BY <2>1, <3>1, <3>2
  <2>3. CASE i # j
    <3>1. i + 1 \in 1 .. j /\ i \in 1 .. Len(m) - 1 /\ q[i + 1] = m[i + 1]
      BY <1>1, <1>3, <1>6, <2>1, <2>3
    <3>0. Descending(m)
      BY <1>1
    <3>2. m[i][1] < m[i + 1][1] /\ m[i][2] > m[i + 1][2]
      BY <3>0, <3>1 DEF Descending
    <3>3. QED BY <2>1, <3>1, <3>2
  <2>4. QED BY <2>2, <2>3
<1>8. \A i \in 1 .. Len(q) : q[i][1] > 0 /\ q[i][1] <= n + 1 /\ q[i][2] > 0
  <2> SUFFICES ASSUME NEW i \in 1 .. Len(q)
               PROVE  q[i][1] > 0 /\ q[i][1] <= n + 1 /\ q[i][2] > 0
    OBVIOUS
  <2>1. CASE i = j + 1
    BY <1>6, <2>1
  <2>2. CASE i # j + 1
    <3>1. i \in 1 .. j /\ i \in 1 .. Len(m)
      BY <1>1, <1>3, <1>6, <2>2
    <3>2. m[i][1] > 0 /\ m[i][1] <= n /\ m[i][2] > 0 /\ m[i][1] \in Nat
      BY <1>1, <3>1
    <3>3. QED BY <1>6, <3>1, <3>2
  <2>3. QED BY <2>1, <2>2
<1>9. /\ first \in Int /\ first <= n + 1 /\ first >= (n + 1) - (Period - 1)
  BY <1>2, PeriodAssumption DEF Larger
<1> HIDE DEF first
<1>10. q # <<>> /\ q[Len(q)][1] >= first /\ q[Len(q)][1] = n + 1
  BY <1>3, <1>6, <1>9
<1>11. PICK b \in 1 .. Len(q) : Recent(q, first) = SubSeq(q, b, Len(q)) /\ q[b][1] >= first
  BY <1>6, <1>9, <1>10, RecentSuffix
<1> HIDE DEF t
<1>12. /\ t \in Seq(Mark) /\ Len(t) = Len(q) - b + 1 /\ Len(t) \in Nat
       /\ \A i \in 1 .. Len(t) : t[i] = q[b + i - 1]
  BY <1>2, <1>6, <1>11
<1>13. /\ Len(t) >= 1 /\ t # <<>> /\ t[1] = q[b] /\ t[Len(t)] = q[Len(q)]
       /\ \A i \in 1 .. Len(t) : b + i - 1 \in 1 .. Len(q)
  <2>1. Len(t) >= 1 /\ 1 \in 1 .. Len(t) /\ Len(t) \in 1 .. Len(t) /\ t # <<>>
    BY <1>6, <1>11, <1>12
  <2>2. t[1] = q[b + 1 - 1] /\ t[Len(t)] = q[b + Len(t) - 1]
    BY <1>12, <2>1
  <2>3. b + 1 - 1 = b /\ b + Len(t) - 1 = Len(q)
    BY <1>6, <1>11, <1>12
  <2>4. \A i \in 1 .. Len(t) : b + i - 1 \in 1 .. Len(q)
    BY <1>6, <1>11, <1>12
  <2>5. QED BY <2>1, <2>2, <2>3, <2>4
<1>14. Descending(t)
  <2> SUFFICES ASSUME NEW i \in 1 .. Len(t) - 1
               PROVE  t[i][1] < t[i + 1][1] /\ t[i][2] > t[i + 1][2]
    BY DEF Descending
  <2> DEFINE x == b + i - 1
  <2>1. x \in 1 .. Len(q) - 1 /\ t[i] = q[x] /\ t[i + 1] = q[x + 1]
    <3>1. /\ i \in 1 .. Len(t) /\ i + 1 \in 1 .. Len(t) /\ x \in 1 .. Len(q) - 1
          /\ b + (i + 1) - 1 = x + 1
      BY <1>6, <1>11, <1>12
    <3>2. QED BY <1>12, <3>1
  <2> HIDE DEF x
  <2>2. QED BY <1>7, <2>1 DEF Descending
<1>15. \A i \in 1 .. Len(t) : /\ t[i][1] > 0 /\ t[i][1] <= n + 1 /\ t[i][2] > 0
                              /\ t[i][1] \in Nat
  <2> SUFFICES ASSUME NEW i \in 1 .. Len(t)
               PROVE  /\ t[i][1] > 0 /\ t[i][1] <= n + 1 /\ t[i][2] > 0
                      /\ t[i][1] \in Nat
    OBVIOUS
  <2> DEFINE x == b + i - 1
  <2>1. x \in 1 .. Len(q) /\ t[i] = q[x]
    BY <1>12, <1>13
  <2>2. q[x][1] > 0 /\ q[x][1] <= n + 1 /\ q[x][2] > 0
    BY <1>8, <2>1
  <2>3. q[x] \in Mark
    BY <1>6, <2>1
  <2>4. QED BY <2>1, <2>2, <2>3 DEF Mark
<1>16. \A i \in 1 .. Len(t) : t[i][1] >= t[1][1] + (i - 1)
  BY <1>12, <1>14, Climbing
<1>17. /\ t[1][1] >= first /\ t[1][1] \in Nat /\ t[1][1] > 0 /\ Len(t) \in 1 .. Len(t)
  BY <1>11, <1>12, <1>13, <1>15
<1>18. \A i \in 1 .. Len(t) : t[i][1] >= (n + 1) - (Period - 1)
  <2> SUFFICES ASSUME NEW i \in 1 .. Len(t) PROVE t[i][1] >= (n + 1) - (Period - 1)
    OBVIOUS
  <2> DEFINE e == t[i][1]
             a == t[1][1]
  <2>1. e \in Nat /\ a \in Nat /\ a >= first /\ e >= a + (i - 1) /\ i \in Nat /\ i >= 1
    BY <1>12, <1>15, <1>16, <1>17
  <2> HIDE DEF e, a
  <2>2. e >= (n + 1) - (Period - 1)
    BY <1>9, <2>1, PeriodAssumption
  <2>3. QED BY <2>2 DEF e
<1>19. Len(t) <= n + 1 /\ Len(t) <= Period
  <2>1. n + 1 >= t[1][1] + (Len(t) - 1)
    BY <1>10, <1>13, <1>16, <1>17
  <2> DEFINE l == Len(t)
             a == t[1][1]
  <2>2. n + 1 >= a + (l - 1) /\ a \in Nat /\ a > 0 /\ a >= first /\ l \in Nat
    BY <2>1, <1>12, <1>17
  <2> HIDE DEF l, a
  <2>3. l <= n + 1 /\ l <= Period
    BY <1>9, <2>2, PeriodAssumption
  <2>4. QED BY <2>3 DEF l
<1>20. Len(t) <= Filled(n + 1, 0)
  BY <1>12, <1>19, PeriodAssumption DEF Filled, Smaller, Larger
<1>21. DOMAIN t = 1 .. Len(t)
  BY <1>12
<1>22. QED BY <1>12, <1>13, <1>14, <1>15, <1>18, <1>20, <1>21 DEF t

(* The parts of the shape of n + 1 bars. *)
LEMMA UlcerShape ==
  ASSUME NEW v \in Ulcer, NEW n \in Nat, v.count = n + 1, v.maxima # <<>>,
         Len(v.maxima) <= Filled(n + 1, 0), Descending(v.maxima),
         \A i \in DOMAIN v.maxima : /\ v.maxima[i][1] > 0 /\ v.maxima[i][1] <= n + 1
                                    /\ v.maxima[i][1] >= (n + 1) - (Period - 1)
                                    /\ v.maxima[i][2] > 0,
         Len(v.drawdowns) = Filled(n + 1, Period - 1),
         v.last <=> (n + 1 >= 2 * Period - 1)
  PROVE  UlcerValid(v, n + 1)
<1>1. (v.maxima = <<>>) <=> (n + 1 = 0)
  OBVIOUS
<1>2. QED BY <1>1 DEF UlcerValid, Descending

(* Ulcer::update *)
LEMMA UlcerStepValid ==
  ASSUME NEW k \in Ulcer, NEW n \in Nat, NEW c, Priced(c), UlcerValid(k, n)
  PROVE  UlcerStep(k, c) \in Ulcer /\ UlcerValid(UlcerStep(k, c), n + 1)
<1> DEFINE x == c.close
           t == Maxima(k, x)
           pair == <<x, t[1][2]>>
           w == Push(k.drawdowns, pair)
           last == k.last \/ Len(w) = Period
           u == UlcerStep(k, c)
<1>1. x \in Int /\ x > 0
  BY DEF Priced
<1>2. /\ t \in Seq(Mark) /\ t # <<>> /\ Len(t) <= Filled(n + 1, 0) /\ Descending(t)
      /\ \A i \in DOMAIN t : /\ t[i][1] > 0 /\ t[i][1] <= n + 1
                             /\ t[i][1] >= (n + 1) - (Period - 1) /\ t[i][2] > 0
  <2> HIDE DEF x
  <2> QED BY <1>1, MaximaNext
<1>3. /\ k.count = n /\ k.drawdowns \in Seq(Pair) /\ k.last \in BOOLEAN
      /\ Len(k.drawdowns) = Filled(n, Period - 1)
      /\ k.last <=> (n >= 2 * Period - 1)
  BY DEF Ulcer, UlcerValid
<1>f. /\ n + 1 < Period => Filled(n, Period - 1) = 0 /\ Filled(n + 1, Period - 1) = 0
      /\ n + 1 >= Period => Filled(n + 1, Period - 1) = IF Filled(n, Period - 1) < Period
                                                        THEN Filled(n, Period - 1) + 1
                                                        ELSE Period
      /\ Filled(n + 1, Period - 1) = Period <=> n + 1 >= 2 * Period - 1
      /\ Filled(n, Period - 1) <= Period /\ Filled(n, Period - 1) \in Nat
  BY PeriodAssumption DEF Filled, Smaller, Larger
<1> HIDE DEF x, t
<1>4. ASSUME NEW v \in Ulcer, v.count = n + 1, v.maxima = t,
             Len(v.drawdowns) = Filled(n + 1, Period - 1),
             v.last <=> (n + 1 >= 2 * Period - 1)
      PROVE  UlcerValid(v, n + 1)
  BY <1>2, <1>4, UlcerShape
<1>5. CASE n + 1 < Period
  <2>1. u = [kind |-> "ulcer", count |-> n + 1, maxima |-> t, drawdowns |-> k.drawdowns,
             last |-> k.last]
    <3>1. u = [k EXCEPT !.count = n + 1, !.maxima = t]
      BY <1>3, <1>5 DEF UlcerStep, x, t
    <3> HIDE DEF u
    <3>2. QED BY <3>1 DEF Ulcer
  <2> HIDE DEF u
  <2>2. u \in Ulcer
    BY <1>2, <1>3, <2>1 DEF Ulcer, Mark
  <2>3. ~(n + 1 >= 2 * Period - 1) /\ ~(n >= 2 * Period - 1)
    BY <1>5, PeriodAssumption
  <2>4. /\ u.count = n + 1 /\ u.maxima = t /\ Len(u.drawdowns) = Filled(n + 1, Period - 1)
        /\ u.last <=> (n + 1 >= 2 * Period - 1)
    BY <1>3, <1>5, <1>f, <2>1, <2>3
  <2>5. QED BY <1>4, <2>2, <2>4 DEF u
<1>6. CASE ~(n + 1 < Period)
  <2>1. pair \in Pair
    <3>1. t[1] \in Mark
      BY <1>2
    <3>2. QED BY <1>1, <3>1 DEF Pair, Mark
  <2>2. Len(k.drawdowns) <= Period
    BY <1>3, <1>f
  <2> HIDE DEF pair
  <2>3. /\ w \in Seq(Pair)
        /\ Len(w) = IF Len(k.drawdowns) < Period THEN Len(k.drawdowns) + 1 ELSE Period
    BY <1>3, <2>1, <2>2, PushWindow
  <2>4. u = [kind |-> "ulcer", count |-> n + 1, maxima |-> t, drawdowns |-> w, last |-> last]
    <3>1. u = [k EXCEPT !.count = n + 1, !.maxima = t, !.drawdowns = w, !.last = last]
      BY <1>3, <1>6 DEF UlcerStep, x, t, pair
    <3> HIDE DEF u, w, last
    <3>2. QED BY <3>1 DEF Ulcer
  <2> HIDE DEF w
  <2>5. Len(w) = Filled(n + 1, Period - 1)
    BY <1>3, <1>6, <1>f, <2>3, PeriodAssumption
  <2>6. last \in BOOLEAN /\ (last <=> (n + 1 >= 2 * Period - 1))
    BY <1>3, <1>f, <2>5, PeriodAssumption
  <2> HIDE DEF u, last
  <2>7. u \in Ulcer
    BY <1>2, <2>3, <2>4, <2>6 DEF Ulcer, Mark
  <2>8. QED BY <1>4, <2>4, <2>5, <2>6, <2>7 DEF u
<1>7. QED BY <1>5, <1>6

(* A bar with prices takes any reference kernel of the shape of n bars to *)
(* one of the same kind and of the shape of n + 1 (Reference::step,       *)
(* valid_for).                                                            *)
LEMMA ReferenceStepValid ==
  ASSUME NEW k \in ReferenceKernel, NEW n \in Nat, NEW c, Priced(c),
         ReferenceValid(k, k.kind, n)
  PROVE  /\ ReferenceStep(k, c) \in ReferenceKernel /\ ReferenceStep(k, c).kind = k.kind
         /\ ReferenceValid(ReferenceStep(k, c), k.kind, n + 1)
<1>1. CASE k \in Alma
  <2>1. k.kind = "alma"
    BY <1>1 DEF Alma
  <2>2. ReferenceStep(k, c) = AlmaStep(k, c)
    BY <2>1 DEF ReferenceStep
  <2>3. AlmaStep(k, c) \in Alma /\ ReferenceValid(AlmaStep(k, c), "alma", n + 1)
    BY <1>1, <2>1, AlmaStepValid
  <2>4. QED BY <2>1, <2>2, <2>3 DEF Alma, ReferenceKernel
<1>2. CASE k \in SuperTrend
  <2>1. k.kind = "supertrend" /\ ReferenceStep(k, c) = SuperTrendStep(k, c)
    BY <1>2 DEF SuperTrend, ReferenceStep
  <2>2. SuperTrendStep(k, c) \in SuperTrend /\ SuperTrendValid(SuperTrendStep(k, c), n + 1)
    BY <1>2, <2>1, SuperTrendStepValid DEF ReferenceValid
  <2>3. QED BY <2>1, <2>2 DEF SuperTrend, ReferenceKernel, ReferenceValid
<1>3. CASE k \in StochRsi
  <2>1. k.kind = "stoch_rsi" /\ ReferenceStep(k, c) = StochRsiStep(k, c)
    BY <1>3 DEF StochRsi, ReferenceStep
  <2>2. StochRsiStep(k, c) \in StochRsi /\ StochRsiValid(StochRsiStep(k, c), n + 1)
    BY <1>3, <2>1, StochRsiStepValid DEF ReferenceValid
  <2>3. QED BY <2>1, <2>2 DEF StochRsi, ReferenceKernel, ReferenceValid
<1>4. CASE k \in Vortex
  <2>1. k.kind = "vortex" /\ ReferenceStep(k, c) = VortexStep(k, c)
    BY <1>4 DEF Vortex, ReferenceStep
  <2>2. VortexStep(k, c) \in Vortex /\ VortexValid(VortexStep(k, c), n + 1)
    BY <1>4, <2>1, VortexStepValid DEF ReferenceValid
  <2>3. QED BY <2>1, <2>2 DEF Vortex, ReferenceKernel, ReferenceValid
<1>5. CASE k \in Ulcer
  <2>1. k.kind = "ulcer" /\ ReferenceStep(k, c) = UlcerStep(k, c)
    BY <1>5 DEF Ulcer, ReferenceStep
  <2>2. UlcerStep(k, c) \in Ulcer /\ UlcerValid(UlcerStep(k, c), n + 1)
    BY <1>5, <2>1, UlcerStepValid DEF ReferenceValid
  <2>3. QED BY <2>1, <2>2 DEF Ulcer, ReferenceKernel, ReferenceValid
<1>6. QED BY <1>1, <1>2, <1>3, <1>4, <1>5 DEF ReferenceKernel

-----------------------------------------------------------------------------
(* Kernels                                                                 *)

(* Every kernel of the engine's own is of a kind of its own. *)
LEMMA OwnKind ==
  ASSUME NEW k \in OwnKernel
  PROVE  k.kind \in OwnKinds
BY DEF OwnKernel, OwnKinds

LEMMA NewOwnValid ==
  ASSUME NEW p \in OwnKinds
  PROVE  NewOwn(p) \in OwnKernel /\ NewOwn(p).kind = p /\ OwnValid(NewOwn(p), p, 0)
<1> USE PeriodAssumption DEF NewOwn, OwnKernel, OwnValid, Pair
<1>1. CASE p = "ema"  BY <1>1
<1>2. CASE p = "rsi"  BY <1>2
<1>3. CASE p = "atr"  BY <1>3
<1>4. CASE p = "obv"  BY <1>4
<1>5. CASE p \in {"vwma", "williams"}
  <2>1. NewOwn(p) = [kind |-> p, window |-> <<>>]
    BY <1>5
  <2>2. QED
    BY <2>1, <1>5
<1>6. QED BY <1>1, <1>2, <1>3, <1>4, <1>5 DEF OwnKinds

(* Every profile starts with a kernel of its kind and of the shape of an *)
(* empty history (Kernel::new, valid_for).                               *)
LEMMA NewKernelValid ==
  ASSUME NEW p \in Kinds
  PROVE  NewKernel(p) \in Kernel /\ ValidFor(NewKernel(p), p, 0)
BY NewOwnValid, NewReferenceValid DEF Kinds, Kernel, NewKernel, ValidFor

LEMMA OwnStepValid ==
  ASSUME NEW p \in OwnKinds, NEW k \in OwnKernel, NEW n \in Nat, NEW c \in Candles,
         k.kind = p, OwnValid(k, p, n), ValidCandle(c)
  PROVE  /\ OwnStep(k, c) \in OwnKernel /\ OwnStep(k, c).kind = p
         /\ OwnValid(OwnStep(k, c), p, n + 1)
<1>0. /\ c.open \in Int /\ c.high \in Int /\ c.low \in Int
      /\ c.close \in Int /\ c.volume \in Int
      /\ c.close > 0 /\ c.low > 0 /\ c.high >= c.low /\ c.volume >= 0
  BY EngineAssumption DEF ValidCandle
<1>1. CASE p = "ema"
  <2>1. k \in [kind: {"ema"}, seeded: BOOLEAN, value: Int]
    BY <1>1 DEF OwnKernel, OwnValid
  <2> DEFINE v == IF k.seeded THEN Smooth(k.value, c.close) ELSE c.close
  <2>2. v \in Int
    BY <1>0, <2>1 DEF Smooth
  <2>3. OwnStep(k, c) = [kind |-> "ema", seeded |-> TRUE, value |-> v]
    BY <1>1, <2>1 DEF OwnStep, EmaStep, OwnValid
  <2> HIDE DEF v
  <2>4. QED
    BY <1>1, <2>2, <2>3 DEF OwnKernel, OwnValid
<1>2. CASE p = "rsi"
  <2>1. k \in [kind: {"rsi"}, previous: Int, seeded: BOOLEAN, gains: Int, losses: Int]
    BY <1>2 DEF OwnKernel, OwnValid
  <2>2. ((k.previous # 0) <=> (n > 0)) /\ (k.seeded <=> (n > 1))
    BY <1>2 DEF OwnValid
  <2> DEFINE gain == Larger(c.close - k.previous, 0)
             loss == Larger(k.previous - c.close, 0)
             g == IF k.seeded THEN Smooth(k.gains, gain) ELSE gain
             l == IF k.seeded THEN Smooth(k.losses, loss) ELSE loss
  <2>3. g \in Int /\ l \in Int
    BY <1>0, <2>1 DEF Smooth, Larger
  <2>4. OwnStep(k, c) = RsiStep(k, c)
    BY <1>2, <2>1 DEF OwnStep, OwnValid
  <2>5. CASE k.previous = 0
    <3>1. OwnStep(k, c) = [k EXCEPT !.previous = c.close]
      BY <2>4, <2>5 DEF RsiStep
    <3>2. QED
      BY <1>0, <1>2, <2>1, <2>2, <2>5, <3>1 DEF OwnKernel, OwnValid
  <2>6. CASE k.previous # 0
    <3>1. OwnStep(k, c) = [kind |-> "rsi", previous |-> c.close, seeded |-> TRUE,
                              gains |-> g, losses |-> l]
      BY <2>1, <2>4, <2>6 DEF RsiStep
    <3> HIDE DEF g, l
    <3>2. QED
      BY <1>0, <1>2, <2>2, <2>3, <2>6, <3>1 DEF OwnKernel, OwnValid
  <2>7. QED BY <2>5, <2>6
<1>3. CASE p = "atr"
  <2>1. k \in [kind: {"atr"}, samples: Nat, previous: Int, average: Int]
    BY <1>3 DEF OwnKernel, OwnValid
  <2>2. k.samples = n
    BY <1>3 DEF OwnValid
  <2> DEFINE a == AtrStep(k, c).average
  <2>3. a \in Int
    BY <1>0, <2>1 DEF AtrStep, Smooth, Larger, Smaller
  <2>4. OwnStep(k, c) = [kind |-> "atr", samples |-> n + 1, previous |-> c.close,
                            average |-> a]
    BY <1>3, <2>1, <2>2 DEF OwnStep, AtrStep, OwnValid
  <2> HIDE DEF a
  <2>5. QED
    BY <1>0, <1>3, <2>3, <2>4 DEF OwnKernel, OwnValid
<1>4. CASE p = "obv"
  <2>1. k \in [kind: {"obv"}, previous: Int, sum: Int]
    BY <1>4 DEF OwnKernel, OwnValid
  <2> DEFINE v == ObvStep(k, c).sum
  <2>2. v \in Int
    BY <1>0, <2>1 DEF ObvStep
  <2>3. OwnStep(k, c) = [kind |-> "obv", previous |-> c.close, sum |-> v]
    BY <1>4, <2>1 DEF OwnStep, ObvStep, OwnValid
  <2> HIDE DEF v
  <2>4. QED
    BY <1>0, <1>4, <2>2, <2>3 DEF OwnKernel, OwnValid
<1>5. CASE p \in {"vwma", "williams"}
  <2>1. k \in [kind: {"vwma", "williams"}, window: Seq(Pair)] /\ k.kind = p
    BY <1>5 DEF OwnKernel, OwnValid
  <2>2. Len(k.window) = IF n < Period THEN n ELSE Period
    BY <1>5 DEF OwnValid
  <2> DEFINE pair == IF p = "vwma" THEN <<c.close, c.volume>> ELSE <<c.high, c.low>>
             w == Push(k.window, pair)
             Sound(x) == IF p = "vwma" THEN x[1] > 0 /\ x[2] >= 0
                                       ELSE x[2] > 0 /\ x[1] >= x[2]
  <2>3. pair \in Pair /\ Sound(pair)
    BY <1>0 DEF Pair
  <2>4. \A i \in DOMAIN k.window : Sound(k.window[i])
    BY <1>5 DEF OwnValid
  <2>5. /\ w \in Seq(Pair)
        /\ Len(w) = IF n + 1 < Period THEN n + 1 ELSE Period
        /\ \A i \in DOMAIN w : w[i] = pair \/ \E j \in DOMAIN k.window : w[i] = k.window[j]
    <3> HIDE DEF pair
    <3>1. Len(k.window) <= Period
      BY <2>2, PeriodAssumption
    <3>2. /\ w \in Seq(Pair)
          /\ Len(w) = IF Len(k.window) < Period THEN Len(k.window) + 1 ELSE Period
          /\ \A i \in DOMAIN w : w[i] = pair \/ \E j \in DOMAIN k.window : w[i] = k.window[j]
      BY <2>1, <2>3, <3>1, PushWindow
    <3> HIDE DEF w
    <3>3. QED BY <2>2, <3>2, PeriodAssumption
  <2>6. OwnStep(k, c) = [kind |-> p, window |-> w]
    <3>1. CASE p = "vwma"
      BY <2>1, <3>1 DEF OwnStep, VwmaStep
    <3>2. CASE p = "williams"
      BY <2>1, <3>2 DEF OwnStep, WilliamsStep
    <3> QED BY <1>5, <3>1, <3>2
  <2>7. \A i \in DOMAIN w : Sound(w[i])
    <3> HIDE DEF w, pair, Sound
    <3> QED BY <2>3, <2>4, <2>5
  <2> HIDE DEF w, pair
  <2>8. QED
    BY <1>5, <2>5, <2>6, <2>7 DEF OwnKernel, OwnValid
<1>6. QED BY <1>1, <1>2, <1>3, <1>4, <1>5 DEF OwnKinds

(* A valid bar takes a kernel of the shape of n bars to one of n + 1 bars.  *)
LEMMA KernelStepValid ==
  ASSUME NEW p \in Kinds, NEW k \in Kernel, NEW n \in Nat, NEW c \in Candles,
         ValidFor(k, p, n), ValidCandle(c)
  PROVE  KernelStep(k, c) \in Kernel /\ ValidFor(KernelStep(k, c), p, n + 1)
<1>1. k.kind = p
  BY DEF ValidFor
<1>2. CASE p \in ReferenceKinds
  <2>1. k \in ReferenceKernel /\ ReferenceValid(k, k.kind, n)
    BY <1>1, <1>2, OwnKind DEF Kernel, OwnKinds, ReferenceKinds, ValidFor
  <2>2. Priced(c)
    BY EngineAssumption DEF Priced, ValidCandle
  <2>3. QED
    BY <1>1, <1>2, <2>1, <2>2, ReferenceStepValid DEF Kernel, KernelStep, ValidFor
<1>3. CASE p \notin ReferenceKinds
  <2>1. p \in OwnKinds /\ k \in OwnKernel /\ OwnValid(k, p, n)
    BY <1>1, <1>3, ReferenceKind DEF Kernel, Kinds, ValidFor
  <2>2. QED
    BY <1>1, <1>3, <2>1, OwnStepValid DEF Kernel, KernelStep, ValidFor
<1>4. QED BY <1>2, <1>3

-----------------------------------------------------------------------------
(* States and logs                                                         *)

(* The streams fed with the first bars of a sequence exist: what Fed defines *)
(* by recursion is defined for every sequence.                               *)
LEMMA FedStreams ==
  ASSUME NEW id, NEW p, NEW bars \in Seq(Bar)
  PROVE  /\ Fed(id, p, bars)[0] = NewStream(id, p)
         /\ \A n \in 1 .. Len(bars) :
              Fed(id, p, bars)[n] = Consume(Fed(id, p, bars)[n - 1], bars[n])
<1> DEFINE New == NewStream(id, p)
           Feeds(f, m) ==
             f = [n \in 0 .. m |-> IF n = 0 THEN New ELSE Consume(f[n - 1], bars[n])]
           Missing == {m \in 0 .. Len(bars) : ~\E f : Feeds(f, m)}
<1>1. Missing = {}
  <2> SUFFICES ASSUME Missing # {} PROVE FALSE
    OBVIOUS
  <2>1. PICK m \in Missing : \A k \in Missing : m <= k
    <3>1. Missing \in SUBSET Nat
      OBVIOUS
    <3> HIDE DEF Missing
    <3>2. QED BY <3>1, LeastNumber
  <2>2. m # 0
    <3> DEFINE f == [n \in 0 .. 0 |-> New]
    <3>1. Feeds(f, 0)
      <4> HIDE DEF New
      <4> QED OBVIOUS
    <3> HIDE DEF Feeds, f
    <3>2. QED BY <3>1
  <2>3. PICK f : Feeds(f, m - 1)
    <3> HIDE DEF Feeds
    <3> QED BY <2>1, <2>2
  <2> DEFINE g == [n \in 0 .. m |-> IF n = m THEN Consume(f[m - 1], bars[m]) ELSE f[n]]
  <2>4. Feeds(g, m)
    <3> HIDE DEF New
    <3>1. m \in Nat /\ m > 0
      BY <2>2
    <3>2. QED BY <2>3, <3>1
  <2> HIDE DEF Feeds
  <2>5. QED BY <2>4
<1>2. \E f : Feeds(f, Len(bars))
  <2> HIDE DEF Feeds
  <2> QED BY <1>1
<1> DEFINE f == Fed(id, p, bars)
<1>3. Feeds(f, Len(bars))
  BY <1>2 DEF Fed
<1>4. QED
  <2> HIDE DEF New, f
  <2>1. f[0] = New /\ \A n \in 1 .. Len(bars) : f[n] = Consume(f[n - 1], bars[n])
    BY <1>3
  <2>2. QED BY <2>1 DEF New, f

(* Streams that were fed the same bars are the same. *)
LEMMA FedSame ==
  ASSUME NEW id, NEW p, NEW a \in Seq(Bar), NEW b \in Seq(Bar),
         NEW m \in 0 .. Len(a), m <= Len(b), \A i \in 1 .. m : a[i] = b[i]
  PROVE  Fed(id, p, a)[m] = Fed(id, p, b)[m]
<1> DEFINE f == Fed(id, p, a)
           g == Fed(id, p, b)
           Apart == {n \in 0 .. m : f[n] # g[n]}
<1>1. /\ f[0] = g[0]
      /\ \A n \in 1 .. m : f[n] = Consume(f[n - 1], a[n]) /\ g[n] = Consume(g[n - 1], a[n])
  BY FedStreams
<1> HIDE DEF f, g
<1>2. Apart = {}
  <2> SUFFICES ASSUME Apart # {} PROVE FALSE
    OBVIOUS
  <2>1. PICK n \in Apart : \A k \in Apart : n <= k
    <3>1. Apart \in SUBSET Nat
      OBVIOUS
    <3> HIDE DEF Apart
    <3>2. QED BY <3>1, LeastNumber
  <2>2. n \in 1 .. m /\ f[n - 1] = g[n - 1]
    BY <1>1, <2>1
  <2>3. QED BY <1>1, <2>2
<1>3. f[m] = g[m]
  BY <1>2
<1>4. QED BY <1>3 DEF f, g

LEMMA BarsOfLog ==
  ASSUME NEW l \in Seq(Entry)
  PROVE  /\ Bars(l) \in Seq(Bar) /\ Len(Bars(l)) = Len(l)
         /\ \A i \in 1 .. Len(l) : Bars(l)[i] = l[i].bar
<1>1. DOMAIN l = 1 .. Len(l) /\ Len(l) \in Nat /\ \A i \in 1 .. Len(l) : l[i].bar \in Bar
  <2>1. \A e \in Entry : e.bar \in Bar
    BY DEF Entry
  <2>2. QED BY <2>1
<1>2. Bars(l) = [i \in 1 .. Len(l) |-> l[i].bar]
  BY <1>1 DEF Bars
<1>3. QED BY <1>1, <1>2

LEMMA ReplayNothing ==
  ASSUME NEW id, NEW p
  PROVE  Replay(id, p, <<>>) = NewStream(id, p)
<1>1. <<>> \in Seq(Entry) /\ Len(<<>>) = 0
  OBVIOUS
<1>2. QED BY <1>1, BarsOfLog, FedStreams DEF Replay

(* One more bar in a log is one more bar into the stream that replays it. *)
LEMMA ReplayNext ==
  ASSUME NEW id, NEW p, NEW l \in Seq(Entry), NEW e \in Entry
  PROVE  Replay(id, p, Append(l, e)) = Consume(Replay(id, p, l), e.bar)
<1> DEFINE m == Append(l, e)
           n == Len(l)
<1>1. m \in Seq(Entry) /\ Len(m) = n + 1 /\ m[n + 1] = e /\ \A i \in 1 .. n : m[i] = l[i]
  OBVIOUS
<1> HIDE DEF m
<1>2. /\ Bars(l) \in Seq(Bar) /\ Len(Bars(l)) = n
      /\ Bars(m) \in Seq(Bar) /\ Len(Bars(m)) = n + 1 /\ Bars(m)[n + 1] = e.bar
      /\ \A i \in 1 .. n : Bars(m)[i] = Bars(l)[i]
  BY <1>1, BarsOfLog
<1>3. Fed(id, p, Bars(l))[n] = Fed(id, p, Bars(m))[n]
  <2>1. n \in 0 .. Len(Bars(l)) /\ n <= Len(Bars(m))
    BY <1>2
  <2>2. QED BY <1>2, <2>1, FedSame
<1>4. Fed(id, p, Bars(m))[n + 1] = Consume(Fed(id, p, Bars(m))[n], e.bar)
  <2>1. n + 1 \in 1 .. Len(Bars(m)) /\ (n + 1) - 1 = n
    BY <1>2
  <2>2. QED BY <1>2, <2>1, FedStreams
<1>5. QED BY <1>1, <1>3, <1>4 DEF Replay, m

(* A new stream is linked to the empty log (Stream::new). *)
LEMMA NewStreamLinked ==
  ASSUME NEW id \in Identities, NEW p \in Profiles
  PROVE  NewStream(id, p) \in State /\ Linked(NewStream(id, p), <<>>)
<1> DEFINE k == NewKernel(p)
<1>1. k \in Kernel /\ ValidFor(k, p, 0)
  BY NewKernelValid, EngineAssumption
<1>2. NoRow \in Row
  BY DEF NoRow, Row, Status
<1>3. NewStream(id, p) =
        [identity |-> id, profile |-> p, samples |-> 0, closed |-> 0,
         available |-> 0, latest |-> NoRow, kernel |-> k]
  BY DEF NewStream
<1> HIDE DEF k
<1>4. NewStream(id, p) \in State
  BY <1>1, <1>2, <1>3 DEF State
<1>5. RowConsistent(NewStream(id, p))
  BY <1>3 DEF RowConsistent
<1>6. NewStream(id, p) = Replay(id, p, <<>>)
  BY ReplayNothing
<1>7. QED
  BY <1>1, <1>3, <1>4, <1>5, <1>6 DEF Linked, NoRow

(* Consuming an acceptable bar keeps a state linked to its log, the log now *)
(* one bar longer (Stream::update).                                         *)
LEMMA ConsumeLinked ==
  ASSUME NEW s \in State, NEW l \in Seq(Entry), Linked(s, l),
         NEW bar \in Bar, NEW asOf \in Time, Acceptable(bar, asOf, s),
         NEW e \in Entry, e.bar = bar, e.series = <<s.identity, s.profile>>
  PROVE  Consume(s, bar) \in State /\ Linked(Consume(s, bar), Append(l, e))
<1> DEFINE k == KernelStep(s.kernel, bar.candle)
           n == s.samples + 1
           row == [status |-> RowStatus(s.profile, n, k), samples |-> n,
                   closed |-> bar.closed, available |-> bar.available]
           t == Consume(s, bar)
           m == Append(l, e)
<1>1. /\ s.identity \in Identities /\ s.profile \in Profiles /\ s.profile \in Kinds
      /\ s.samples \in Nat /\ s.closed \in Nat /\ s.available \in Nat
      /\ s.kernel \in Kernel
      /\ bar.closed \in Nat /\ bar.available \in Nat /\ bar.candle \in Candles
  BY EngineAssumption DEF State, Bar, Time
<1>2. /\ bar.closed > s.closed /\ bar.available >= s.available
      /\ bar.closed > 0 /\ bar.closed <= bar.available /\ ValidCandle(bar.candle)
  BY <1>1, EngineAssumption DEF Acceptable, TimeOk, InOrder, Time
<1>3. k \in Kernel /\ ValidFor(k, s.profile, n)
  BY <1>1, <1>2, KernelStepValid DEF Linked
<1>4. row \in Row /\ ((row.status = "WarmingUp") <=> (n < MinimumBars[s.profile]))
  BY <1>1 DEF Row, RowStatus, Status
<1>5. t = [identity |-> s.identity, profile |-> s.profile, samples |-> n,
           closed |-> bar.closed, available |-> bar.available, latest |-> row,
           kernel |-> k]
  <2> HIDE DEF k
  <2>1. t = [s EXCEPT !.samples = n, !.closed = bar.closed, !.available = bar.available,
                      !.latest = row, !.kernel = k]
    BY DEF Consume, k
  <2> HIDE DEF t, row, n
  <2>2. QED BY <2>1 DEF State
<1> HIDE DEF k, t
<1>6. t \in State
  <2> HIDE DEF row
  <2> QED BY <1>1, <1>3, <1>4, <1>5 DEF State
<1>7. RowConsistent(t)
  BY <1>1, <1>2, <1>4, <1>5 DEF RowConsistent
<1>8. /\ Len(m) = n /\ m # <<>> /\ m[Len(m)] = e
      /\ \A i \in 1 .. Len(l) : m[i] = l[i]
  <2>1. Len(l) = s.samples
    BY DEF Linked
  <2>2. Len(m) = Len(l) + 1 /\ m[Len(l) + 1] = e /\ \A i \in 1 .. Len(l) : m[i] = l[i]
    OBVIOUS
  <2>3. Len(l) \in Nat
    OBVIOUS
  <2> HIDE DEF m
  <2>4. m # <<>>
    BY <2>2, <2>3
  <2>5. QED BY <2>1, <2>2, <2>3, <2>4
<1>9. \A i \in 1 .. Len(m) - 1 : /\ m[i].bar.closed < m[i + 1].bar.closed
                                 /\ m[i].bar.available <= m[i + 1].bar.available
  <2> SUFFICES ASSUME NEW i \in 1 .. Len(m) - 1
               PROVE  /\ m[i].bar.closed < m[i + 1].bar.closed
                      /\ m[i].bar.available <= m[i + 1].bar.available
    OBVIOUS
  <2>1. CASE i < Len(l)
    <3>1. m[i] = l[i] /\ m[i + 1] = l[i + 1] /\ i \in 1 .. Len(l) - 1
      BY <2>1, <1>8
    <3>2. QED BY <3>1 DEF Linked
  <2>2. CASE i = Len(l)
    <3>1. m[i] = l[Len(l)] /\ m[i + 1] = e /\ l # <<>>
      BY <2>2, <1>8 DEF Linked
    <3>2. QED BY <3>1, <1>2 DEF Linked
  <2>3. QED BY <2>1, <2>2, <1>8 DEF Linked
<1>10. \A i \in 1 .. Len(m) : m[i].series = <<t.identity, t.profile>>
  <2> SUFFICES ASSUME NEW i \in 1 .. Len(m)
               PROVE  m[i].series = <<t.identity, t.profile>>
    OBVIOUS
  <2>1. t.identity = s.identity /\ t.profile = s.profile
    BY <1>5
  <2>2. CASE i <= Len(l)
    BY <2>1, <2>2, <1>8 DEF Linked
  <2>3. CASE i > Len(l)
    BY <2>1, <2>3, <1>8 DEF Linked
  <2>4. QED BY <2>2, <2>3, <1>8
<1>11. /\ t.samples = Len(m) /\ t.samples <= t.closed /\ t.closed <= t.available
       /\ t.closed = m[Len(m)].bar.closed /\ t.available = m[Len(m)].bar.available
       /\ t.latest.samples = t.samples
       /\ t.latest.closed = t.closed /\ t.latest.available = t.available
  BY <1>1, <1>2, <1>5, <1>8 DEF Linked
<1>12. ValidFor(t.kernel, t.profile, t.samples)
  BY <1>3, <1>5
<1>13. t = Replay(t.identity, t.profile, m)
  <2>1. t.identity = s.identity /\ t.profile = s.profile
    BY <1>5
  <2>2. s = Replay(s.identity, s.profile, l)
    BY DEF Linked
  <2>3. QED BY <2>1, <2>2, ReplayNext DEF t
<1> HIDE DEF m, row, n
<1>14. Linked(t, m)
  BY <1>7, <1>8, <1>9, <1>10, <1>11, <1>12, <1>13 DEF Linked
<1>15. QED
  BY <1>6, <1>14 DEF t, m

(* restore accepts the snapshot of a linked state (Stream::restore). *)
LEMMA LinkedRestorable ==
  ASSUME NEW s \in State, NEW l, Linked(s, l)
  PROVE  Restorable(SnapshotOf(s), s.identity, s.profile)
BY DEF Linked, Restorable, Compatible, Intact, SnapshotOf, Digest

(* A snapshot restore accepts is the one taken of the state in it, so the log *)
(* beside it is the log of that state: what damage leaves is refused.         *)
LEMMA RestoredLinked ==
  ASSUME NEW e, Sealed(e), NEW id \in Identities, NEW p \in Profiles,
         Restorable(e.snapshot, id, p)
  PROVE  /\ e.snapshot.payload \in State
         /\ Linked(e.snapshot.payload, e.log)
         /\ e.snapshot.payload.identity = id /\ e.snapshot.payload.profile = p
<1>1. PICK s \in State : /\ e.snapshot.checksum = Digest(1, s.profile, s)
                         /\ Linked(s, e.log)
  BY DEF Sealed
<1>2. e.snapshot.payload = s
  BY <1>1 DEF Restorable, Intact, Digest
<1>3. QED
  BY <1>1, <1>2 DEF Restorable, Intact
=============================================================================
