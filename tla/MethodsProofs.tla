---------------------------- MODULE MethodsProofs ----------------------------
(***************************************************************************)
(* Proofs about the methods over a window: for any values and any length   *)
(* the caches of the extrema are those of the window and the distances     *)
(* those of the newest ones; for any reach the reversal methods signal the *)
(* pivots of the series as long as their counter counts; where a number    *)
(* has one pattern of bits the moving median answers the median of its     *)
(* window.                                                                 *)
(***************************************************************************)
EXTENDS Methods, FiniteSetTheorems, WellFoundedInduction, TLAPS

USE ExtremaAssumption

Windows == [1 .. Length -> Value]

(* A value enters the window, the oldest leaves, the others move up by one. *)
LEMMA Slid ==
  ASSUME NEW w \in Windows, NEW v \in Value
  PROVE  LET n == Append(Tail(w), v)
         IN  /\ n \in Windows /\ n[Length] = v
             /\ \A i \in 1 .. Length - 1 : n[i] = w[i + 1]
             /\ Head(w) = w[1]
<1>1. w \in Seq(Value) /\ Len(w) = Length
  BY DEF Windows
<1>2. PICK t : t = Tail(w)
  OBVIOUS
<1>3. t \in Seq(Value) /\ Len(t) = Length - 1 /\ \A i \in 1 .. Length - 1 : t[i] = w[i + 1]
  BY <1>1, <1>2
<1>4. PICK n : n = Append(t, v)
  OBVIOUS
<1>5. /\ n \in Seq(Value) /\ Len(n) = Length /\ n[Length] = v
      /\ \A i \in 1 .. Length - 1 : n[i] = t[i]
  BY <1>3, <1>4
<1>6. n \in Windows
  BY <1>5 DEF Windows
<1> QED BY <1>1, <1>2, <1>3, <1>4, <1>5, <1>6

(* What it takes to be an extremum of a window, slot by slot. *)
LEMMA ExtremumOf ==
  ASSUME NEW w \in Windows
  PROVE  /\ ToSet(w) = {w[i] : i \in 1 .. Length} /\ ToSet(w) \subseteq Value
         /\ \A v : v \in Greatest(w) <=> /\ \E i \in 1 .. Length : w[i] = v
                                         /\ \A i \in 1 .. Length : Num(w[i]) <= Num(v)
         /\ \A v : v \in Least(w) <=> /\ \E i \in 1 .. Length : w[i] = v
                                      /\ \A i \in 1 .. Length : Num(v) <= Num(w[i])
BY DEF Windows, ToSet, Greatest, Least

(* A set of distances has a least one. *)
Smaller == {p \in Nat \X Nat : p[1] < p[2]}

LEMMA LeastDistance ==
  ASSUME NEW S, S \subseteq Nat, S # {}
  PROVE  \E n \in S : \A m \in S : n <= m
<1>1. IsWellFoundedOn(Smaller, Nat)
  <2>1. OpToRel(<, Nat) = Smaller
    BY DEF OpToRel, Smaller
  <2> QED BY <2>1, NatLessThanWellFounded
<1>2. PICK n \in S : \A m \in S : <<m, n>> \notin Smaller
  BY <1>1, WFMin
<1>3. ASSUME NEW m \in S PROVE n <= m
  <2>1. m \in Nat /\ n \in Nat /\ <<m, n>> \notin Smaller
    BY <1>2
  <2> QED BY <2>1 DEF Smaller
<1> QED BY <1>3

(* The newest of some values is where none newer is one of them. *)
LEMMA NewestFound ==
  ASSUME NEW w \in Windows, NEW G, NEW i \in 1 .. Length, w[i] \in G
  PROVE  LET e == NewestOf(w, G)
         IN  /\ e \in Spot /\ e.value \in G /\ w[Length - e.index] = e.value
             /\ \A j \in Length - e.index + 1 .. Length : w[j] \notin G
<1> DEFINE P(x) == /\ w[x] \in G
                   /\ \A j \in x + 1 .. Length : w[j] \notin G
           Back == {n \in 0 .. Length - 1 : w[Length - n] \in G}
<1>1. Back \subseteq Nat /\ Back # {}
  <2>1. Length - i \in 0 .. Length - 1 /\ Length - (Length - i) = i
    OBVIOUS
  <2>2. Length - i \in Back
    BY <2>1
  <2>3. \A n \in Back : n \in 0 .. Length - 1
    OBVIOUS
  <2>4. \A n \in Back : n \in Nat
    BY <2>3
  <2> HIDE DEF Back
  <2> QED BY <2>2, <2>4
<1>2. PICK n \in Back : \A m \in Back : n <= m
  BY <1>1, LeastDistance
<1>3. P(Length - n) /\ Length - n \in 1 .. Length
  BY <1>2
<1>4. PICK k : k = CHOOSE x \in 1 .. Length : P(x)
  OBVIOUS
<1>5. k \in 1 .. Length /\ P(k)
  <2> HIDE DEF P
  <2> QED BY <1>3, <1>4
<1>6. NewestOf(w, G) = [index |-> Length - k, value |-> w[k]]
  BY <1>4 DEF NewestOf
<1> QED BY <1>5, <1>6 DEF Spot, Windows

(* There is only one such place. *)
LEMMA NewestUnique ==
  ASSUME NEW w \in Windows, NEW G, NEW e \in Spot,
         e.value \in G, w[Length - e.index] = e.value,
         \A j \in Length - e.index + 1 .. Length : w[j] \notin G
  PROVE  e = NewestOf(w, G)
<1> DEFINE f == NewestOf(w, G)
<1>1. Length - e.index \in 1 .. Length
  BY DEF Spot
<1>2. /\ f \in Spot /\ f.value \in G /\ w[Length - f.index] = f.value
      /\ \A j \in Length - f.index + 1 .. Length : w[j] \notin G
  BY <1>1, NewestFound
<1> HIDE DEF f
<1>3. e.index = f.index
  BY <1>2 DEF Spot
<1>4. e.value = f.value
  BY <1>2, <1>3
<1>5. e = [index |-> e.index, value |-> e.value] /\ f = [index |-> f.index, value |-> f.value]
  BY <1>2 DEF Spot
<1>6. e = f
  BY <1>3, <1>4, <1>5
<1> QED BY <1>6 DEF f

(* What a value that enters makes of the greatest ones. *)
LEMMA GreatestAfter ==
  ASSUME NEW w \in Windows, NEW n \in Windows, NEW v \in Value, n[Length] = v,
         \A i \in 1 .. Length - 1 : n[i] = w[i + 1],
         NEW h \in Greatest(w)
  PROVE  /\ Num(v) >= Num(h) => v \in Greatest(n)
         /\ ~(Num(v) >= Num(h)) /\ (\E k \in 2 .. Length : w[k] = h) => h \in Greatest(n)
         /\ w[1] # h => \E k \in 2 .. Length : w[k] = h
<1>1. /\ \E i \in 1 .. Length : w[i] = h
      /\ \A i \in 1 .. Length : Num(w[i]) <= Num(h)
  BY ExtremumOf
<1>2. h \in Value /\ \A i \in 1 .. Length : w[i] \in Value /\ n[i] \in Value
  BY <1>1 DEF Windows
<1>3. Num(h) \in Int /\ Num(v) \in Int /\ \A i \in 1 .. Length : Num(w[i]) \in Int
  BY <1>2
<1>4. ASSUME Num(v) >= Num(h) PROVE v \in Greatest(n)
  <2>1. ASSUME NEW i \in 1 .. Length PROVE Num(n[i]) <= Num(v)
    <3>1. CASE i = Length
      BY <3>1, <1>3
    <3>2. CASE i < Length
      <4>1. i \in 1 .. Length - 1 /\ i + 1 \in 1 .. Length /\ n[i] = w[i + 1]
        BY <3>2
      <4>2. Num(w[i + 1]) <= Num(h) /\ Num(w[i + 1]) \in Int
        BY <4>1, <1>1, <1>3
      <4> QED BY <4>1, <4>2, <1>3, <1>4
    <3> QED BY <3>1, <3>2
  <2>2. Length \in 1 .. Length
    OBVIOUS
  <2> QED BY <2>1, <2>2, ExtremumOf
<1>5. ASSUME ~(Num(v) >= Num(h)), NEW k \in 2 .. Length, w[k] = h PROVE h \in Greatest(n)
  <2>1. ASSUME NEW i \in 1 .. Length PROVE Num(n[i]) <= Num(h)
    <3>1. CASE i = Length
      BY <3>1, <1>3, <1>5
    <3>2. CASE i < Length
      <4>1. i \in 1 .. Length - 1 /\ i + 1 \in 1 .. Length /\ n[i] = w[i + 1]
        BY <3>2
      <4> QED BY <4>1, <1>1
    <3> QED BY <3>1, <3>2
  <2>2. k - 1 \in 1 .. Length - 1 /\ k - 1 \in 1 .. Length /\ n[k - 1] = h
    BY <1>5
  <2> QED BY <2>1, <2>2, ExtremumOf
<1>6. ASSUME w[1] # h PROVE \E k \in 2 .. Length : w[k] = h
  BY <1>1, <1>6
<1> QED BY <1>4, <1>5, <1>6

(* What a value that enters makes of the least ones. *)
LEMMA LeastAfter ==
  ASSUME NEW w \in Windows, NEW n \in Windows, NEW v \in Value, n[Length] = v,
         \A i \in 1 .. Length - 1 : n[i] = w[i + 1],
         NEW h \in Least(w)
  PROVE  /\ Num(v) <= Num(h) => v \in Least(n)
         /\ ~(Num(v) <= Num(h)) /\ (\E k \in 2 .. Length : w[k] = h) => h \in Least(n)
         /\ w[1] # h => \E k \in 2 .. Length : w[k] = h
<1>1. /\ \E i \in 1 .. Length : w[i] = h
      /\ \A i \in 1 .. Length : Num(h) <= Num(w[i])
  BY ExtremumOf
<1>2. h \in Value /\ \A i \in 1 .. Length : w[i] \in Value /\ n[i] \in Value
  BY <1>1 DEF Windows
<1>3. Num(h) \in Int /\ Num(v) \in Int /\ \A i \in 1 .. Length : Num(w[i]) \in Int
  BY <1>2
<1>4. ASSUME Num(v) <= Num(h) PROVE v \in Least(n)
  <2>1. ASSUME NEW i \in 1 .. Length PROVE Num(v) <= Num(n[i])
    <3>1. CASE i = Length
      BY <3>1, <1>3
    <3>2. CASE i < Length
      <4>1. i \in 1 .. Length - 1 /\ i + 1 \in 1 .. Length /\ n[i] = w[i + 1]
        BY <3>2
      <4>2. Num(h) <= Num(w[i + 1]) /\ Num(w[i + 1]) \in Int
        BY <4>1, <1>1, <1>3
      <4> QED BY <4>1, <4>2, <1>3, <1>4
    <3> QED BY <3>1, <3>2
  <2>2. Length \in 1 .. Length
    OBVIOUS
  <2> QED BY <2>1, <2>2, ExtremumOf
<1>5. ASSUME ~(Num(v) <= Num(h)), NEW k \in 2 .. Length, w[k] = h PROVE h \in Least(n)
  <2>1. ASSUME NEW i \in 1 .. Length PROVE Num(h) <= Num(n[i])
    <3>1. CASE i = Length
      BY <3>1, <1>3, <1>5
    <3>2. CASE i < Length
      <4>1. i \in 1 .. Length - 1 /\ i + 1 \in 1 .. Length /\ n[i] = w[i + 1]
        BY <3>2
      <4> QED BY <4>1, <1>1
    <3> QED BY <3>1, <3>2
  <2>2. k - 1 \in 1 .. Length - 1 /\ k - 1 \in 1 .. Length /\ n[k - 1] = h
    BY <1>5
  <2> QED BY <2>1, <2>2, ExtremumOf
<1>6. ASSUME w[1] # h PROVE \E k \in 2 .. Length : w[k] = h
  BY <1>1, <1>6
<1> QED BY <1>4, <1>5, <1>6

(* TopNext: whether it counts on or searches, the newest extremum is found. *)
LEMMA TopNextNewest ==
  ASSUME NEW w \in Windows, NEW n \in Windows, NEW v \in Value, n[Length] = v,
         \A i \in 1 .. Length - 1 : n[i] = w[i + 1],
         NEW h \in Greatest(w), NEW g \in Greatest(n), top \in Spot, top = NewestOf(w, Greatest(w))
  PROVE  TopNext(v, n) = NewestOf(n, Greatest(n)) /\ TopNext(v, n) \in Spot
<1> DEFINE t == top.value
           k == Length - top.index
<1>1. k \in 1 .. Length /\ t \in Value
  BY DEF Spot
<1>2. t \in Greatest(w) /\ w[k] = t /\ \A j \in k + 1 .. Length : w[j] \notin Greatest(w)
  <2>1. PICK i \in 1 .. Length : w[i] = h
    BY ExtremumOf
  <2>2. w[i] \in Greatest(w)
    BY <2>1
  <2> QED BY <2>2, NewestFound
<1>3. /\ Num(v) >= Num(top.value) => v \in Greatest(n)
      /\ ~(Num(v) >= Num(top.value)) /\ (\E m \in 2 .. Length : w[m] = t) => t \in Greatest(n)
  BY <1>2, GreatestAfter
<1>4. CASE Num(v) >= Num(top.value)
  <2> DEFINE e == [index |-> 0, value |-> v]
  <2>1. TopNext(v, n) = e
    <3>1. ~(Num(v) < Num(top.value))
      BY <1>1, <1>4
    <3> QED BY <1>4, <3>1 DEF TopNext
  <2>2. e \in Spot /\ e.value \in Greatest(n) /\ n[Length - e.index] = e.value
        /\ \A j \in Length - e.index + 1 .. Length : n[j] \notin Greatest(n)
    BY <1>3, <1>4 DEF Spot
  <2> QED BY <2>1, <2>2, NewestUnique
<1>5. CASE ~(Num(v) >= Num(top.value)) /\ top.index + 1 = Length
  <2>1. TopNext(v, n) = NewestOf(n, Greatest(n))
    <3>1. Num(v) < Num(top.value)
      BY <1>1, <1>5
    <3> QED BY <1>5, <3>1 DEF TopNext
  <2>2. PICK i \in 1 .. Length : n[i] = g
    BY ExtremumOf
  <2>3. n[i] \in Greatest(n)
    BY <2>2
  <2> QED BY <2>1, <2>3, NewestFound
<1>6. CASE ~(Num(v) >= Num(top.value)) /\ top.index + 1 # Length
  <2> DEFINE e == [index |-> top.index + 1, value |-> t]
  <2>1. TopNext(v, n) = e
    <3>1. TopNext(v, n) = [top EXCEPT !.index = @ + 1]
      BY <1>6 DEF TopNext
    <3>2. top = [index |-> top.index, value |-> top.value]
      BY DEF Spot
    <3>3. [top EXCEPT !.index = @ + 1] = [index |-> top.index + 1, value |-> top.value]
      BY <3>2
    <3> QED BY <3>1, <3>3
  <2>2. k \in 2 .. Length /\ e \in Spot /\ Length - e.index = k - 1
    BY <1>6 DEF Spot
  <2>3. t \in Greatest(n) /\ n[k - 1] = t
    <3>1. k - 1 \in 1 .. Length - 1 /\ n[k - 1] = w[k]
      BY <2>2
    <3> QED BY <1>2, <1>3, <1>6, <2>2, <3>1
  <2>4. ASSUME NEW j \in k .. Length PROVE n[j] \notin Greatest(n)
    <3>1. SUFFICES ASSUME n[j] \in Greatest(n) PROVE FALSE
      OBVIOUS
    <3>2. j \in 1 .. Length
      BY <1>1
    <3>3. n[j] \in Value /\ Num(n[j]) = Num(t)
      <4>1. Num(n[j]) <= Num(t) /\ Num(t) <= Num(n[j])
        BY <2>3, <3>1, <3>2, ExtremumOf
      <4>2. n[j] \in Value
        BY <3>2 DEF Windows
      <4> QED BY <1>1, <4>1, <4>2
    <3>4. CASE j = Length
      BY <1>1, <1>6, <3>3, <3>4
    <3>5. CASE j < Length
      <4>1. j \in 1 .. Length - 1 /\ j + 1 \in 1 .. Length /\ j + 1 \in k + 1 .. Length
        BY <1>1, <3>5
      <4>2. n[j] = w[j + 1]
        BY <4>1
      <4>3. w[j + 1] \in Greatest(w)
        BY <1>2, <3>3, <4>1, <4>2, ExtremumOf
      <4> QED BY <1>2, <4>1, <4>3
    <3> QED BY <3>2, <3>4, <3>5
  <2>5. /\ e.value \in Greatest(n) /\ n[Length - e.index] = e.value
        /\ \A j \in Length - e.index + 1 .. Length : n[j] \notin Greatest(n)
    BY <2>2, <2>3, <2>4
  <2>6. e = NewestOf(n, Greatest(n))
    BY <2>2, <2>5, NewestUnique
  <2> QED BY <2>1, <2>2, <2>6
<1> QED BY <1>4, <1>5, <1>6

(* BottomNext: whether it counts on or searches, the newest extremum is found. *)
LEMMA BottomNextNewest ==
  ASSUME NEW w \in Windows, NEW n \in Windows, NEW v \in Value, n[Length] = v,
         \A i \in 1 .. Length - 1 : n[i] = w[i + 1],
         NEW h \in Least(w), NEW g \in Least(n), bottom \in Spot, bottom = NewestOf(w, Least(w))
  PROVE  BottomNext(v, n) = NewestOf(n, Least(n)) /\ BottomNext(v, n) \in Spot
<1> DEFINE t == bottom.value
           k == Length - bottom.index
<1>1. k \in 1 .. Length /\ t \in Value
  BY DEF Spot
<1>2. t \in Least(w) /\ w[k] = t /\ \A j \in k + 1 .. Length : w[j] \notin Least(w)
  <2>1. PICK i \in 1 .. Length : w[i] = h
    BY ExtremumOf
  <2>2. w[i] \in Least(w)
    BY <2>1
  <2> QED BY <2>2, NewestFound
<1>3. /\ Num(v) <= Num(bottom.value) => v \in Least(n)
      /\ ~(Num(v) <= Num(bottom.value)) /\ (\E m \in 2 .. Length : w[m] = t) => t \in Least(n)
  BY <1>2, LeastAfter
<1>4. CASE Num(v) <= Num(bottom.value)
  <2> DEFINE e == [index |-> 0, value |-> v]
  <2>1. BottomNext(v, n) = e
    <3>1. ~(Num(v) > Num(bottom.value))
      BY <1>1, <1>4
    <3> QED BY <1>4, <3>1 DEF BottomNext
  <2>2. e \in Spot /\ e.value \in Least(n) /\ n[Length - e.index] = e.value
        /\ \A j \in Length - e.index + 1 .. Length : n[j] \notin Least(n)
    BY <1>3, <1>4 DEF Spot
  <2> QED BY <2>1, <2>2, NewestUnique
<1>5. CASE ~(Num(v) <= Num(bottom.value)) /\ bottom.index + 1 = Length
  <2>1. BottomNext(v, n) = NewestOf(n, Least(n))
    <3>1. Num(v) > Num(bottom.value)
      BY <1>1, <1>5
    <3> QED BY <1>5, <3>1 DEF BottomNext
  <2>2. PICK i \in 1 .. Length : n[i] = g
    BY ExtremumOf
  <2>3. n[i] \in Least(n)
    BY <2>2
  <2> QED BY <2>1, <2>3, NewestFound
<1>6. CASE ~(Num(v) <= Num(bottom.value)) /\ bottom.index + 1 # Length
  <2> DEFINE e == [index |-> bottom.index + 1, value |-> t]
  <2>1. BottomNext(v, n) = e
    <3>1. BottomNext(v, n) = [bottom EXCEPT !.index = @ + 1]
      BY <1>6 DEF BottomNext
    <3>2. bottom = [index |-> bottom.index, value |-> bottom.value]
      BY DEF Spot
    <3>3. [bottom EXCEPT !.index = @ + 1] = [index |-> bottom.index + 1, value |-> bottom.value]
      BY <3>2
    <3> QED BY <3>1, <3>3
  <2>2. k \in 2 .. Length /\ e \in Spot /\ Length - e.index = k - 1
    BY <1>6 DEF Spot
  <2>3. t \in Least(n) /\ n[k - 1] = t
    <3>1. k - 1 \in 1 .. Length - 1 /\ n[k - 1] = w[k]
      BY <2>2
    <3> QED BY <1>2, <1>3, <1>6, <2>2, <3>1
  <2>4. ASSUME NEW j \in k .. Length PROVE n[j] \notin Least(n)
    <3>1. SUFFICES ASSUME n[j] \in Least(n) PROVE FALSE
      OBVIOUS
    <3>2. j \in 1 .. Length
      BY <1>1
    <3>3. n[j] \in Value /\ Num(n[j]) = Num(t)
      <4>1. Num(n[j]) <= Num(t) /\ Num(t) <= Num(n[j])
        BY <2>3, <3>1, <3>2, ExtremumOf
      <4>2. n[j] \in Value
        BY <3>2 DEF Windows
      <4> QED BY <1>1, <4>1, <4>2
    <3>4. CASE j = Length
      BY <1>1, <1>6, <3>3, <3>4
    <3>5. CASE j < Length
      <4>1. j \in 1 .. Length - 1 /\ j + 1 \in 1 .. Length /\ j + 1 \in k + 1 .. Length
        BY <1>1, <3>5
      <4>2. n[j] = w[j + 1]
        BY <4>1
      <4>3. w[j + 1] \in Least(w)
        BY <1>2, <3>3, <4>1, <4>2, ExtremumOf
      <4> QED BY <1>2, <4>1, <4>3
    <3> QED BY <3>2, <3>4, <3>5
  <2>5. /\ e.value \in Least(n) /\ n[Length - e.index] = e.value
        /\ \A j \in Length - e.index + 1 .. Length : n[j] \notin Least(n)
    BY <2>2, <2>3, <2>4
  <2>6. e = NewestOf(n, Least(n))
    BY <2>2, <2>5, NewestUnique
  <2> QED BY <2>1, <2>2, <2>6
<1> QED BY <1>4, <1>5, <1>6

-----------------------------------------------------------------------------
(* The properties are inductive together: a search happens only where a cached *)
(* value leaves, and nothing but the caches tells that the window has extrema. *)

Inv == TypeOK /\ CachesAreExtrema /\ IndexIsNewest

LEMMA InitInv == Init => Inv
<1> SUFFICES ASSUME Init PROVE Inv
  OBVIOUS
<1>1. PICK v \in Value :
        /\ window = [i \in 1 .. Length |-> v]
        /\ highest = v /\ lowest = v
        /\ delta = [highest |-> v, lowest |-> v]
        /\ top = [index |-> 0, value |-> v]
        /\ bottom = [index |-> 0, value |-> v]
  BY DEF Init
<1>2. window \in Windows /\ \A i \in 1 .. Length : window[i] = v
  BY <1>1 DEF Windows
<1>3. v \in Greatest(window) /\ v \in Least(window)
  <2>1. Num(v) <= Num(v) /\ Length \in 1 .. Length
    OBVIOUS
  <2> QED BY <1>2, <2>1, ExtremumOf
<1>4. TypeOK
  BY <1>1, <1>2 DEF TypeOK, Spot, Windows
<1>5. CachesAreExtrema
  BY <1>1, <1>3 DEF CachesAreExtrema
<1>6. top = NewestOf(window, Greatest(window)) /\ bottom = NewestOf(window, Least(window))
  <2> DEFINE e == [index |-> 0, value |-> v]
  <2>1. e \in Spot /\ e.value = v /\ window[Length - e.index] = e.value
        /\ Length - e.index + 1 .. Length = {}
    BY <1>2 DEF Spot
  <2>2. top = e /\ bottom = e
    BY <1>1
  <2> HIDE DEF e
  <2>3. e = NewestOf(window, Greatest(window))
    BY <1>2, <1>3, <2>1, NewestUnique
  <2>4. e = NewestOf(window, Least(window))
    BY <1>2, <1>3, <2>1, NewestUnique
  <2> QED BY <2>2, <2>3, <2>4
<1> QED BY <1>4, <1>5, <1>6 DEF Inv, IndexIsNewest

LEMMA NextInv == Inv /\ [Next]_vars => Inv'
<1> SUFFICES ASSUME Inv, [Next]_vars PROVE Inv'
  OBVIOUS
<1>1. CASE UNCHANGED vars
  BY <1>1 DEF Inv, TypeOK, CachesAreExtrema, IndexIsNewest, vars
<1>2. ASSUME NEW v \in Value, Consume(v) PROVE Inv'
  <2> DEFINE w == window
             n == window'
  <2>1. w \in Windows /\ n = Append(Tail(w), v)
    BY <1>2 DEF Inv, TypeOK, Windows, Consume
  <2>2. n \in Windows /\ n[Length] = v /\ \A i \in 1 .. Length - 1 : n[i] = w[i + 1]
    BY <2>1, Slid
  <2>3. /\ highest' \in HighestNext(v, w[1], n) /\ lowest' \in LowestNext(v, w[1], n)
        /\ delta' \in DeltaNext(v, w[1], n)
        /\ top' = TopNext(v, n) /\ bottom' = BottomNext(v, n)
    <3>1. Head(w) = w[1]
      BY <2>1, Slid
    <3> QED BY <1>2, <2>1, <3>1 DEF Consume
  <2>4. /\ highest \in Greatest(w) /\ lowest \in Least(w)
        /\ delta.highest \in Greatest(w) /\ delta.lowest \in Least(w)
        /\ delta \in [highest: Value, lowest: Value] /\ top \in Spot /\ bottom \in Spot
        /\ top = NewestOf(w, Greatest(w)) /\ bottom = NewestOf(w, Least(w))
    BY DEF Inv, TypeOK, CachesAreExtrema, IndexIsNewest
  <2> HIDE DEF w, n
  <2>5. ASSUME NEW h \in Greatest(w)
        PROVE  /\ Num(v) >= Num(h) => v \in Greatest(n)
               /\ ~(Num(v) >= Num(h)) /\ w[1] # h => h \in Greatest(n)
    BY <2>1, <2>2, GreatestAfter
  <2>6. ASSUME NEW h \in Least(w)
        PROVE  /\ Num(v) <= Num(h) => v \in Least(n)
               /\ ~(Num(v) <= Num(h)) /\ w[1] # h => h \in Least(n)
    BY <2>1, <2>2, LeastAfter
  <2>7. highest' \in Greatest(n) /\ lowest' \in Least(n)
    BY <2>3, <2>4, <2>5, <2>6 DEF HighestNext, LowestNext
  <2>8. delta' \in [highest: Greatest(n), lowest: Least(n)]
    <3> DEFINE up     == Num(v) >= Num(delta.highest)
               down   == Num(v) <= Num(delta.lowest)
               search == (~up /\ w[1] = delta.highest) \/ (~down /\ w[1] = delta.lowest)
    <3>1. CASE search
      BY <2>3, <3>1 DEF DeltaNext
    <3>2. CASE ~search
      <4>1. delta' = [highest |-> IF up THEN v ELSE delta.highest,
                      lowest  |-> IF down THEN v ELSE delta.lowest]
        BY <2>3, <3>2 DEF DeltaNext
      <4>2. (IF up THEN v ELSE delta.highest) \in Greatest(n)
        BY <2>4, <2>5, <3>2
      <4>3. (IF down THEN v ELSE delta.lowest) \in Least(n)
        BY <2>4, <2>6, <3>2
      <4> HIDE DEF up, down
      <4> QED BY <4>1, <4>2, <4>3
    <3> QED BY <3>1, <3>2
  <2>9. top' = NewestOf(n, Greatest(n)) /\ top' \in Spot
    BY <2>1, <2>2, <2>3, <2>4, <2>7, TopNextNewest
  <2>10. bottom' = NewestOf(n, Least(n)) /\ bottom' \in Spot
    BY <2>1, <2>2, <2>3, <2>4, <2>7, BottomNextNewest
  <2>11. Greatest(n) \subseteq Value /\ Least(n) \subseteq Value
    BY <2>2, ExtremumOf DEF Greatest, Least
  <2>12. TypeOK'
    BY <2>2, <2>7, <2>8, <2>9, <2>10, <2>11 DEF TypeOK, Windows, Spot, n
  <2>13. CachesAreExtrema' /\ IndexIsNewest'
    BY <2>7, <2>8, <2>9, <2>10 DEF CachesAreExtrema, IndexIsNewest, Greatest, Least, NewestOf, n
  <2> QED BY <2>12, <2>13 DEF Inv
<1> QED BY <1>1, <1>2 DEF Next

(* Every call of next preserves the three together. *)
THEOREM Invariance == Spec => []Inv
BY InitInv, NextInv, PTL DEF Spec

(* Every distance stays within the window: the unsigned counters of the index *)
(* methods never overflow (methods/highest_lowest_index.rs).                  *)
THEOREM TypeCorrect == Spec => []TypeOK
<1>1. Inv => TypeOK
  BY DEF Inv
<1> QED BY <1>1, Invariance, PTL

(* The caches of Highest, Lowest and HighestLowestDelta are extrema of the    *)
(* window after any series (methods/highest_lowest.rs).                       *)
THEOREM CachesCorrect == Spec => []CachesAreExtrema
<1>1. Inv => CachesAreExtrema
  BY DEF Inv
<1> QED BY <1>1, Invariance, PTL

(* HighestIndex and LowestIndex name the newest extremum after any series     *)
(* (methods/highest_lowest_index.rs).                                         *)
THEOREM IndexCorrect == Spec => []IndexIsNewest
<1>1. Inv => IndexIsNewest
  BY DEF Inv
<1> QED BY <1>1, Invariance, PTL

HIDE ExtremaAssumption

-----------------------------------------------------------------------------
(* Reversal signals                                                        *)

(* The two orders a method may look by are orders. *)
LEMMA AboveIsOrder ==
  ASSUME NEW side, NEW a \in Int, NEW b \in Int, NEW c \in Int
  PROVE  /\ ~Reversal!Above(side, a, a)
         /\ ~Reversal!Above(side, a, b) /\ ~Reversal!Above(side, b, c) =>
              ~Reversal!Above(side, a, c)
         /\ Reversal!Above(side, a, b) /\ ~Reversal!Above(side, a, c) =>
              Reversal!Above(side, c, b)
         /\ Reversal!Above(side, a, b) => ~Reversal!Above(side, b, a)
BY DEF Reversal!Above

(* The greater of one and a number, as Reach has it. *)
LEMMA FromOne ==
  ASSUME NEW x \in Int
  PROVE  /\ Reversal!Max({1, x}) \in Int
         /\ \A i \in Int : i >= Reversal!Max({1, x}) <=> i >= 1 /\ i >= x
<1> DEFINE Top(m) == m \in {1, x} /\ \A y \in {1, x} : m >= y
           m == CHOOSE y \in {1, x} : \A z \in {1, x} : y >= z
<1>1. Top(IF x > 1 THEN x ELSE 1)
  OBVIOUS
<1>2. m \in {1, x} /\ \A y \in {1, x} : m >= y
  BY <1>1
<1>3. Reversal!Max({1, x}) = m
  BY DEF Reversal!Max
<1> HIDE DEF m
<1>4. QED BY <1>2, <1>3

(* What is within reach of a window of `size` values, n after the first one. *)
ReachOf(w, n, size, first) ==
  {[back |-> size - i, value |-> w[i]] : i \in Reversal!Max({1, size - n + 1}) .. size}
    \union (IF n <= size THEN {[back |-> n - 1, value |-> first]} ELSE {})

(* One window after another: v came, and the oldest left. *)
Advances(w, v, u, size) == u[size] = v /\ \A i \in 1 .. size - 1 : u[i] = w[i + 1]

LEMMA InReach ==
  ASSUME NEW size \in Nat, NEW n \in Nat, NEW w, NEW first, NEW q
  PROVE  q \in ReachOf(w, n, size, first) <=>
           \/ \E i \in 1 .. size : i > size - n /\ q = [back |-> size - i, value |-> w[i]]
           \/ n <= size /\ q = [back |-> n - 1, value |-> first]
<1> DEFINE m == Reversal!Max({1, size - n + 1})
<1>1. m \in Int /\ \A i \in Int : i >= m <=> i >= 1 /\ i >= size - n + 1
  BY FromOne
<1> HIDE DEF m
<1>2. \A i : i \in m .. size <=> i \in 1 .. size /\ i > size - n
  BY <1>1
<1>3. QED BY <1>2 DEF ReachOf, m

(* What is within reach after a value: it, and what was, one further back. *)
Shifted(old, new, v, size) ==
  \A q : q \in new <=> \/ q = [back |-> 0, value |-> v]
                      \/ \E r \in old : r.back + 1 < size
                                        /\ q = [back |-> r.back + 1, value |-> r.value]

(* With a value more, all that was within reach lies one further back.     *)
LEMMA ReachNext ==
  ASSUME NEW size \in Nat, size > 0, NEW n \in Nat, NEW m, m = n + 1, NEW first, NEW v \in Value,
         NEW w \in [1 .. size -> Value], NEW u, Advances(w, v, u, size)
  PROVE  Shifted(ReachOf(w, n, size, first), ReachOf(u, m, size, first), v, size)
<1> SUFFICES ASSUME NEW q
             PROVE  q \in ReachOf(u, m, size, first) <=>
                      \/ q = [back |-> 0, value |-> v]
                      \/ \E r \in ReachOf(w, n, size, first) :
                           r.back + 1 < size /\ q = [back |-> r.back + 1, value |-> r.value]
  BY DEF Shifted
<1>1. q \in ReachOf(u, m, size, first) <=>
        \/ \E i \in 1 .. size : i > size - (n + 1) /\ q = [back |-> size - i, value |-> u[i]]
        \/ n + 1 <= size /\ q = [back |-> (n + 1) - 1, value |-> first]
  <2>1. m \in Nat
    OBVIOUS
  <2>2. q \in ReachOf(u, m, size, first) <=>
          \/ \E i \in 1 .. size : i > size - m /\ q = [back |-> size - i, value |-> u[i]]
          \/ m <= size /\ q = [back |-> m - 1, value |-> first]
    BY <2>1, InReach
  <2>3. QED BY <2>2
<1>2. \A r : r \in ReachOf(w, n, size, first) <=>
        \/ \E i \in 1 .. size : i > size - n /\ r = [back |-> size - i, value |-> w[i]]
        \/ n <= size /\ r = [back |-> n - 1, value |-> first]
  <2> SUFFICES ASSUME NEW r
               PROVE  r \in ReachOf(w, n, size, first) <=>
                        \/ \E i \in 1 .. size : i > size - n /\ r = [back |-> size - i, value |-> w[i]]
                        \/ n <= size /\ r = [back |-> n - 1, value |-> first]
    OBVIOUS
  <2>1. QED BY InReach
<1>3. ASSUME q \in ReachOf(u, m, size, first)
      PROVE  \/ q = [back |-> 0, value |-> v]
             \/ \E r \in ReachOf(w, n, size, first) :
                  r.back + 1 < size /\ q = [back |-> r.back + 1, value |-> r.value]
  <2>1. CASE n + 1 <= size /\ q = [back |-> (n + 1) - 1, value |-> first]
    <3> DEFINE r == [back |-> n - 1, value |-> first]
    <3>1. r \in ReachOf(w, n, size, first)
      BY <1>2, <2>1
    <3>2. r.back + 1 < size /\ q = [back |-> r.back + 1, value |-> r.value]
      BY <2>1
    <3> HIDE DEF r
    <3>3. QED BY <3>1, <3>2
  <2>2. ASSUME NEW i \in 1 .. size, i > size - (n + 1), q = [back |-> size - i, value |-> u[i]]
        PROVE  \/ q = [back |-> 0, value |-> v]
               \/ \E r \in ReachOf(w, n, size, first) :
                    r.back + 1 < size /\ q = [back |-> r.back + 1, value |-> r.value]
    <3>1. CASE i = size
      <4>1. size - i = 0 /\ u[i] = v
        BY <3>1 DEF Advances
      <4>2. QED BY <2>2, <4>1
    <3>2. CASE i # size
      <4> DEFINE j == i + 1
                 r == [back |-> size - j, value |-> w[j]]
      <4>1. j \in 1 .. size /\ j > size - n /\ u[i] = w[j] /\ size - i = (size - j) + 1
            /\ (size - j) + 1 < size
        BY <2>2, <3>2 DEF Advances
      <4> HIDE DEF j
      <4>2. r \in ReachOf(w, n, size, first)
        BY <1>2, <4>1
      <4>3. r.back + 1 < size /\ q = [back |-> r.back + 1, value |-> r.value]
        BY <2>2, <4>1
      <4> HIDE DEF r
      <4>4. QED BY <4>2, <4>3
    <3>3. QED BY <3>1, <3>2
  <2>3. QED BY <1>1, <1>3, <2>1, <2>2
<1>4. ASSUME q = [back |-> 0, value |-> v]
      PROVE  q \in ReachOf(u, m, size, first)
  <2>1. size \in 1 .. size /\ size > size - (n + 1) /\ q = [back |-> size - size, value |-> u[size]]
    BY <1>4 DEF Advances
  <2>2. QED BY <1>1, <2>1
<1>5. ASSUME NEW r \in ReachOf(w, n, size, first), r.back + 1 < size,
             q = [back |-> r.back + 1, value |-> r.value]
      PROVE  q \in ReachOf(u, m, size, first)
  <2>1. CASE n <= size /\ r = [back |-> n - 1, value |-> first]
    <3>1. n + 1 <= size /\ q = [back |-> (n + 1) - 1, value |-> first]
      BY <1>5, <2>1
    <3>2. QED BY <1>1, <3>1
  <2>2. ASSUME NEW i \in 1 .. size, i > size - n, r = [back |-> size - i, value |-> w[i]]
        PROVE  q \in ReachOf(u, m, size, first)
    <3> DEFINE j == i - 1
    <3>1. j \in 1 .. size - 1 /\ j > size - (n + 1) /\ j + 1 = i /\ (size - i) + 1 = size - j
      BY <1>5, <2>2
    <3>2. u[j] = w[i]
      BY <3>1 DEF Advances
    <3> HIDE DEF j
    <3>3. j \in 1 .. size /\ q = [back |-> size - j, value |-> u[j]]
      BY <1>5, <2>2, <3>1, <3>2
    <3>4. QED BY <1>1, <3>1, <3>3
  <2>3. QED BY <1>2, <1>5, <2>1, <2>2
<1>6. QED BY <1>3, <1>4, <1>5

LEMMA ReachTypes ==
  ASSUME MethodsAssumption, NEW size \in Nat, NEW n \in Nat, NEW first \in Value,
         NEW w \in [1 .. size -> Value], NEW q \in ReachOf(w, n, size, first)
  PROVE  q.back \in Int /\ q.back >= -1 /\ q.value \in Value /\ q.value \in Int
<1>1. \/ \E i \in 1 .. size : i > size - n /\ q = [back |-> size - i, value |-> w[i]]
      \/ n <= size /\ q = [back |-> n - 1, value |-> first]
  BY InReach
<1>2. q.back \in Int /\ q.back >= -1 /\ q.value \in Value
  BY <1>1
<1>3. QED BY <1>2 DEF MethodsAssumption

(* The newest extremum of what is within reach. *)
Leads(side, p, reach) ==
  /\ p \in reach
  /\ \A q \in reach : ~Reversal!Above(side, q.value, p.value)
  /\ \A q \in reach : q.back < p.back => Reversal!Above(side, p.value, q.value)

(* A method remembers the newest extremum of what is within reach, n values on. *)
Remembers(side, e, n, reach) ==
  /\ e.index \in Nat /\ e.value \in Value /\ (e.index < n \/ e.index = 0)
  /\ Leads(side, [back |-> (n - 1) - e.index, value |-> e.value], reach)

(* There is one place of it. *)
LEMMA LeadsOnce ==
  ASSUME NEW side, NEW reach, \A q \in reach : q.back \in Int /\ q.value \in Int,
         NEW p, NEW r, Leads(side, p, reach), Leads(side, r, reach)
  PROVE  p.back = r.back
<1>1. /\ p \in reach /\ r \in reach
      /\ p.back < r.back => Reversal!Above(side, r.value, p.value)
      /\ r.back < p.back => Reversal!Above(side, p.value, r.value)
      /\ ~Reversal!Above(side, r.value, p.value) /\ ~Reversal!Above(side, p.value, r.value)
  BY DEF Leads
<1>2. p.back \in Int /\ r.back \in Int
  BY <1>1
<1>3. QED BY <1>1, <1>2

(* A window has an extremum, and a newest one. *)
LEMMA SomeHighest ==
  ASSUME NEW side, NEW size \in Nat, size > 0, NEW u \in [1 .. size -> Int]
  PROVE  \E k \in 1 .. size : \A j \in 1 .. size : ~Reversal!Above(side, u[j], u[k])
<1> DEFINE High(m) == \E k \in 1 .. m : \A j \in 1 .. m : ~Reversal!Above(side, u[j], u[k])
           Without == {m \in 1 .. size : ~High(m)}
<1>1. Without = {}
  <2> SUFFICES ASSUME Without # {} PROVE FALSE
    OBVIOUS
  <2>1. PICK m \in Without : \A l \in Without : m <= l
    <3>1. Without \subseteq Nat
      OBVIOUS
    <3> HIDE DEF Without
    <3>2. QED BY <3>1, LeastDistance
  <2>2. m \in 1 .. size /\ ~High(m)
    OBVIOUS
  <2>3. m # 1
    <3>1. ~Reversal!Above(side, u[1], u[1])
      BY AboveIsOrder
    <3>2. High(1)
      BY <3>1
    <3> HIDE DEF High
    <3>3. QED BY <2>2, <3>2
  <2>4. m - 1 \in 1 .. size /\ m - 1 \notin Without
    <3>1. m - 1 \in 1 .. size /\ ~(m <= m - 1)
      BY <2>2, <2>3
    <3> HIDE DEF Without
    <3>2. QED BY <2>1, <3>1
  <2>5. High(m - 1)
    <3> HIDE DEF High
    <3>1. QED BY <2>4
  <2>6. PICK k \in 1 .. m - 1 : \A j \in 1 .. m - 1 : ~Reversal!Above(side, u[j], u[k])
    BY <2>5
  <2>7. /\ \A j \in 1 .. m : u[j] \in Int /\ (j = m \/ j \in 1 .. m - 1)
        /\ k \in 1 .. m /\ m \in 1 .. m
    BY <2>2, <2>6
  <2> HIDE DEF Without, High
  <2>8. CASE Reversal!Above(side, u[m], u[k])
    <3>1. \A j \in 1 .. m : ~Reversal!Above(side, u[j], u[m])
      <4> SUFFICES ASSUME NEW j \in 1 .. m PROVE ~Reversal!Above(side, u[j], u[m])
        OBVIOUS
      <4>1. u[j] \in Int /\ u[m] \in Int /\ u[k] \in Int
        BY <2>7
      <4>2. CASE j = m
        BY <4>1, <4>2, AboveIsOrder
      <4>3. CASE j \in 1 .. m - 1
        <5>1. ~Reversal!Above(side, u[j], u[k]) /\ ~Reversal!Above(side, u[k], u[m])
          BY <2>6, <2>8, <4>1, <4>3, AboveIsOrder
        <5>2. QED BY <4>1, <5>1, AboveIsOrder
      <4>4. QED BY <2>7, <4>2, <4>3
    <3>2. QED BY <2>2, <2>7, <3>1 DEF High
  <2>9. CASE ~Reversal!Above(side, u[m], u[k])
    BY <2>2, <2>6, <2>7, <2>9 DEF High
  <2>10. QED BY <2>8, <2>9
<1>2. High(size)
  <2> HIDE DEF High
  <2>1. QED BY <1>1
<1>3. QED BY <1>2

LEMMA GreatestMember ==
  ASSUME NEW size \in Nat, NEW S, S \subseteq 1 .. size, S # {}
  PROVE  Reversal!Max(S) \in S /\ \A y \in S : Reversal!Max(S) >= y
<1> DEFINE Back == {size - x : x \in S}
<1>1. Back \subseteq Nat /\ Back # {}
  <2>1. \A x \in S : size - x \in Nat
    OBVIOUS
  <2>2. PICK x : x \in S
    OBVIOUS
  <2>3. size - x \in Back
    BY <2>2
  <2>4. QED BY <2>1, <2>3
<1>2. PICK d \in Back : \A c \in Back : d <= c
  <2> HIDE DEF Back
  <2>1. QED BY <1>1, LeastDistance
<1>3. PICK x \in S : d = size - x
  BY <1>2
<1>4. \A y \in S : x >= y
  <2> SUFFICES ASSUME NEW y \in S PROVE x >= y
    OBVIOUS
  <2>1. size - y \in Back /\ x \in Nat /\ y \in Nat
    OBVIOUS
  <2> HIDE DEF Back
  <2>2. d <= size - y
    BY <1>2, <2>1
  <2>3. QED BY <1>3, <2>1, <2>2
<1>5. QED BY <1>3, <1>4 DEF Reversal!Max

(* What a search finds, once the window is full, leads it. *)
LEMMA FoundLeads ==
  ASSUME MethodsAssumption, NEW side, NEW size \in Nat, size > 0, NEW n \in Nat, n >= size, NEW m, m = n + 1,
         NEW first, NEW u \in [1 .. size -> Value],
         NEW start, start = (n + 1) - size, Reversal!FirstIndex = start
  PROVE  LET f == Reversal!Found(side, u)
         IN  /\ f.index \in Nat /\ f.index <= n /\ f.value \in Value
             /\ Leads(side, [back |-> n - f.index, value |-> f.value],
                      ReachOf(u, m, size, first))
<1> DEFINE K == {k \in 1 .. size : \A j \in 1 .. size : ~Reversal!Above(side, u[j], u[k])}
           i == Reversal!Max(K)
           f == Reversal!Found(side, u)
           p == [back |-> size - i, value |-> u[i]]
<1>1. u \in [1 .. size -> Int] /\ DOMAIN u = 1 .. size /\ \A j \in 1 .. size : u[j] \in Int
  BY DEF MethodsAssumption
<1>2. i \in K /\ \A k \in K : i >= k
  <2>1. K \subseteq 1 .. size
    OBVIOUS
  <2>2. K # {}
    BY <1>1, SomeHighest
  <2> HIDE DEF K
  <2>3. QED BY <2>1, <2>2, GreatestMember
<1>3. f = [value |-> u[i], index |-> (start + i) - 1]
  <2>1. f = [value |-> u[i], index |-> Reversal!FirstIndex + i - 1]
    BY <1>1, Zenon DEF Reversal!Found
  <2>2. start \in Int /\ i \in Int
    BY <1>2
  <2> HIDE DEF i, f
  <2>3. QED BY <2>1, <2>2
<1> HIDE DEF i, f
<1>4. i \in 1 .. size /\ \A j \in 1 .. size : ~Reversal!Above(side, u[j], u[i])
  BY <1>2
<1>5. /\ f.index \in Nat /\ f.index <= n /\ f.value \in Value /\ f.value = u[i]
      /\ n - f.index = size - i
  BY <1>3, <1>4
<1>6. m \in Nat /\ m > size
  OBVIOUS
<1>7. ASSUME NEW q
      PROVE  q \in ReachOf(u, m, size, first) <=>
               \E j \in 1 .. size : q = [back |-> size - j, value |-> u[j]]
    <2>1. q \in ReachOf(u, m, size, first) <=>
          \/ \E j \in 1 .. size : j > size - m /\ q = [back |-> size - j, value |-> u[j]]
          \/ m <= size /\ q = [back |-> m - 1, value |-> first]
    BY <1>6, InReach
  <2>2. \A j \in 1 .. size : j > size - m
    BY <1>6
  <2>3. ~(m <= size)
    BY <1>6
  <2>4. QED BY <2>1, <2>2, <2>3
<1>8. \A j \in 1 .. size : j > i => Reversal!Above(side, u[i], u[j])
  <2> SUFFICES ASSUME NEW j \in 1 .. size, j > i PROVE Reversal!Above(side, u[i], u[j])
    OBVIOUS
  <2>1. j \notin K
    <3>1. i \in Int /\ j \in Int /\ ~(i >= j)
      BY <1>4
    <3> HIDE DEF K
    <3>2. QED BY <1>2, <3>1
  <2>2. PICK l \in 1 .. size : Reversal!Above(side, u[l], u[j])
    BY <2>1
  <2>3. ~Reversal!Above(side, u[l], u[i]) /\ u[l] \in Int /\ u[j] \in Int /\ u[i] \in Int
    BY <1>1, <1>4
  <2>4. QED BY <2>2, <2>3, AboveIsOrder
<1> HIDE DEF K
<1>9. Leads(side, p, ReachOf(u, m, size, first))
  <2>1. p \in ReachOf(u, m, size, first)
    BY <1>4, <1>7
  <2>2. ASSUME NEW q \in ReachOf(u, m, size, first)
        PROVE  /\ ~Reversal!Above(side, q.value, p.value)
               /\ q.back < p.back => Reversal!Above(side, p.value, q.value)
    <3>1. PICK j \in 1 .. size : q = [back |-> size - j, value |-> u[j]]
      BY <1>7
    <3>2. q.value = u[j] /\ p.value = u[i] /\ (q.back < p.back => j > i)
      BY <1>4, <3>1
    <3>3. QED BY <1>4, <1>8, <3>2
  <2>3. QED BY <2>1, <2>2 DEF Leads
<1>10. [back |-> n - f.index, value |-> f.value] = p
  BY <1>5
<1>11. QED BY <1>5, <1>9, <1>10 DEF f

(* Whether it is kept, replaced or searched for, the extremum leads. *)
LEMMA FollowLeads ==
  ASSUME MethodsAssumption, NEW side, NEW size \in Nat, size > 0,
         NEW n \in Nat, n < MAX, NEW m, m = n + 1,
         left \in Nat, right \in Nat, left + right + 1 = size, index = n, NEW first \in Value,
         NEW w \in [1 .. size -> Value], NEW v \in Value, NEW u \in [1 .. size -> Value],
         Advances(w, v, u, size),
         NEW e, extremum[side] = e, Remembers(side, e, n, ReachOf(w, n, size, first))
  PROVE  Remembers(side, Reversal!Follow(side, v, u), m, ReachOf(u, m, size, first))
<1> SUFFICES
      ASSUME e.index \in Nat, e.value \in Value, e.index < n \/ e.index = 0,
             Leads(side, [back |-> (n - 1) - e.index, value |-> e.value],
                   ReachOf(w, n, size, first))
      PROVE  LET f == Reversal!Follow(side, v, u)
             IN  /\ f.index \in Nat /\ f.index <= n /\ f.value \in Value
                 /\ Leads(side, [back |-> n - f.index, value |-> f.value],
                          ReachOf(u, m, size, first))
  <2> DEFINE f == Reversal!Follow(side, v, u)
  <2>1. m - 1 = n /\ \A i \in Nat : i <= n => i < m
    OBVIOUS
  <2> HIDE DEF f
  <2>2. QED BY <2>1 DEF Remembers, f
<1> DEFINE start == IF n + 1 < size THEN 0 ELSE (n + 1) - size
           old   == ReachOf(w, n, size, first)
           new   == ReachOf(u, m, size, first)
           p     == [back |-> (n - 1) - e.index, value |-> e.value]
           f     == Reversal!Follow(side, v, u)
<1>1. MAX \in Nat /\ e.value \in Int /\ v \in Int /\ Value \subseteq Int
  BY DEF MethodsAssumption
<1>2. Reversal!FirstIndex = start /\ start \in Nat
  <2>1. Reversal!SaturatingAdd(index, 1) = n + 1
    <3>1. ~(n + 1 > MAX)
      BY <1>1
    <3>2. QED BY <3>1 DEF Reversal!SaturatingAdd
  <2>2. Reversal!Size = size
    BY DEF Reversal!Size
  <2>3. Reversal!FirstIndex = IF n + 1 < size THEN 0 ELSE (n + 1) - size
    BY <2>1, <2>2, Zenon DEF Reversal!FirstIndex, Reversal!SaturatingSub
  <2>4. QED BY <2>3
<1>3. f = CASE e.index < start -> Reversal!Found(side, u)
            [] e.index >= start /\ ~Reversal!Above(side, e.value, v) -> [value |-> v, index |-> n]
            [] OTHER -> e
  BY <1>2 DEF Reversal!Follow
<1>4. ASSUME NEW q
      PROVE  q \in new <=> \/ q = [back |-> 0, value |-> v]
                           \/ \E r \in old : r.back + 1 < size
                                             /\ q = [back |-> r.back + 1, value |-> r.value]
  <2> HIDE DEF p, f, start
  <2>1. Shifted(ReachOf(w, n, size, first), ReachOf(u, m, size, first), v, size)
    BY ReachNext
  <2>2. QED BY <2>1 DEF Shifted
<1>5. \A r \in old : r.back \in Int /\ r.back >= -1 /\ r.value \in Int
  BY ReachTypes
<1>6. /\ p \in old /\ \A q \in old : ~Reversal!Above(side, q.value, e.value)
      /\ \A q \in old : q.back < (n - 1) - e.index => Reversal!Above(side, e.value, q.value)
  BY DEF Leads
<1> HIDE DEF old, new, f, start
<1>7. CASE e.index < start
  <2>1. f = Reversal!Found(side, u)
    <3>1. ~(e.index >= start)
      BY <1>2, <1>7
    <3>2. QED BY <1>3, <1>7, <3>1, Zenon
  <2>2. n >= size /\ start = (n + 1) - size
    <3>1. start > 0
      BY <1>2, <1>7
    <3>2. ~(n + 1 < size) /\ start = (n + 1) - size
      BY <3>1 DEF start
    <3>3. QED BY <3>1, <3>2
  <2> HIDE DEF p
  <2>3. LET g == Reversal!Found(side, u)
        IN  /\ g.index \in Nat /\ g.index <= n /\ g.value \in Value
            /\ Leads(side, [back |-> n - g.index, value |-> g.value],
                     ReachOf(u, m, size, first))
    BY <1>2, <2>2, FoundLeads
  <2>4. QED BY <2>1, <2>3 DEF f
<1>8. CASE ~(e.index < start) /\ ~Reversal!Above(side, e.value, v)
  <2> DEFINE lead == [back |-> 0, value |-> v]
  <2>1. f = [value |-> v, index |-> n]
    <3>1. e.index >= start
      BY <1>8 DEF start
    <3>2. QED BY <1>3, <1>8, <3>1
  <2>2. lead \in new
    BY <1>4
  <2>3. ASSUME NEW q \in new
        PROVE  ~Reversal!Above(side, q.value, v) /\ ~(q.back < 0)
    <3>1. CASE q = [back |-> 0, value |-> v]
      <4>1. q.value = v /\ q.back = 0
        BY <3>1
      <4>2. QED BY <1>1, <4>1, AboveIsOrder
    <3>2. ASSUME NEW r \in old, q = [back |-> r.back + 1, value |-> r.value]
          PROVE  ~Reversal!Above(side, q.value, v) /\ ~(q.back < 0)
      <4>1. /\ ~Reversal!Above(side, r.value, e.value) /\ r.value \in Int
            /\ q.value = r.value /\ q.back = r.back + 1 /\ r.back \in Int /\ r.back >= -1
        BY <1>5, <1>6, <3>2
      <4>2. ~Reversal!Above(side, r.value, v)
        BY <1>1, <1>8, <4>1, AboveIsOrder
      <4>3. QED BY <4>1, <4>2
    <3>3. QED BY <1>4, <3>1, <3>2
  <2>4. Leads(side, lead, new)
    BY <2>2, <2>3 DEF Leads
  <2>5. f.index = n /\ f.value = v /\ n - f.index = 0
    BY <2>1
  <2>6. QED BY <2>4, <2>5 DEF f, new
<1>9. CASE ~(e.index < start) /\ Reversal!Above(side, e.value, v)
  <2> DEFINE lead == [back |-> n - e.index, value |-> e.value]
  <2>1. f = e
    BY <1>3, <1>9
  <2>2. lead \in new
    <3>1. p.back + 1 < size /\ lead = [back |-> p.back + 1, value |-> p.value]
      <4>1. e.index >= (n + 1) - size \/ n + 1 < size
        BY <1>2, <1>9 DEF start
      <4>2. ((n - 1) - e.index) + 1 = n - e.index /\ n - e.index < size
        BY <4>1
      <4>3. QED BY <4>2
    <3>2. QED BY <1>4, <1>6, <3>1
  <2>3. ASSUME NEW q \in new
        PROVE  /\ ~Reversal!Above(side, q.value, e.value)
               /\ q.back < n - e.index => Reversal!Above(side, e.value, q.value)
    <3>1. CASE q = [back |-> 0, value |-> v]
      <4>1. q.value = v /\ ~Reversal!Above(side, v, e.value)
        BY <1>1, <1>9, <3>1, AboveIsOrder
      <4>2. QED BY <1>9, <4>1
    <3>2. ASSUME NEW r \in old, q = [back |-> r.back + 1, value |-> r.value]
          PROVE  /\ ~Reversal!Above(side, q.value, e.value)
                 /\ q.back < n - e.index => Reversal!Above(side, e.value, q.value)
      <4>1. q.value = r.value /\ q.back = r.back + 1 /\ r.back \in Int
        BY <1>5, <3>2
      <4>2. q.back < n - e.index => r.back < (n - 1) - e.index
        BY <4>1
      <4>3. QED BY <1>6, <4>1, <4>2
    <3>3. QED BY <1>4, <3>1, <3>2
  <2>4. Leads(side, lead, new)
    BY <2>2, <2>3 DEF Leads
  <2>5. e.index <= n
    OBVIOUS
  <2>6. QED BY <2>1, <2>4, <2>5 DEF f, new
<1>10. QED BY <1>7, <1>8, <1>9

LEMMA SpanSlides ==
  ASSUME NEW size \in Nat, size > 0, NEW w \in [1 .. size -> Value], NEW v \in Value
  PROVE  /\ Append(Tail(w), v) \in [1 .. size -> Value]
         /\ Advances(w, v, Append(Tail(w), v), size)
<1>1. w \in Seq(Value) /\ Len(w) = size
  OBVIOUS
<1>2. PICK t : t = Tail(w)
  OBVIOUS
<1>3. t \in Seq(Value) /\ Len(t) = size - 1 /\ \A i \in 1 .. size - 1 : t[i] = w[i + 1]
  BY <1>1, <1>2
<1>4. PICK u : u = Append(t, v)
  OBVIOUS
<1>5. /\ u \in Seq(Value) /\ Len(u) = size /\ u[size] = v
      /\ \A i \in 1 .. size - 1 : u[i] = t[i]
  BY <1>3, <1>4
<1>6. u \in [1 .. size -> Value] /\ Advances(w, v, u, size)
  BY <1>3, <1>5 DEF Advances
<1>7. QED BY <1>2, <1>4, <1>6

(* What either method remembers, as long as the counter counts: the number *)
(* of the newest extremum within reach, of which there is one.             *)
ReversalInv ==
  /\ left \in 1 .. MAX /\ right \in 1 .. MAX /\ left + right < MAX
  /\ index \in 0 .. MAX /\ initial \in Value
  /\ span \in [1 .. left + right + 1 -> Value]
  /\ index < MAX =>
       \A side \in Reversal!Sides :
         Remembers(side, extremum[side], index, ReachOf(span, index, left + right + 1, initial))

LEMMA ReversalStarts == MethodsAssumption /\ Reversal!Init => ReversalInv
<1> SUFFICES ASSUME MethodsAssumption, Reversal!Init PROVE ReversalInv
  OBVIOUS
<1> DEFINE size == left + right + 1
           zero == 0
           reach == ReachOf(span, zero, size, initial)
<1>1. /\ left \in 1 .. MAX /\ right \in 1 .. MAX /\ left + right < MAX /\ MAX \in Nat
      /\ index = zero /\ zero \in Nat /\ initial \in Value /\ initial \in Int /\ size \in Nat
  BY DEF Reversal!Init, MethodsAssumption
<1>2. span = [i \in 1 .. left + right + 1 |-> initial]
  BY DEF Reversal!Init, Reversal!Size
<1>3. ASSUME NEW side \in Reversal!Sides
      PROVE  extremum[side] = [value |-> initial, index |-> zero]
  BY DEF Reversal!Init
<1>4. ASSUME NEW q
      PROVE  q \in reach <=> q = [back |-> zero - 1, value |-> initial]
  <2> HIDE DEF zero, size
  <2>1. q \in reach <=>
          \/ \E i \in 1 .. size : i > size - zero /\ q = [back |-> size - i, value |-> span[i]]
          \/ zero <= size /\ q = [back |-> zero - 1, value |-> initial]
    <3>1. zero \in Nat /\ size \in Nat
      BY <1>1
    <3>2. QED BY ONLY <3>1, InReach
  <2>2. zero <= size /\ \A i \in 1 .. size : ~(i > size - zero)
    BY <1>1 DEF zero
  <2> HIDE DEF reach
  <2>3. QED BY <2>1, <2>2
<1> HIDE DEF reach
<1>5. ASSUME NEW side
      PROVE  Leads(side, [back |-> zero - 1, value |-> initial], reach)
  <2> DEFINE p == [back |-> zero - 1, value |-> initial]
  <2>1. p \in reach /\ \A q \in reach : q = p
    BY <1>4
  <2>2. ~Reversal!Above(side, p.value, p.value) /\ ~(p.back < p.back)
    BY <1>1, AboveIsOrder
  <2> HIDE DEF p, zero
  <2>3. QED BY <2>1, <2>2 DEF Leads, p
<1>6. ASSUME NEW side \in Reversal!Sides
      PROVE  Remembers(side, extremum[side], index,
                       ReachOf(span, index, left + right + 1, initial))
  <2>1. /\ extremum[side].index = 0 /\ extremum[side].value = initial
        /\ (index - 1) - extremum[side].index = zero - 1
    BY <1>1, <1>3
  <2>2. QED BY <1>1, <1>5, <2>1 DEF reach, zero, size, Remembers
<1>7. span \in [1 .. left + right + 1 -> Value]
  BY <1>1, <1>2
<1>8. index \in 0 .. MAX
  BY <1>1
<1>9. QED BY <1>1, <1>6, <1>7, <1>8 DEF ReversalInv

LEMMA ReversalStep ==
  ASSUME MethodsAssumption, ReversalInv, NEW v \in Value, Reversal!Consume(v)
  PROVE  ReversalInv' /\ (index < MAX => Reversal!SignalsArePivots')
<1> DEFINE size == left + right + 1
           n == index
           m == n + 1
           w == span
           u == Append(Tail(span), v)
           first == initial
           f(side) == Reversal!Follow(side, v, u)
           reach == ReachOf(u, m, size, first)
<1>1. /\ left \in Nat /\ right \in Nat /\ left + right < MAX /\ MAX \in Nat
      /\ index \in 0 .. MAX /\ n \in Nat /\ n <= MAX /\ initial \in Value
      /\ size \in Nat /\ size > 0 /\ span \in [1 .. size -> Value] /\ Value \subseteq Int
  BY DEF ReversalInv, MethodsAssumption
<1>2. /\ left' = left /\ right' = right /\ initial' = initial /\ span' = u
      /\ extremum' = [side \in Reversal!Sides |-> Reversal!Follow(side, v, span')]
      /\ signal' = [side \in Reversal!Sides |-> Reversal!Signals(extremum'[side])]
  BY DEF Reversal!Consume
<1>3. /\ index < MAX => index' = n + 1
      /\ ~(index < MAX) => index' = MAX
  BY <1>1 DEF Reversal!Consume, Reversal!SaturatingAdd
<1>4. u \in [1 .. size -> Value] /\ Advances(w, v, u, size)
  <2> HIDE DEF size
  <2>1. QED BY <1>1, SpanSlides
<1>5. ASSUME index < MAX, NEW side \in Reversal!Sides
      PROVE  extremum'[side] = f(side) /\ Remembers(side, f(side), m, reach)
  <2> DEFINE e == extremum[side]
  <2>1. extremum'[side] = f(side)
    BY <1>2
  <2>2. Remembers(side, e, n, ReachOf(w, n, size, first))
    BY <1>5 DEF ReversalInv
  <2>3. /\ first \in Value /\ n \in Nat /\ n < MAX /\ m = n + 1 /\ left \in Nat /\ right \in Nat
        /\ size \in Nat /\ size > 0 /\ w \in [1 .. size -> Value]
        /\ left + right + 1 = size /\ index = n /\ extremum[side] = e
    BY <1>1, <1>5
  <2> HIDE DEF size, n, m, w, u, first, e
  <2>4. Remembers(side, Reversal!Follow(side, v, u), m, ReachOf(u, m, size, first))
    <3> HIDE DEF f, reach
    <3>1. QED BY <1>4, <2>2, <2>3, FollowLeads
  <2>5. QED BY <2>1, <2>4
<1>6. ReversalInv'
  <2>1. ASSUME index < MAX, NEW side \in Reversal!Sides
        PROVE  Remembers(side, extremum'[side], index',
                         ReachOf(span', index', left' + right' + 1, initial'))
    <3>1. index' = m
      BY <1>3, <2>1
    <3>2. ReachOf(span', index', left' + right' + 1, initial') = reach
      BY <1>2, <3>1
    <3> HIDE DEF f, reach, m, n
    <3>3. QED BY <1>5, <2>1, <3>1, <3>2
  <2>2. index' \in 0 .. MAX /\ (index' < MAX => index < MAX)
    BY <1>1, <1>3
  <2>3. /\ left' \in 1 .. MAX /\ right' \in 1 .. MAX /\ left' + right' < MAX
        /\ initial' \in Value /\ span' \in [1 .. left' + right' + 1 -> Value]
    BY <1>2, <1>4 DEF ReversalInv
  <2>4. QED BY <2>1, <2>2, <2>3 DEF ReversalInv
<1>7. ASSUME index < MAX
      PROVE  Reversal!SignalsArePivots'
  <2>1. Reversal!Reach' = reach
    <3>1. Reversal!Reach' = ReachOf(span', index', left' + right' + 1, initial')
      BY DEF Reversal!Reach, Reversal!Size, ReachOf
    <3>2. QED BY <1>2, <1>3, <1>7, <3>1
  <2>2. \A q \in reach : q.back \in Int /\ q.value \in Int
    <3> HIDE DEF size, u, first
    <3>1. m \in Nat /\ first \in Value
      BY <1>1 DEF first
    <3> HIDE DEF m
    <3>2. QED BY <1>1, <1>4, <3>1, ReachTypes
  <2>3. ASSUME NEW side \in Reversal!Sides
        PROVE  (signal[side] <=> Reversal!IsPivot(side))'
    <3> DEFINE g == f(side)
               p == [back |-> n - g.index, value |-> g.value]
    <3>1. extremum'[side] = g /\ g.index \in Nat /\ g.index <= n /\ Leads(side, p, reach)
      <4>1. extremum'[side] = g /\ Remembers(side, g, m, reach) /\ m - 1 = n
        BY <1>1, <1>5, <1>7
      <4> HIDE DEF g, reach
      <4>2. QED BY <1>1, <4>1 DEF Remembers
    <3>2. signal'[side] <=> n - g.index = right
      <4>1. signal'[side] <=> index >= right /\ g.index = Reversal!SaturatingSub(index, right)
        BY <1>2, <3>1 DEF Reversal!Signals
      <4> HIDE DEF g
      <4>2. QED BY <1>1, <3>1, <4>1 DEF Reversal!SaturatingSub
    <3>3. Reversal!IsPivot(side)' <=> \E q \in reach : q.back = right /\ Leads(side, q, reach)
      <4> HIDE DEF reach
      <4>1. QED BY <1>2, <2>1, Zenon DEF Reversal!IsPivot, Reversal!IsNewest, Leads
    <3> HIDE DEF g, reach
    <3>4. CASE n - g.index = right
      <4>1. p \in reach /\ p.back = right
        BY <3>1, <3>4 DEF Leads
      <4> HIDE DEF p
      <4>2. QED BY <3>1, <3>2, <3>3, <3>4, <4>1
    <3>5. CASE n - g.index # right
      <4>1. ASSUME NEW q \in reach, q.back = right, Leads(side, q, reach)
            PROVE  FALSE
        <5> DEFINE b == p.back
        <5>1. q.back = p.back
          <6> HIDE DEF p
          <6>1. QED BY <2>2, <3>1, <4>1, LeadsOnce
        <5>2. QED BY <3>5, <4>1, <5>1
      <4>2. QED BY <3>2, <3>3, <3>5, <4>1
    <3>6. QED BY <3>4, <3>5
  <2>4. QED BY <2>3 DEF Reversal!SignalsArePivots
<1>8. QED BY <1>6, <1>7

(* As long as the counter counts, both reversal methods signal the pivots of *)
(* the series and nothing else, though they look at the window only now and   *)
(* then (methods/reversal.rs, next).                                          *)
THEOREM PivotsSignalled == MethodsSpec => PivotsWhileCounting
<1>1. MethodsInit => ReversalInv
  BY MethodsAssumption, ReversalStarts DEF MethodsInit
<1>2. ReversalInv /\ [MethodsNext]_<<vars, medianVars, reversalVars>>
        => ReversalInv' /\ [index < MAX => Reversal!SignalsArePivots']_reversalVars
  <2> SUFFICES ASSUME ReversalInv, [MethodsNext]_<<vars, medianVars, reversalVars>>
               PROVE  ReversalInv' /\ [index < MAX => Reversal!SignalsArePivots']_reversalVars
    OBVIOUS
  <2>1. ASSUME NEW v \in Value, Feed(v)
        PROVE  ReversalInv' /\ (index < MAX => Reversal!SignalsArePivots')
    <3>1. Reversal!Consume(v)
      BY <2>1 DEF Feed
    <3>2. QED BY <3>1, MethodsAssumption, ReversalStep
  <2>2. CASE UNCHANGED reversalVars
    BY <2>2 DEF reversalVars, ReversalInv
  <2>3. CASE Reload
    BY <2>2, <2>3 DEF Reload
  <2>4. QED BY <2>1, <2>2, <2>3 DEF MethodsNext
<1>3. Reversal!vars = reversalVars
  BY DEF Reversal!vars, reversalVars
<1>4. QED BY <1>1, <1>2, PTL DEF MethodsSpec, PivotsWhileCounting, Reversal!PivotsWhileCounting, Reversal!vars, reversalVars

USE ExtremaAssumption
HIDE MethodsAssumption

-----------------------------------------------------------------------------
(* The moving median                                                       *)

(* Every number has one pattern: there are not both zeros.                 *)
OnePattern == \A u, v \in Value : Num(u) = Num(v) => u = v

(* One round of either bisection, after those of less values. *)
Look(f, v, len, padding) ==
  LET half == len \div 2
      mid  == slice[padding + half + 1]
  IN  CASE len < 2 -> padding + 1 - len
        [] len >= 2 /\ v = mid -> padding + half
        [] len >= 2 /\ v # mid /\ Num(v) > Num(mid) -> f[len - half - 1][padding + half + 1]
        [] OTHER -> f[half][padding]

LookInsert(f, v, len, padding) ==
  LET half == len \div 2
      mid  == slice[padding + half + 1]
  IN  CASE len = 0 -> padding
        [] len # 0 /\ v = mid -> padding + half
        [] len # 0 /\ v # mid /\ Num(v) > Num(mid) -> f[len - half - 1][padding + half + 1]
        [] OTHER -> f[half][padding]

Looks(f, v, m) == f = [len \in 0 .. m |-> [padding \in 0 .. Length |-> Look(f, v, len, padding)]]
LooksInsert(f, v, m) ==
  f = [len \in 0 .. m |-> [padding \in 0 .. Length |-> LookInsert(f, v, len, padding)]]

LEMMA LooksExists == ASSUME NEW v PROVE \E f : Looks(f, v, Length)
<1> DEFINE Missing == {m \in 0 .. Length : ~\E f : Looks(f, v, m)}
<1>1. Missing = {}
  <2> SUFFICES ASSUME Missing # {} PROVE FALSE
    OBVIOUS
  <2>1. PICK m \in Missing : \A k \in Missing : m <= k
    <3>1. Missing \subseteq Nat
      OBVIOUS
    <3> HIDE DEF Missing
    <3>2. QED BY <3>1, LeastDistance
  <2>2. m \in Nat /\ m <= Length
    OBVIOUS
  <2>3. m # 0
    <3> DEFINE f == [len \in 0 .. 0 |-> [padding \in 0 .. Length |-> padding + 1 - len]]
    <3>1. ASSUME NEW len \in 0 .. 0, NEW padding \in 0 .. Length
          PROVE  Look(f, v, len, padding) = padding + 1 - len
      BY DEF Look
    <3>2. Looks(f, v, 0)
      <4> HIDE DEF f
      <4>1. [len \in 0 .. 0 |-> [padding \in 0 .. Length |-> Look(f, v, len, padding)]]
              = [len \in 0 .. 0 |-> [padding \in 0 .. Length |-> padding + 1 - len]]
        BY <3>1
      <4>2. QED BY <4>1 DEF Looks, f
    <3> HIDE DEF f
    <3>3. QED BY <3>2
  <2>4. PICK f : Looks(f, v, m - 1)
    <3>1. m - 1 \in 0 .. Length /\ ~(m <= m - 1)
      BY <2>2, <2>3
    <3>2. m - 1 \notin Missing
      <4> HIDE DEF Missing
      <4>1. QED BY <2>1, <3>1
    <3>3. QED BY <3>1, <3>2
  <2> DEFINE g == [len \in 0 .. m |->
                     IF len = m THEN [padding \in 0 .. Length |-> Look(f, v, m, padding)]
                     ELSE f[len]]
  <2>5. \A k \in 0 .. m - 1 : g[k] = f[k]
    BY <2>2
  <2> HIDE DEF g
  <2>6. ASSUME NEW len \in 0 .. m, NEW padding \in 0 .. Length
        PROVE  Look(g, v, len, padding) = Look(f, v, len, padding)
    <3>1. CASE len < 2
      BY <3>1 DEF Look
    <3>2. CASE len >= 2
      <4> DEFINE half == len \div 2
                 other == len - half - 1
      <4>1. half \in 0 .. m - 1 /\ other \in 0 .. m - 1
        BY <2>2, <3>2
      <4>2. g[half] = f[half] /\ g[other] = f[other]
        <5> HIDE DEF half, other
        <5>1. QED BY <2>5, <4>1
      <4>3. QED BY <4>2, Zenon DEF Look
    <3>3. QED BY <2>2, <3>1, <3>2
  <2>7. Looks(g, v, m)
    <3>1. g = [len \in 0 .. m |-> [padding \in 0 .. Length |-> Look(f, v, len, padding)]]
      <4>1. \A len \in 0 .. m - 1 : f[len] = [padding \in 0 .. Length |-> Look(f, v, len, padding)]
        BY <2>4 DEF Looks
      <4>2. \A len \in 0 .. m : len = m \/ len \in 0 .. m - 1
        BY <2>2
      <4>3. QED BY <4>1, <4>2 DEF g
    <3>2. QED BY <2>6, <3>1 DEF Looks
  <2>8. QED BY <2>7
<1>2. Length \in 0 .. Length
  OBVIOUS
<1> QED
  <2>1. QED BY <1>1, <1>2

LEMMA FindIndexIs ==
  ASSUME NEW v
  PROVE  \E f : /\ Median!FindIndex(v) = f[Length][0]
                /\ \A len, padding \in 0 .. Length : f[len][padding] = Look(f, v, len, padding)
<1> DEFINE f == CHOOSE g : Looks(g, v, Length)
<1>1. Looks(f, v, Length)
  BY LooksExists
<1>2. Median!FindIndex(v) = f[Length][0]
  BY DEF Median!FindIndex, Looks, Look
<1> HIDE DEF f
<1>3. ASSUME NEW len \in 0 .. Length, NEW padding \in 0 .. Length
      PROVE  f[len][padding] = Look(f, v, len, padding)
  <2> DEFINE g == [l \in 0 .. Length |-> [p \in 0 .. Length |-> Look(f, v, l, p)]]
  <2>1. f = g
    BY <1>1 DEF Looks
  <2>2. g[len][padding] = Look(f, v, len, padding)
    OBVIOUS
  <2> HIDE DEF g
  <2>3. QED BY <2>1, <2>2
<1>4. QED BY <1>2, <1>3

LEMMA LooksInsertExists == ASSUME NEW v PROVE \E f : LooksInsert(f, v, Length)
<1> DEFINE Missing == {m \in 0 .. Length : ~\E f : LooksInsert(f, v, m)}
<1>1. Missing = {}
  <2> SUFFICES ASSUME Missing # {} PROVE FALSE
    OBVIOUS
  <2>1. PICK m \in Missing : \A k \in Missing : m <= k
    <3>1. Missing \subseteq Nat
      OBVIOUS
    <3> HIDE DEF Missing
    <3>2. QED BY <3>1, LeastDistance
  <2>2. m \in Nat /\ m <= Length
    OBVIOUS
  <2>3. m # 0
    <3> DEFINE f == [len \in 0 .. 0 |-> [padding \in 0 .. Length |-> padding]]
    <3>1. ASSUME NEW len \in 0 .. 0, NEW padding \in 0 .. Length
          PROVE  LookInsert(f, v, len, padding) = padding
      BY DEF LookInsert
    <3>2. LooksInsert(f, v, 0)
      <4> HIDE DEF f
      <4>1. [len \in 0 .. 0 |-> [padding \in 0 .. Length |-> LookInsert(f, v, len, padding)]]
              = [len \in 0 .. 0 |-> [padding \in 0 .. Length |-> padding]]
        BY <3>1
      <4>2. QED BY <4>1 DEF LooksInsert, f
    <3> HIDE DEF f
    <3>3. QED BY <3>2
  <2>4. PICK f : LooksInsert(f, v, m - 1)
    <3>1. m - 1 \in 0 .. Length /\ ~(m <= m - 1)
      BY <2>2, <2>3
    <3>2. m - 1 \notin Missing
      <4> HIDE DEF Missing
      <4>1. QED BY <2>1, <3>1
    <3>3. QED BY <3>1, <3>2
  <2> DEFINE g == [len \in 0 .. m |->
                     IF len = m THEN [padding \in 0 .. Length |-> LookInsert(f, v, m, padding)]
                     ELSE f[len]]
  <2>5. \A k \in 0 .. m - 1 : g[k] = f[k]
    BY <2>2
  <2> HIDE DEF g
  <2>6. ASSUME NEW len \in 0 .. m, NEW padding \in 0 .. Length
        PROVE  LookInsert(g, v, len, padding) = LookInsert(f, v, len, padding)
    <3>1. CASE len = 0
      BY <3>1 DEF LookInsert
    <3>2. CASE len # 0
      <4> DEFINE half == len \div 2
                 other == len - half - 1
      <4>1. half \in 0 .. m - 1 /\ other \in 0 .. m - 1
        BY <2>2, <3>2
      <4>2. g[half] = f[half] /\ g[other] = f[other]
        <5> HIDE DEF half, other
        <5>1. QED BY <2>5, <4>1
      <4>3. QED BY <4>2, Zenon DEF LookInsert
    <3>3. QED BY <2>2, <3>1, <3>2
  <2>7. LooksInsert(g, v, m)
    <3>1. g = [len \in 0 .. m |-> [padding \in 0 .. Length |-> LookInsert(f, v, len, padding)]]
      <4>1. \A len \in 0 .. m - 1 : f[len] = [padding \in 0 .. Length |-> LookInsert(f, v, len, padding)]
        BY <2>4 DEF LooksInsert
      <4>2. \A len \in 0 .. m : len = m \/ len \in 0 .. m - 1
        BY <2>2
      <4>3. QED BY <4>1, <4>2 DEF g
    <3>2. QED BY <2>6, <3>1 DEF LooksInsert
  <2>8. QED BY <2>7
<1>2. Length \in 0 .. Length
  OBVIOUS
<1> QED
  <2>1. QED BY <1>1, <1>2

LEMMA FindInsertIndexIs ==
  ASSUME NEW v
  PROVE  \E f : /\ Median!FindInsertIndex(v) = f[Length][0]
                /\ \A len, padding \in 0 .. Length : f[len][padding] = LookInsert(f, v, len, padding)
<1> DEFINE f == CHOOSE g : LooksInsert(g, v, Length)
<1>1. LooksInsert(f, v, Length)
  BY LooksInsertExists
<1>2. Median!FindInsertIndex(v) = f[Length][0]
  BY DEF Median!FindInsertIndex, LooksInsert, LookInsert
<1> HIDE DEF f
<1>3. ASSUME NEW len \in 0 .. Length, NEW padding \in 0 .. Length
      PROVE  f[len][padding] = LookInsert(f, v, len, padding)
  <2> DEFINE g == [l \in 0 .. Length |-> [p \in 0 .. Length |-> LookInsert(f, v, l, p)]]
  <2>1. f = g
    BY <1>1 DEF LooksInsert
  <2>2. g[len][padding] = LookInsert(f, v, len, padding)
    OBVIOUS
  <2> HIDE DEF g
  <2>3. QED BY <2>1, <2>2
<1>4. QED BY <1>2, <1>3

(* Sorted from place to place is sorted over any distance. *)
Ordered(s) == \A i, j \in 1 .. Length : i <= j => Num(s[i]) <= Num(s[j])

LEMMA SortedOrders ==
  ASSUME NEW s \in Windows, Median!Sorted(s)
  PROVE  Ordered(s)
<1> SUFFICES ASSUME NEW i \in 1 .. Length, NEW j \in 1 .. Length, i <= j,
                    ~(Num(s[i]) <= Num(s[j]))
             PROVE  FALSE
  BY DEF Ordered
<1> DEFINE Less == {k \in i .. Length : ~(Num(s[i]) <= Num(s[k]))}
<1>1. PICK k \in Less : \A l \in Less : k <= l
  <2>1. Less \subseteq Nat /\ j \in Less
    OBVIOUS
  <2> HIDE DEF Less
  <2>2. QED BY <2>1, LeastDistance
<1>2. k \in 1 .. Length /\ k >= i /\ ~(Num(s[i]) <= Num(s[k]))
      /\ \A l \in 1 .. Length : Num(s[l]) \in Int
  BY DEF Windows
<1>3. k # i
  BY <1>2
<1>4. k - 1 \in i .. Length /\ k - 1 \in 1 .. Length - 1 /\ ~(k <= k - 1) /\ (k - 1) + 1 = k
  BY <1>2, <1>3
<1>5. k - 1 \notin Less
  <2> HIDE DEF Less
  <2>1. QED BY <1>1, <1>4
<1>6. Num(s[i]) <= Num(s[k - 1]) /\ Num(s[k - 1]) <= Num(s[k])
  <2>1. Num(s[i]) <= Num(s[k - 1])
    BY <1>4, <1>5
  <2>2. Num(s[k - 1]) <= Num(s[k])
    <3> DEFINE l == k - 1
    <3>1. l \in 1 .. Length - 1 /\ l + 1 = k
      BY <1>4
    <3> HIDE DEF l
    <3>2. Num(s[l]) <= Num(s[k])
      BY <3>1 DEF Median!Sorted
    <3>3. QED BY <3>2 DEF l
  <2>3. QED BY <2>1, <2>2
<1>7. QED BY <1>2, <1>4, <1>6

(* The bisection finds the place of a value that is in the slice: not for the    *)
(* values it steers by, which are numbers, but because equal numbers are equal. *)
LEMMA FindIndexFinds ==
  ASSUME OnePattern, slice \in Windows, Ordered(slice),
         NEW v \in Value, \E i \in 1 .. Length : slice[i] = v
  PROVE  LET o == Median!FindIndex(v) IN o \in 0 .. Length - 1 /\ slice[o + 1] = v
<1>1. PICK f : /\ Median!FindIndex(v) = f[Length][0]
               /\ \A len, padding \in 0 .. Length : f[len][padding] = Look(f, v, len, padding)
  BY FindIndexIs
<1> DEFINE Place(o) == o \in 0 .. Length - 1 /\ slice[o + 1] = v
           Within(len, padding) ==
             padding + len <= Length /\ \E i \in padding + 1 .. padding + len : slice[i] = v
           Missed == {len \in 0 .. Length :
                        \E padding \in 0 .. Length : Within(len, padding) /\ ~Place(f[len][padding])}
<1>2. Missed = {}
  <2> SUFFICES ASSUME Missed # {} PROVE FALSE
    OBVIOUS
  <2>1. PICK len \in Missed : \A l \in Missed : len <= l
    <3>1. Missed \subseteq Nat
      OBVIOUS
    <3> HIDE DEF Missed
    <3>2. QED BY <3>1, LeastDistance
  <2>2. PICK padding \in 0 .. Length : Within(len, padding) /\ ~Place(f[len][padding])
    OBVIOUS
  <2>3. len \in 0 .. Length
    OBVIOUS
  <2>4. ASSUME NEW l \in 0 .. Length, l < len, NEW q \in 0 .. Length, Within(l, q)
        PROVE  Place(f[l][q])
    <3>1. l \notin Missed
      <4>1. ~(len <= l)
        BY <2>3, <2>4
      <4> HIDE DEF Missed
      <4>2. QED BY <2>1, <4>1
    <3> HIDE DEF Within, Place
    <3>2. QED BY <2>4, <3>1
  <2>5. PICK i \in padding + 1 .. padding + len : slice[i] = v
    BY <2>2
  <2>6. i \in 1 .. Length /\ padding + len <= Length /\ len > 0
    BY <2>2, <2>3
  <2>7. f[len][padding] = Look(f, v, len, padding)
    BY <1>1, <2>3
  <2> HIDE DEF Missed
  <2>8. CASE len < 2
    <3>1. len = 1 /\ i = padding + 1
      BY <2>3, <2>6, <2>8
    <3>2. f[len][padding] = padding
      BY <2>7, <2>8, <3>1 DEF Look
    <3>3. Place(padding)
      BY <2>5, <2>6, <3>1
    <3>4. QED BY <2>2, <3>2, <3>3
  <2>9. CASE len >= 2
    <3> DEFINE half  == len \div 2
               mid   == slice[padding + half + 1]
               other == len - half - 1
               beyond == padding + half + 1
    <3>1. /\ half \in 1 .. len - 1 /\ other \in 0 .. Length /\ other < len /\ half < len
          /\ beyond \in 1 .. Length /\ beyond + other = padding + len /\ half \in 0 .. Length
      BY <2>3, <2>6, <2>9
    <3>2. f[len][padding] =
            CASE v = mid -> padding + half
              [] v # mid /\ Num(v) > Num(mid) -> f[other][beyond]
              [] OTHER -> f[half][padding]
      <4>1. ~(len < 2)
        BY <2>3, <2>9
      <4> HIDE <3>1
      <4>2. QED BY <2>7, <2>9, <4>1, Zenon DEF Look
    <3>3. mid \in Value /\ Num(mid) \in Int /\ Num(v) \in Int
      BY <3>1 DEF Windows
    <3> HIDE DEF half, other
    <3>4. CASE v = mid
      <4>1. f[len][padding] = padding + half
        BY <3>2, <3>4
      <4>2. Place(padding + half)
        BY <3>1, <3>4
      <4>3. QED BY <2>2, <4>1, <4>2
    <3>5. CASE v # mid /\ Num(v) > Num(mid)
      <4>1. f[len][padding] = f[other][beyond]
        BY <3>2, <3>5, Zenon
      <4>2. i > beyond
        <5>1. ~(i <= beyond)
          BY <2>5, <2>6, <3>1, <3>3, <3>5 DEF Ordered
        <5>2. QED BY <2>6, <3>1, <5>1
      <4>3. i \in beyond + 1 .. beyond + other
        BY <2>5, <2>6, <3>1, <4>2
      <4> HIDE DEF beyond, mid
      <4>4. Within(other, beyond)
        BY <2>5, <2>6, <3>1, <4>3
      <4>5. Place(f[other][beyond])
        <5> HIDE DEF Within, Place
        <5>1. beyond \in 0 .. Length
          BY <3>1
        <5>2. QED BY <2>4, <3>1, <4>4, <5>1
      <4>6. QED BY <2>2, <4>1, <4>5
    <3>6. CASE v # mid /\ ~(Num(v) > Num(mid))
      <4>1. f[len][padding] = f[half][padding]
        BY <3>2, <3>6, Zenon
      <4>2. Num(v) < Num(mid)
        BY <3>3, <3>6 DEF OnePattern
      <4>3. i < beyond
        <5>1. ~(beyond <= i)
          BY <2>5, <2>6, <3>1, <3>3, <4>2 DEF Ordered
        <5>2. QED BY <2>6, <3>1, <5>1
      <4>4. i \in padding + 1 .. padding + half
        BY <2>5, <2>6, <3>1, <4>3
      <4>5. Within(half, padding)
        BY <2>2, <2>5, <2>6, <3>1, <4>4
      <4>6. Place(f[half][padding])
        <5> HIDE DEF Within, Place
        <5>1. QED BY <2>2, <2>4, <3>1, <4>5
      <4>7. QED BY <2>2, <4>1, <4>6
    <3>7. QED BY <3>4, <3>5, <3>6
  <2>10. QED BY <2>3, <2>8, <2>9
<1>3. Within(Length, 0)
  OBVIOUS
<1>4. Place(f[Length][0])
  <2>1. Length \in 0 .. Length /\ 0 \in 0 .. Length /\ Length \notin Missed
    BY <1>2
  <2> HIDE DEF Place, Within
  <2>2. QED BY <1>3, <2>1
<1>5. QED BY <1>1, <1>4

(* The place found for a value parts what is not greater from what is not less. *)
LEMMA FindInsertIndexParts ==
  ASSUME slice \in Windows, Ordered(slice), NEW v \in Value
  PROVE  LET r == Median!FindInsertIndex(v)
         IN  /\ r \in 0 .. Length
             /\ \A i \in 1 .. r : Num(slice[i]) <= Num(v)
             /\ \A i \in r + 1 .. Length : Num(v) <= Num(slice[i])
<1>1. PICK f : /\ Median!FindInsertIndex(v) = f[Length][0]
               /\ \A len, padding \in 0 .. Length :
                     f[len][padding] = LookInsert(f, v, len, padding)
  BY FindInsertIndexIs
<1> DEFINE Parts(r, len, padding) ==
             /\ r \in padding .. padding + len
             /\ \A i \in padding + 1 .. r : Num(slice[i]) <= Num(v)
             /\ \A i \in r + 1 .. padding + len : Num(v) <= Num(slice[i])
           Missed == {len \in 0 .. Length :
                        \E padding \in 0 .. Length :
                          padding + len <= Length /\ ~Parts(f[len][padding], len, padding)}
<1>2. Missed = {}
  <2> SUFFICES ASSUME Missed # {} PROVE FALSE
    OBVIOUS
  <2>1. PICK len \in Missed : \A l \in Missed : len <= l
    <3>1. Missed \subseteq Nat
      OBVIOUS
    <3> HIDE DEF Missed
    <3>2. QED BY <3>1, LeastDistance
  <2>2. PICK padding \in 0 .. Length :
               padding + len <= Length /\ ~Parts(f[len][padding], len, padding)
    OBVIOUS
  <2>3. len \in 0 .. Length
    OBVIOUS
  <2>4. ASSUME NEW l \in 0 .. Length, l < len, NEW q \in 0 .. Length, q + l <= Length
        PROVE  Parts(f[l][q], l, q)
    <3>1. l \notin Missed
      <4>1. ~(len <= l)
        BY <2>3, <2>4
      <4> HIDE DEF Missed
      <4>2. QED BY <2>1, <4>1
    <3> HIDE DEF Parts
    <3>2. QED BY <2>4, <3>1
  <2>5. f[len][padding] = LookInsert(f, v, len, padding)
    BY <1>1, <2>3
  <2> HIDE DEF Missed
  <2>6. CASE len = 0
    <3>1. f[len][padding] = padding
      BY <2>5, <2>6 DEF LookInsert
    <3>2. Parts(padding, len, padding)
      BY <2>6
    <3> HIDE DEF Parts
    <3>3. QED BY <2>2, <3>1, <3>2
  <2>7. CASE len # 0
    <3> DEFINE half == len \div 2
               mid   == slice[padding + half + 1]
               other == len - half - 1
               beyond == padding + half + 1
    <3>1. /\ half \in 0 .. len - 1 /\ other \in 0 .. Length /\ other < len /\ half < len
          /\ beyond \in 1 .. Length /\ beyond + other = padding + len /\ half \in 0 .. Length
      BY <2>2, <2>3, <2>7
    <3>2. f[len][padding] =
            CASE v = mid -> padding + half
              [] v # mid /\ Num(v) > Num(mid) -> f[other][beyond]
              [] OTHER -> f[half][padding]
      <4> HIDE <3>1
      <4>1. QED BY <2>5, <2>7, Zenon DEF LookInsert
    <3>3. /\ mid \in Value /\ Num(mid) \in Int /\ Num(v) \in Int
          /\ \A i \in 1 .. Length : Num(slice[i]) \in Int
      BY <3>1 DEF Windows
    <3>4. /\ \A i \in padding + 1 .. beyond : Num(slice[i]) <= Num(mid)
          /\ \A i \in beyond .. padding + len : Num(mid) <= Num(slice[i])
      BY <2>2, <2>3, <3>1 DEF Ordered
    <3>5. mid = slice[beyond]
      OBVIOUS
    <3>6. padding + half = beyond - 1 /\ beyond \in padding + 1 .. padding + len
      BY <2>3, <3>1
    <3> HIDE DEF half, other, mid, beyond
    <3>7. CASE v = mid
      <4> DEFINE r == beyond - 1
      <4>1. f[len][padding] = r
        <5>1. f[len][padding] = padding + half
          BY <3>2, <3>7
        <5>2. QED BY <3>6, <5>1
      <4>2. r \in Int /\ r + 1 = beyond
        BY <3>1
      <4> HIDE DEF r
      <4>3. Parts(r, len, padding)
        <5>1. r \in padding .. padding + len
          BY <2>3, <3>6, <4>2
        <5>2. \A i \in padding + 1 .. r : i \in padding + 1 .. beyond
          BY <3>1, <4>2
        <5>3. Num(v) = Num(mid)
          BY <3>7
        <5>4. \A i \in padding + 1 .. r : Num(slice[i]) <= Num(v)
          BY <3>4, <5>2, <5>3
        <5>5. \A i \in r + 1 .. padding + len : Num(v) <= Num(slice[i])
          BY <3>4, <4>2, <5>3
        <5>6. QED BY <5>1, <5>4, <5>5
      <4> HIDE DEF Parts
      <4>4. QED BY <2>2, <4>1, <4>3
    <3>8. CASE v # mid /\ Num(v) > Num(mid)
      <4> DEFINE r == f[other][beyond]
      <4>1. f[len][padding] = r
        BY <3>2, <3>8, Zenon
      <4>2. Parts(r, other, beyond)
        <5> HIDE DEF Parts
        <5>1. beyond \in 0 .. Length /\ beyond + other <= Length
          BY <2>2, <3>1
        <5>2. QED BY <2>4, <3>1, <5>1
      <4> HIDE DEF r
      <4>3. r \in padding .. padding + len
        BY <3>1, <3>6, <4>2
      <4>4. ASSUME NEW i \in padding + 1 .. r PROVE Num(slice[i]) <= Num(v)
        <5>1. i \in padding + 1 .. beyond \/ i \in beyond + 1 .. r
          BY <3>1, <3>6, <4>3
        <5>2. CASE i \in padding + 1 .. beyond
          <6>1. i \in 1 .. Length
            BY <3>1, <5>2
          <6>2. Num(slice[i]) <= Num(mid) /\ Num(slice[i]) \in Int
            BY <3>3, <3>4, <5>2, <6>1
          <6>3. QED BY <3>3, <3>8, <6>2
        <5>3. QED BY <4>2, <5>1, <5>2
      <4>5. \A i \in r + 1 .. padding + len : Num(v) <= Num(slice[i])
        BY <3>1, <4>2
      <4>6. Parts(r, len, padding)
        BY <4>3, <4>4, <4>5
      <4> HIDE DEF Parts
      <4>7. QED BY <2>2, <4>1, <4>6
    <3>9. CASE v # mid /\ ~(Num(v) > Num(mid))
      <4> DEFINE r == f[half][padding]
      <4>1. f[len][padding] = r
        BY <3>2, <3>9, Zenon
      <4>2. Parts(r, half, padding)
        <5> HIDE DEF Parts
        <5>1. padding + half <= Length
          BY <2>2, <2>3, <3>1
        <5>2. QED BY <2>2, <2>4, <3>1, <5>1
      <4> HIDE DEF r
      <4>3. r \in padding .. padding + len
        <5>1. padding \in Int /\ len \in Int /\ half < len /\ half \in Int
          BY <2>3, <3>1
        <5>2. QED BY <4>2, <5>1
      <4>4. ASSUME NEW i \in r + 1 .. padding + len PROVE Num(v) <= Num(slice[i])
        <5>1. i \in r + 1 .. padding + half \/ i \in beyond .. padding + len
          BY <3>1, <3>6, <4>3
        <5>2. CASE i \in beyond .. padding + len
          <6>1. i \in 1 .. Length
            BY <2>2, <3>1, <5>2
          <6>2. Num(mid) <= Num(slice[i]) /\ Num(slice[i]) \in Int
            BY <3>3, <3>4, <5>2, <6>1
          <6>3. QED BY <3>3, <3>9, <6>2
        <5>3. QED BY <4>2, <5>1, <5>2
      <4>5. Parts(r, len, padding)
        BY <4>2, <4>3, <4>4
      <4> HIDE DEF Parts
      <4>6. QED BY <2>2, <4>1, <4>5
    <3>10. QED BY <3>7, <3>8, <3>9
  <2>8. QED BY <2>6, <2>7
<1>3. Parts(f[Length][0], Length, 0)
  <2>1. Length \in 0 .. Length /\ 0 \in 0 .. Length /\ 0 + Length <= Length /\ Length \notin Missed
    BY <1>2
  <2> HIDE DEF Parts
  <2>2. QED BY <2>1
<1>4. QED BY <1>1, <1>3

(* Where a value of the slice was before one was taken out at o and one put in at n. *)
Origin(o, n, k) == IF k <= n THEN (IF k > o THEN k + 1 ELSE k)
                   ELSE IF k <= o + 1 THEN k - 1 ELSE k

LEMMA Origins ==
  ASSUME NEW o \in 0 .. Length - 1, NEW n \in 0 .. Length - 1
  PROVE  /\ \A k \in 1 .. Length : k # n + 1 =>
              Origin(o, n, k) \in 1 .. Length /\ Origin(o, n, k) # o + 1
         /\ \A j, k \in 1 .. Length : j # n + 1 /\ k # n + 1 /\ j < k =>
              Origin(o, n, j) < Origin(o, n, k)
         /\ \A i \in 1 .. Length : i # o + 1 =>
              \E k \in 1 .. Length : k # n + 1 /\ Origin(o, n, k) = i
<1>1. \A k \in 1 .. Length : k # n + 1 =>
        Origin(o, n, k) \in 1 .. Length /\ Origin(o, n, k) # o + 1
  BY DEF Origin
<1>2. \A j, k \in 1 .. Length : j # n + 1 /\ k # n + 1 /\ j < k =>
        Origin(o, n, j) < Origin(o, n, k)
  BY DEF Origin
<1>3. ASSUME NEW i \in 1 .. Length, i # o + 1
      PROVE  \E k \in 1 .. Length : k # n + 1 /\ Origin(o, n, k) = i
  <2>1. CASE i <= o /\ i <= n
    <3>1. i # n + 1 /\ Origin(o, n, i) = i
      BY <2>1 DEF Origin
    <3>2. QED BY <3>1
  <2>2. CASE i <= o /\ i > n
    <3> DEFINE k == i + 1
    <3>1. k \in 1 .. Length /\ k # n + 1 /\ Origin(o, n, k) = i
      BY <2>2 DEF Origin
    <3>2. QED BY <3>1
  <2>3. CASE i > o + 1 /\ i <= n + 1
    <3> DEFINE k == i - 1
    <3>1. k \in 1 .. Length /\ k # n + 1 /\ Origin(o, n, k) = i
      BY <2>3 DEF Origin
    <3>2. QED BY <3>1
  <2>4. CASE i > o + 1 /\ i > n + 1
    <3>1. i # n + 1 /\ Origin(o, n, i) = i
      BY <2>4 DEF Origin
    <3>2. QED BY <3>1
  <2>5. QED BY <1>3, <2>1, <2>2, <2>3, <2>4
<1>4. QED BY <1>1, <1>2, <1>3

LEMMA MovedFrom ==
  ASSUME NEW o \in 0 .. Length - 1, NEW n \in 0 .. Length - 1,
         slice \in Windows, NEW v \in Value
  PROVE  /\ Median!Moved(o, n, v) \in Windows
         /\ Median!Moved(o, n, v)[n + 1] = v
         /\ \A k \in 1 .. Length : k # n + 1 =>
              Median!Moved(o, n, v)[k] = slice[Origin(o, n, k)]
<1> DEFINE s == Median!Moved(o, n, v)
<1>1. s = [k \in 1 .. Length |->
             CASE k = n + 1                -> v
               [] k > o /\ k < n + 1      -> slice[k + 1]
               [] k > n + 1 /\ k <= o + 1 -> slice[k - 1]
               [] OTHER                    -> slice[k]]
  BY DEF Median!Moved
<1> HIDE DEF s
<1>2. ASSUME NEW k \in 1 .. Length
      PROVE  s[k] = IF k = n + 1 THEN v ELSE slice[Origin(o, n, k)]
  <2>1. CASE k = n + 1
    BY <1>1, <2>1
  <2>2. CASE k > o /\ k < n + 1
    <3>1. Origin(o, n, k) = k + 1
      BY <2>2 DEF Origin
    <3>2. s[k] = slice[k + 1]
      BY <1>1, <2>2
    <3>3. QED BY <2>2, <3>1, <3>2
  <2>3. CASE k > n + 1 /\ k <= o + 1
    <3>1. Origin(o, n, k) = k - 1
      BY <2>3 DEF Origin
    <3>2. s[k] = slice[k - 1]
      BY <1>1, <2>3
    <3>3. QED BY <2>3, <3>1, <3>2
  <2>4. CASE k # n + 1 /\ ~(k > o /\ k < n + 1) /\ ~(k > n + 1 /\ k <= o + 1)
    <3>1. Origin(o, n, k) = k
      BY <2>4 DEF Origin
    <3>2. s[k] = slice[k]
      BY <1>1, <2>4
    <3>3. QED BY <2>4, <3>1, <3>2
  <2>5. QED BY <2>1, <2>2, <2>3, <2>4
<1>3. \A k \in 1 .. Length : k # n + 1 => Origin(o, n, k) \in 1 .. Length
  BY Origins
<1>4. \A k \in 1 .. Length : s[k] \in Value
  BY <1>2, <1>3 DEF Windows
<1>5. s \in Windows
  BY <1>1, <1>4 DEF Windows
<1>6. n + 1 \in 1 .. Length
  OBVIOUS
<1>7. QED BY <1>2, <1>5, <1>6 DEF s

(* One taken out and one put in where it belongs leave the slice sorted.  *)
LEMMA MovedOrdered ==
  ASSUME slice \in Windows, Ordered(slice), NEW v \in Value, NEW o \in 0 .. Length - 1,
         NEW r \in 0 .. Length, \A i \in 1 .. r : Num(slice[i]) <= Num(v),
         \A i \in r + 1 .. Length : Num(v) <= Num(slice[i]),
         NEW n, n = Median!Destination(o, r)
  PROVE  n \in 0 .. Length - 1 /\ Ordered(Median!Moved(o, n, v))
<1>1. n = IF o < r THEN r - 1 ELSE r
  BY DEF Median!Destination
<1>2. n \in 0 .. Length - 1
  BY <1>1
<1> DEFINE s == Median!Moved(o, n, v)
<1>3. /\ s \in Windows /\ s[n + 1] = v
      /\ \A k \in 1 .. Length : k # n + 1 => s[k] = slice[Origin(o, n, k)]
  BY <1>2, MovedFrom
<1> HIDE DEF s
<1>4. ASSUME NEW k \in 1 .. Length, k # n + 1
      PROVE  /\ k < n + 1 => Origin(o, n, k) \in 1 .. r
             /\ k > n + 1 => Origin(o, n, k) \in r + 1 .. Length
  BY <1>1, <1>2, <1>4 DEF Origin
<1>5. ASSUME NEW i \in 1 .. Length, NEW j \in 1 .. Length, i <= j
      PROVE  Num(s[i]) <= Num(s[j])
  <2>1. CASE i = j
    <3>1. Num(s[i]) \in Int
      BY <1>3 DEF Windows
    <3>2. QED BY <2>1, <3>1
  <2>2. CASE i # n + 1 /\ j # n + 1 /\ i < j
    <3>1. /\ Origin(o, n, i) \in 1 .. Length /\ Origin(o, n, j) \in 1 .. Length
          /\ Origin(o, n, i) < Origin(o, n, j)
      BY <1>2, <2>2, Origins
    <3>2. Num(slice[Origin(o, n, i)]) <= Num(slice[Origin(o, n, j)])
      BY <3>1 DEF Ordered
    <3>3. QED BY <1>3, <2>2, <3>2
  <2>3. CASE i = n + 1 /\ j > n + 1
    <3>1. Origin(o, n, j) \in r + 1 .. Length /\ s[j] = slice[Origin(o, n, j)]
      BY <1>2, <1>3, <1>4, <2>3
    <3>2. QED BY <1>3, <2>3, <3>1
  <2>4. CASE i < n + 1 /\ j = n + 1
    <3>1. Origin(o, n, i) \in 1 .. r /\ s[i] = slice[Origin(o, n, i)]
      BY <1>2, <1>3, <1>4, <2>4
    <3>2. QED BY <1>3, <2>4, <3>1
  <2>5. QED BY <1>2, <1>5, <2>1, <2>2, <2>3, <2>4
<1>6. QED BY <1>2, <1>5 DEF Ordered, s

(* The slice holds the values of the window in another order.              *)
Rearranges(p, s, w) ==
  /\ p \in [1 .. Length -> 1 .. Length]
  /\ \A i, j \in 1 .. Length : p[i] = p[j] => i = j
  /\ \A j \in 1 .. Length : \E i \in 1 .. Length : p[i] = j
  /\ \A k \in 1 .. Length : s[k] = w[p[k]]

(* The value taken out is the one that leaves the window, wherever the order had it. *)
LEMMA Leaves ==
  ASSUME NEW s, NEW w, NEW p, Rearranges(p, s, w), NEW m \in 1 .. Length, s[m] = w[1]
  PROVE  \E q : Rearranges(q, s, w) /\ q[m] = 1
<1>1. PICK k \in 1 .. Length : p[k] = 1
  BY DEF Rearranges
<1> DEFINE q == [i \in 1 .. Length |-> IF i = m THEN 1 ELSE IF i = k THEN p[m] ELSE p[i]]
<1>2. /\ p \in [1 .. Length -> 1 .. Length]
      /\ \A i, j \in 1 .. Length : p[i] = p[j] => i = j
      /\ \A j \in 1 .. Length : \E i \in 1 .. Length : p[i] = j
      /\ \A i \in 1 .. Length : s[i] = w[p[i]]
  BY DEF Rearranges
<1> DEFINE t(i) == IF i = m THEN k ELSE IF i = k THEN m ELSE i
<1>3. ASSUME NEW i \in 1 .. Length PROVE q[i] = p[t(i)] /\ t(i) \in 1 .. Length
  BY <1>1
<1>4. /\ q \in [1 .. Length -> 1 .. Length]
      /\ \A i \in 1 .. Length : q[i] = IF i = m THEN 1 ELSE IF i = k THEN p[m] ELSE p[i]
  <2>1. \A i \in 1 .. Length :
          (IF i = m THEN 1 ELSE IF i = k THEN p[m] ELSE p[i]) \in 1 .. Length
    <3>1. p \in [1 .. Length -> 1 .. Length]
      BY <1>2
    <3>2. 1 \in 1 .. Length /\ \A i \in 1 .. Length : p[i] \in 1 .. Length
      BY <3>1
    <3>3. QED BY <3>2
  <2>2. q \in [1 .. Length -> 1 .. Length]
    BY <2>1
  <2>3. \A i \in 1 .. Length : q[i] = IF i = m THEN 1 ELSE IF i = k THEN p[m] ELSE p[i]
    OBVIOUS
  <2> HIDE DEF q
  <2>4. QED BY <2>2, <2>3
<1> HIDE DEF q
<1>5. ASSUME NEW i \in 1 .. Length, NEW j \in 1 .. Length, q[i] = q[j]
      PROVE  i = j
  <2>1. t(i) = t(j)
    <3>1. p[t(i)] = p[t(j)] /\ t(i) \in 1 .. Length /\ t(j) \in 1 .. Length
      BY <1>3, <1>5
    <3> HIDE DEF t
    <3>2. QED BY <1>2, <3>1
  <2>2. QED BY <2>1
<1>6. ASSUME NEW j \in 1 .. Length PROVE \E i \in 1 .. Length : q[i] = j
  <2>1. PICK i \in 1 .. Length : p[i] = j
    BY <1>2
  <2>2. CASE i = k
    BY <1>1, <1>4, <2>1, <2>2
  <2>3. CASE i = m /\ i # k
    BY <1>1, <1>4, <2>1, <2>3
  <2>4. CASE i # m /\ i # k
    BY <1>4, <2>1, <2>4
  <2>5. QED BY <2>2, <2>3, <2>4
<1>7. ASSUME NEW i \in 1 .. Length PROVE s[i] = w[q[i]]
  <2>1. s[k] = w[1] /\ s[m] = w[1] /\ s[m] = w[p[m]]
    BY <1>1, <1>2
  <2>2. QED BY <1>2, <1>4, <2>1
<1>8. QED BY <1>4, <1>5, <1>6, <1>7 DEF Rearranges

LEMMA MovedRearranges ==
  ASSUME window \in Windows, slice \in Windows, NEW v \in Value,
         NEW p, Rearranges(p, slice, window),
         NEW o \in 0 .. Length - 1, slice[o + 1] = Head(window), NEW n \in 0 .. Length - 1
  PROVE  \E q : Rearranges(q, Median!Moved(o, n, v), Append(Tail(window), v))
<1>1. PICK w : w = Append(Tail(window), v)
  OBVIOUS
<1>2. /\ w[Length] = v /\ \A i \in 1 .. Length - 1 : w[i] = window[i + 1]
      /\ Head(window) = window[1]
  BY <1>1, Slid
<1>3. PICK s : s = Median!Moved(o, n, v)
  OBVIOUS
<1>4. /\ s[n + 1] = v
      /\ \A k \in 1 .. Length : k # n + 1 => s[k] = slice[Origin(o, n, k)]
  BY <1>3, MovedFrom
<1>5. PICK r : Rearranges(r, slice, window) /\ r[o + 1] = 1
  <2> DEFINE m == o + 1
  <2>1. m \in 1 .. Length /\ slice[m] = window[1]
    BY <1>2
  <2> HIDE DEF m
  <2>2. \E r : Rearranges(r, slice, window) /\ r[m] = 1
    BY <2>1, Leaves
  <2>3. QED BY <2>2 DEF m
<1>6. /\ r \in [1 .. Length -> 1 .. Length]
      /\ \A i, j \in 1 .. Length : r[i] = r[j] => i = j
      /\ \A j \in 1 .. Length : \E i \in 1 .. Length : r[i] = j
      /\ \A k \in 1 .. Length : slice[k] = window[r[k]]
  BY <1>5 DEF Rearranges
<1>7. /\ \A k \in 1 .. Length : k # n + 1 =>
           Origin(o, n, k) \in 1 .. Length /\ Origin(o, n, k) # o + 1
      /\ \A j, k \in 1 .. Length : j # n + 1 /\ k # n + 1 /\ j < k =>
           Origin(o, n, j) < Origin(o, n, k)
      /\ \A i \in 1 .. Length : i # o + 1 =>
           \E k \in 1 .. Length : k # n + 1 /\ Origin(o, n, k) = i
  BY Origins
<1> DEFINE q == [k \in 1 .. Length |-> IF k = n + 1 THEN Length ELSE r[Origin(o, n, k)] - 1]
<1>8. \A k \in 1 .. Length : q[k] = IF k = n + 1 THEN Length ELSE r[Origin(o, n, k)] - 1
  OBVIOUS
<1>9. ASSUME NEW k \in 1 .. Length, k # n + 1
      PROVE  /\ r[Origin(o, n, k)] \in 2 .. Length /\ q[k] \in 1 .. Length - 1
             /\ q[k] + 1 = r[Origin(o, n, k)]
  <2>1. Origin(o, n, k) \in 1 .. Length /\ Origin(o, n, k) # o + 1 /\ o + 1 \in 1 .. Length
    BY <1>7, <1>9
  <2>2. r[Origin(o, n, k)] \in 1 .. Length /\ r[Origin(o, n, k)] # 1
    <3> DEFINE x == Origin(o, n, k)
               m == o + 1
    <3>1. x \in 1 .. Length /\ m \in 1 .. Length /\ x # m /\ r[m] = 1
      BY <1>5, <2>1
    <3> HIDE DEF x, m
    <3>2. r \in [1 .. Length -> 1 .. Length] /\ (r[x] = r[m] => x = m)
      BY <1>6, <3>1
    <3>3. r[x] \in 1 .. Length /\ r[x] # 1
      BY <3>1, <3>2
    <3>4. QED BY <3>3 DEF x
  <2>3. q[k] = r[Origin(o, n, k)] - 1
    BY <1>8, <1>9
  <2> HIDE DEF q
  <2>4. QED BY <2>2, <2>3
<1>10. q \in [1 .. Length -> 1 .. Length]
  <2>1. \A k \in 1 .. Length : (IF k = n + 1 THEN Length ELSE r[Origin(o, n, k)] - 1) \in 1 .. Length
    BY <1>8, <1>9
  <2>2. QED BY <2>1
<1> HIDE DEF q
<1>11. ASSUME NEW i \in 1 .. Length, NEW j \in 1 .. Length, q[i] = q[j]
       PROVE  i = j
  <2>1. CASE i = n + 1 /\ j # n + 1
    <3>1. q[i] = Length /\ q[j] \in 1 .. Length - 1
      BY <1>8, <1>9, <2>1
    <3>2. QED BY <1>11, <3>1
  <2>2. CASE i # n + 1 /\ j = n + 1
    <3>1. q[j] = Length /\ q[i] \in 1 .. Length - 1
      BY <1>8, <1>9, <2>2
    <3>2. QED BY <1>11, <3>1
  <2>3. CASE i # n + 1 /\ j # n + 1
    <3>1. r[Origin(o, n, i)] = r[Origin(o, n, j)]
      BY <1>9, <1>11, <2>3
    <3>2. Origin(o, n, i) = Origin(o, n, j)
      BY <1>6, <1>7, <2>3, <3>1
    <3>3. ~(i < j) /\ ~(j < i)
      BY <1>7, <2>3, <3>2
    <3>4. QED BY <3>3
  <2>4. QED BY <2>1, <2>2, <2>3
<1>12. ASSUME NEW j \in 1 .. Length
       PROVE  \E k \in 1 .. Length : q[k] = j
  <2>1. CASE j = Length
    <3>1. n + 1 \in 1 .. Length
      OBVIOUS
    <3>2. QED BY <1>8, <2>1, <3>1
  <2>2. CASE j # Length
    <3> DEFINE m == j + 1
    <3>1. m \in 1 .. Length /\ m # 1
      BY <2>2
    <3>2. PICK i \in 1 .. Length : r[i] = m
      <4> HIDE DEF m
      <4>1. QED BY <1>6, <3>1
    <3>3. i # o + 1
      BY <1>5, <3>1, <3>2
    <3>4. PICK k \in 1 .. Length : k # n + 1 /\ Origin(o, n, k) = i
      BY <1>7, <3>3
    <3>5. q[k] + 1 = m /\ q[k] \in Int
      BY <1>9, <3>2, <3>4
    <3>6. QED BY <3>5
  <2>3. QED BY <2>1, <2>2
<1>13. ASSUME NEW k \in 1 .. Length
       PROVE  s[k] = w[q[k]]
  <2>1. CASE k = n + 1
    BY <1>2, <1>4, <1>8, <2>1
  <2>2. CASE k # n + 1
    <3>1. /\ s[k] = slice[Origin(o, n, k)] /\ Origin(o, n, k) \in 1 .. Length
          /\ q[k] \in 1 .. Length - 1 /\ q[k] + 1 = r[Origin(o, n, k)]
      BY <1>4, <1>7, <1>9, <2>2
    <3>2. s[k] = window[q[k] + 1]
      BY <1>6, <3>1
    <3>3. QED BY <1>2, <3>1, <3>2
  <2>3. QED BY <2>1, <2>2
<1>14. Rearranges(q, s, w)
  BY <1>10, <1>11, <1>12, <1>13 DEF Rearranges
<1>15. QED BY <1>1, <1>3, <1>14

LEMMA FinitePart ==
  ASSUME NEW S, S \subseteq 1 .. Length
  PROVE  IsFiniteSet(S) /\ Cardinality(S) \in Nat
<1> DEFINE one == 1
<1>1. one \in Int /\ Length \in Int /\ S \subseteq one .. Length
  OBVIOUS
<1> HIDE DEF one
<1>2. IsFiniteSet(one .. Length)
  BY <1>1, FS_Interval
<1>3. IsFiniteSet(S)
  BY <1>1, <1>2, FS_Subset
<1>4. QED BY <1>3, FS_CardinalityType

(* What Below and UpTo count. *)
LEMMA Counts ==
  ASSUME NEW w, NEW n
  PROVE  /\ Median!Below(w, n) = Cardinality({i \in 1 .. Length : Num(w[i]) < n})
         /\ Median!UpTo(w, n) = Cardinality({i \in 1 .. Length : Num(w[i]) <= n})
BY DEF Median!Below, Median!UpTo, Median!Cardinality, Cardinality

LEMMA SameCounts ==
  ASSUME NEW s, NEW w, NEW p, Rearranges(p, s, w), NEW n
  PROVE  Median!Below(s, n) = Median!Below(w, n) /\ Median!UpTo(s, n) = Median!UpTo(w, n)
<1>1. /\ p \in [1 .. Length -> 1 .. Length]
      /\ \A i, j \in 1 .. Length : p[i] = p[j] => i = j
      /\ \A j \in 1 .. Length : \E i \in 1 .. Length : p[i] = j
      /\ \A i \in 1 .. Length : s[i] = w[p[i]]
  BY DEF Rearranges
<1>2. ASSUME NEW A, NEW B, A \subseteq 1 .. Length, B \subseteq 1 .. Length,
             \A i \in 1 .. Length : i \in A <=> p[i] \in B
      PROVE  Cardinality(A) = Cardinality(B)
  <2> DEFINE f == [i \in A |-> p[i]]
  <2>1. f \in [A -> B] /\ \A i \in A : f[i] = p[i]
    BY <1>1, <1>2
  <2> HIDE DEF f
  <2>2. f \in Injection(A, B)
    BY <1>1, <1>2, <2>1 DEF Injection, IsInjective
  <2>3. \A j \in B : \E i \in A : f[i] = j
    BY <1>1, <1>2, <2>1
  <2>4. f \in Bijection(A, B)
    BY <2>1, <2>2, <2>3 DEF Bijection, Surjection
  <2>5. IsFiniteSet(A)
    BY <1>2, FinitePart
  <2>6. QED BY <2>4, <2>5, FS_Bijection DEF ExistsBijection
<1>3. Median!Below(s, n) = Median!Below(w, n)
  <2> DEFINE A == {i \in 1 .. Length : Num(s[i]) < n}
             B == {i \in 1 .. Length : Num(w[i]) < n}
  <2>1. \A i \in 1 .. Length : i \in A <=> p[i] \in B
    BY <1>1
  <2>2. A \subseteq 1 .. Length /\ B \subseteq 1 .. Length
    OBVIOUS
  <2>3. Cardinality(A) = Cardinality(B)
    <3> HIDE DEF A, B
    <3>1. QED BY <1>2, <2>1, <2>2
  <2>4. QED BY <2>3, Counts
<1>4. Median!UpTo(s, n) = Median!UpTo(w, n)
  <2> DEFINE A == {i \in 1 .. Length : Num(s[i]) <= n}
             B == {i \in 1 .. Length : Num(w[i]) <= n}
  <2>1. \A i \in 1 .. Length : i \in A <=> p[i] \in B
    BY <1>1
  <2>2. A \subseteq 1 .. Length /\ B \subseteq 1 .. Length
    OBVIOUS
  <2>3. Cardinality(A) = Cardinality(B)
    <3> HIDE DEF A, B
    <3>1. QED BY <1>2, <2>1, <2>2
  <2>4. QED BY <2>3, Counts
<1>5. QED BY <1>3, <1>4

(* The k-th number of a window is in the k-th place of the ordered slice. *)
LEMMA SmallestInPlace ==
  ASSUME NEW s \in Windows, NEW w \in Windows, NEW p, Rearranges(p, s, w), Ordered(s),
         NEW k \in 0 .. Length - 1
  PROVE  Median!Smallest(w, k) = Num(s[k + 1])
<1> DEFINE N == Num(s[k + 1])
           Nums == {Num(v) : v \in ToSet(w)}
           Kth(n) == Median!Below(w, n) <= k /\ k < Median!UpTo(w, n)
           A(n) == {i \in 1 .. Length : Num(s[i]) < n}
           B(n) == {i \in 1 .. Length : Num(s[i]) <= n}
<1>1. ASSUME NEW n
      PROVE  Median!Below(w, n) = Cardinality(A(n)) /\ Median!UpTo(w, n) = Cardinality(B(n))
  <2>1. Median!Below(s, n) = Median!Below(w, n) /\ Median!UpTo(s, n) = Median!UpTo(w, n)
    BY SameCounts
  <2>2. Median!Below(s, n) = Cardinality(A(n)) /\ Median!UpTo(s, n) = Cardinality(B(n))
    BY Counts
  <2>3. QED BY <2>1, <2>2
<1>2. ASSUME NEW S, NEW T, S \subseteq T, T \subseteq 1 .. Length
      PROVE  /\ Cardinality(S) \in Nat /\ Cardinality(T) \in Nat
             /\ Cardinality(S) <= Cardinality(T)
  <2>1. IsFiniteSet(T)
    BY <1>2, FinitePart
  <2>3. IsFiniteSet(S) /\ Cardinality(S) <= Cardinality(T)
    BY <1>2, <2>1, FS_Subset
  <2>4. QED BY <2>1, <2>3, FS_CardinalityType
<1>3. /\ k + 1 \in 1 .. Length /\ N \in Int /\ \A i \in 1 .. Length : Num(s[i]) \in Int
      /\ \A i \in 1 .. Length : i <= k + 1 => Num(s[i]) <= N
      /\ \A i \in 1 .. Length : i >= k + 1 => N <= Num(s[i])
  BY DEF Windows, Ordered
<1>4. Cardinality(A(N)) <= k /\ k < Cardinality(B(N))
  <2>1. A(N) \subseteq 1 .. k
    BY <1>3
  <2>2. 1 .. k + 1 \subseteq B(N) /\ B(N) \subseteq 1 .. Length /\ 1 .. k \subseteq 1 .. Length
    BY <1>3
  <2>3. Cardinality(1 .. k) = k /\ Cardinality(1 .. k + 1) = k + 1
    <3> DEFINE m == k + 1
    <3>1. k \in Nat /\ m \in Nat /\ m > 0
      OBVIOUS
    <3> HIDE DEF m
    <3>2. Cardinality(1 .. k) = k /\ Cardinality(1 .. m) = m
      BY <3>1, FS_Interval
    <3>3. QED BY <3>2 DEF m
  <2> HIDE DEF A, B, N
  <2>4. Cardinality(A(N)) <= Cardinality(1 .. k) /\ Cardinality(A(N)) \in Nat
    BY <1>2, <2>1, <2>2
  <2>5. Cardinality(1 .. k + 1) <= Cardinality(B(N)) /\ Cardinality(B(N)) \in Nat
    BY <1>2, <2>2
  <2>6. QED BY <2>3, <2>4, <2>5
<1>5. ASSUME NEW n \in Int, Kth(n)
      PROVE  n = N
  <2>1. Cardinality(A(n)) <= k /\ k < Cardinality(B(n))
    BY <1>1, <1>5
  <2>2. CASE n < N
    <3>1. B(n) \subseteq A(N) /\ A(N) \subseteq 1 .. Length
      BY <1>3, <2>2
    <3> HIDE DEF A, B, N
    <3>2. /\ Cardinality(B(n)) <= Cardinality(A(N))
          /\ Cardinality(B(n)) \in Nat /\ Cardinality(A(N)) \in Nat
      BY <1>2, <3>1
    <3>3. QED BY <1>4, <2>1, <3>2
  <2>3. CASE n > N
    <3>1. B(N) \subseteq A(n) /\ A(n) \subseteq 1 .. Length
      BY <1>3, <2>3
    <3> HIDE DEF A, B, N
    <3>2. /\ Cardinality(B(N)) <= Cardinality(A(n))
          /\ Cardinality(B(N)) \in Nat /\ Cardinality(A(n)) \in Nat
      BY <1>2, <3>1
    <3>3. QED BY <1>4, <2>1, <3>2
  <2>4. QED BY <1>3, <2>2, <2>3
<1>6. Kth(N)
  BY <1>1, <1>4
<1>7. N \in Nums
  <2>1. p[k + 1] \in 1 .. Length /\ s[k + 1] = w[p[k + 1]]
    BY <1>3 DEF Rearranges
  <2>2. ToSet(w) = {w[i] : i \in 1 .. Length}
    BY ExtremumOf
  <2>3. QED BY <2>1, <2>2
<1>8. Nums \subseteq Int
  <2>1. ToSet(w) \subseteq Value
    BY ExtremumOf
  <2>2. QED BY <2>1
<1>9. Median!Smallest(w, k) = CHOOSE n \in Nums : Kth(n)
  BY DEF Median!Smallest, Median!ToSet, ToSet
<1> HIDE DEF Nums, Kth, N
<1>10. (CHOOSE n \in Nums : Kth(n)) = N
  BY <1>5, <1>6, <1>7, <1>8
<1>11. QED BY <1>9, <1>10 DEF N

(* The slice is the window in order, whatever was stored and read back: so    *)
(* what leaves the window is in the slice, and no index is out of range.       *)
MedianInv ==
  /\ alive = TRUE /\ window \in Windows /\ slice \in Windows
  /\ Ordered(slice)
  /\ \E p : Rearranges(p, slice, window)

LEMMA MedianStarts == Median!Init => MedianInv
<1> SUFFICES ASSUME Median!Init PROVE MedianInv
  OBVIOUS
<1>1. PICK v \in Value : window = [i \in 1 .. Length |-> v] /\ slice = window /\ alive = TRUE
  BY DEF Median!Init
<1>2. window \in Windows /\ slice \in Windows /\ \A i \in 1 .. Length : slice[i] = v
  BY <1>1 DEF Windows
<1>3. Ordered(slice)
  BY <1>2 DEF Ordered
<1> DEFINE p == [i \in 1 .. Length |-> i]
<1>4. Rearranges(p, slice, window)
  BY <1>1 DEF Rearranges
<1> HIDE DEF p
<1>5. QED BY <1>1, <1>2, <1>3, <1>4 DEF MedianInv

LEMMA MedianConsumes ==
  ASSUME OnePattern, MedianInv, NEW v \in Value, Median!Consume(v)
  PROVE  MedianInv'
<1> DEFINE o == Median!FindIndex(Head(window))
           r == Median!FindInsertIndex(v)
           n == Median!Destination(o, r)
<1>1. alive = TRUE /\ window \in Windows /\ slice \in Windows /\ Ordered(slice)
  BY DEF MedianInv
<1>2. PICK p : Rearranges(p, slice, window)
  BY DEF MedianInv
<1>3. Head(window) = window[1] /\ Head(window) \in Value /\ Append(Tail(window), v) \in Windows
  <2>1. Head(window) = window[1] /\ Append(Tail(window), v) \in Windows
    BY <1>1, Slid
  <2>2. QED BY <1>1, <2>1 DEF Windows
<1>4. \E i \in 1 .. Length : slice[i] = Head(window)
  <2>1. PICK i \in 1 .. Length : p[i] = 1
    BY <1>2 DEF Rearranges
  <2>2. slice[i] = window[1]
    BY <1>2, <2>1 DEF Rearranges
  <2>3. QED BY <1>3, <2>2
<1>5. o \in 0 .. Length - 1 /\ slice[o + 1] = Head(window)
  BY <1>1, <1>3, <1>4, FindIndexFinds
<1>6. /\ r \in 0 .. Length /\ \A i \in 1 .. r : Num(slice[i]) <= Num(v)
      /\ \A i \in r + 1 .. Length : Num(v) <= Num(slice[i])
  BY <1>1, FindInsertIndexParts
<1> HIDE DEF o, r
<1>7. n \in 0 .. Length - 1 /\ Ordered(Median!Moved(o, n, v))
  BY <1>1, <1>5, <1>6, MovedOrdered
<1>8. /\ window' = Append(Tail(window), v)
      /\ alive' = (o < Length /\ n < Length)
      /\ slice' = IF alive' THEN Median!Moved(o, n, v) ELSE slice
  BY DEF Median!Consume, o, r
<1> HIDE DEF n
<1>9. alive' = TRUE
  <2>1. o < Length /\ n < Length
    BY <1>5, <1>7
  <2>2. alive' = (o < Length /\ n < Length)
    BY <1>8
  <2>3. QED BY <2>1, <2>2, Zenon
<1>10. slice' = Median!Moved(o, n, v)
  BY <1>8, <1>9
<1>11. slice' \in Windows
  BY <1>1, <1>5, <1>7, <1>10, MovedFrom
<1>12. \E q : Rearranges(q, slice', window')
  BY <1>1, <1>2, <1>5, <1>7, <1>8, <1>10, MovedRearranges
<1>13. window' \in Windows
  BY <1>3, <1>8
<1>14. QED BY <1>7, <1>9, <1>10, <1>11, <1>12, <1>13 DEF MedianInv

LEMMA MedianReloads ==
  ASSUME MedianInv, Median!RoundTrip
  PROVE  MedianInv'
<1>1. window \in Windows /\ window' = window /\ alive' = TRUE
  BY DEF MedianInv, Median!RoundTrip
<1>2. PICK p \in Orders :
        slice' = [k \in 1 .. Length |-> window[p[k]]] /\ Median!Sorted(slice')
  BY DEF Median!RoundTrip, Median!Restored
<1>3. /\ p \in [1 .. Length -> 1 .. Length]
      /\ \A i, j \in 1 .. Length : p[i] = p[j] => i = j
      /\ \A j \in 1 .. Length : \E i \in 1 .. Length : p[i] = j
  BY MethodsAssumption DEF MethodsAssumption, Bijection, Injection, IsInjective, Surjection
<1>6. slice' \in Windows
  BY <1>1, <1>2, <1>3 DEF Windows
<1>7. Rearranges(p, slice', window')
  BY <1>1, <1>2, <1>3 DEF Rearranges
<1>8. Ordered(slice')
  BY <1>2, <1>6, SortedOrders
<1>9. QED BY <1>1, <1>6, <1>7, <1>8 DEF MedianInv

LEMMA MedianAnswers == MedianInv => MedianOfWindow
<1> SUFFICES ASSUME MedianInv PROVE MedianOfWindow
  OBVIOUS
<1> DEFINE half == Length \div 2
           less == (Length - 1) \div 2
<1>1. alive = TRUE /\ window \in Windows /\ slice \in Windows /\ Ordered(slice)
  BY DEF MedianInv
<1>2. PICK p : Rearranges(p, slice, window)
  BY DEF MedianInv
<1>3. /\ half \in 0 .. Length - 1 /\ less \in 0 .. Length - 1
      /\ less + 1 = IF Length % 2 = 0 THEN half ELSE half + 1
  OBVIOUS
<1>4. Median!Peek = Num(slice[half + 1]) + Num(slice[IF Length % 2 = 0 THEN half ELSE half + 1])
  BY DEF Median!Peek
<1> HIDE DEF half, less
<1>5. /\ Median!Smallest(window, half) = Num(slice[half + 1])
      /\ Median!Smallest(window, less) = Num(slice[less + 1])
  BY <1>1, <1>2, <1>3, SmallestInPlace
<1>6. Median!Peek = Median!Smallest(window, half) + Median!Smallest(window, less)
  BY <1>3, <1>4, <1>5
<1>7. QED BY <1>1, <1>6 DEF MedianOfWindow, Median!MedianOfWindow, half, less

(* Where every number has one pattern, the moving median of any length answers *)
(* the median of its window after any series, and bisection never leaves the   *)
(* slice (methods/smm.rs); moving_median_zeros shows what two zeros do.        *)
THEOREM MedianCorrect == OnePattern => (MethodsSpec => []MedianOfWindow)
<1> SUFFICES ASSUME OnePattern PROVE MethodsSpec => []MedianOfWindow
  OBVIOUS
<1>1. MethodsInit => MedianInv
  BY MedianStarts DEF MethodsInit
<1>2. MedianInv /\ [MethodsNext]_<<vars, medianVars, reversalVars>> => MedianInv'
  <2> SUFFICES ASSUME MedianInv, [MethodsNext]_<<vars, medianVars, reversalVars>>
               PROVE  MedianInv'
    OBVIOUS
  <2>1. ASSUME NEW v \in Value, Feed(v) PROVE MedianInv'
    <3>1. Median!Consume(v)
      BY <2>1 DEF Feed
    <3>2. QED BY <3>1, MedianConsumes
  <2>2. CASE Reload
    <3>1. Median!RoundTrip
      BY <2>2 DEF Reload
    <3>2. QED BY <3>1, MedianReloads
  <2>3. CASE UNCHANGED <<vars, medianVars, reversalVars>>
    BY <2>3 DEF MedianInv, vars, medianVars
  <2>4. QED BY <2>1, <2>2, <2>3 DEF MethodsNext
<1>3. MedianInv => MedianOfWindow
  BY MedianAnswers
<1>4. QED BY <1>1, <1>2, <1>3, PTL DEF MethodsSpec
=============================================================================
