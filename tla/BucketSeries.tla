---------------------------- MODULE BucketSeries ----------------------------
(***************************************************************************)
(* What an aggregator promises: the items it took, cut into the buckets    *)
(* their times fall into, each bucket one candle once a later item shows   *)
(* that it is over.  An item is a candle; a tick is one at a single price. *)
(***************************************************************************)
EXTENDS Integers, Sequences, FiniteSets, SequencesExt

CONSTANTS
  MinTime, MaxTime,  \* the clock
  MaxVolume,         \* the largest finite volume
  Ordered            \* whether items of one bucket come in order, too

VARIABLES
  offered, \* what may be taken now
  bucket,  \* the length of a bucket
  fill,    \* whether empty buckets between two others get a flat candle
  taken,   \* the items since the series was begun
  closed,  \* the candles handed out since
  open     \* whether the last bucket may still take items

vars == <<bucket, fill, taken, closed, open>>

(* The number of the bucket a time falls into, and its first time. *)
Number(time) == time \div bucket
Start(n)     == IF n * bucket < MinTime THEN MinTime ELSE n * bucket

Largest(S)  == CHOOSE x \in S : \A y \in S : y <= x
Smallest(S) == CHOOSE x \in S : \A y \in S : x <= y

(* The items of a bucket, by their places, and what they add up to. *)
Places(items, n) == {i \in DOMAIN items : Number(items[i].time) = n}

Volume(items, n) ==
  LET sum[k \in 0 .. Len(items)] ==
        IF k = 0 THEN 0
        ELSE sum[k - 1] + IF Number(items[k].time) = n THEN items[k].volume ELSE 0
  IN  sum[Len(items)]

Candle(items, n) ==
  LET own == Places(items, n)
  IN  [time |-> Start(n), open |-> items[Smallest(own)].open,
       close |-> items[Largest(own)].close,
       high |-> Largest({items[i].high : i \in own}),
       low |-> Smallest({items[i].low : i \in own}), volume |-> Volume(items, n)]

(* A bucket without items: flat at the close before it, as far from the last  *)
(* bucket with items as there are buckets between.                            *)
Filler(items, n) ==
  LET last  == Largest({i \in DOMAIN items : Number(items[i].time) < n})
      prev  == Number(items[last].time)
      price == items[last].close
  IN  [time |-> Start(prev) + (n - prev) * bucket, open |-> price, close |-> price,
       high |-> price, low |-> price, volume |-> 0]

(* The buckets of the series: those with items and, if they are filled, those *)
(* between.                                                                   *)
Numbers(items) == {Number(items[i].time) : i \in DOMAIN items}

Cover(items) ==
  IF fill THEN Smallest(Numbers(items)) .. Largest(Numbers(items)) ELSE Numbers(items)

(* The j-th smallest number of a set. *)
AtRank(S, j) == {n \in S : Cardinality({m \in S : m <= n}) = j}
Nth(S, j)    == CHOOSE n \in AtRank(S, j) : TRUE

SeriesOf(items) ==
  [j \in 1 .. Cardinality(Cover(items)) |->
     LET n == Nth(Cover(items), j)
     IN  IF n \in Numbers(items) THEN Candle(items, n) ELSE Filler(items, n)]

Init == taken = <<>> /\ closed = <<>> /\ open = FALSE

(* An item of the last bucket or a later one; a bucket whose volume is not  *)
(* finite is not followed by another.                                       *)
Take(c) ==
  LET last == Number(Last(taken).time)
  IN  /\ open
      /\ taken' = Append(taken, c)
      /\ Number(c.time) >= last
      /\ Ordered => c.time >= Last(taken).time
      /\ Number(c.time) > last => Volume(taken, last) <= MaxVolume
      /\ closed' = Front(SeriesOf(taken'))
      /\ UNCHANGED <<bucket, fill, open>>

Begin(c) ==
  /\ ~open
  /\ taken' = <<c>> /\ closed' = <<>> /\ open' = TRUE
  /\ UNCHANGED <<bucket, fill>>

(* The series ends: its last bucket is handed out too, if it is finite. *)
End ==
  /\ open
  /\ open' = FALSE
  /\ closed' = IF Last(SeriesOf(taken)).volume <= MaxVolume THEN SeriesOf(taken) ELSE closed
  /\ UNCHANGED <<bucket, fill, taken>>

Next == (\E c \in offered : Take(c) \/ Begin(c)) \/ End

Spec == Init /\ [][Next]_vars
=============================================================================
