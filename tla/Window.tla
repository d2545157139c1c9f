------------------------------- MODULE Window -------------------------------
(***************************************************************************)
(* The ring buffer under the native methods (core/window.rs): a boxed      *)
(* slice, the index of its oldest value, and the branchless arithmetic on  *)
(* an unsigned PeriodType that saturates where the code asks it to.  An    *)
(* iterator borrows the window: nothing is pushed while one is in use.     *)
(***************************************************************************)
EXTENDS Integers, Sequences

CONSTANTS
  Value,      \* what a window holds
  Nothing,    \* None
  MaxPeriod   \* PeriodType::MAX

ASSUME WindowAssumption ==
  /\ MaxPeriod \in Nat /\ MaxPeriod > 1
  /\ Nothing \notin Value

Period == 0 .. MaxPeriod

VARIABLES
  buf,     \* slot -> value
  index,   \* the slot of the oldest value
  size,    \* the number of slots
  iter,    \* the iterator in use: a direction, a slot and the items left
  answer   \* the last question - what, and for get, which - and its answer

vars == <<buf, index, size, iter, answer>>

s_1 == size - 1

SaturatingAdd(a, b) == IF a + b > MaxPeriod THEN MaxPeriod ELSE a + b
SaturatingSub(a, b) == IF a < b THEN 0 ELSE a - b
Flag(condition)     == IF condition THEN 1 ELSE 0

NoIter == [way |-> "none", index |-> 0, size |-> 0]

(* Window::new and from_parts: any slice short enough, any slot of it oldest. *)
Init ==
  /\ size \in 1 .. MaxPeriod - 1
  /\ buf \in [0 .. size - 1 -> Value]
  /\ index \in 0 .. size - 1
  /\ iter = NoIter /\ answer = <<"none", 0, Nothing>>

(* The slot after a slot. *)
Following(i) == Flag(i # s_1) * (i + 1)

Push(v) ==
  /\ iter = NoIter
  /\ answer' = <<"push", 0, buf[index]>>
  /\ buf' = [buf EXCEPT ![index] = v]
  /\ index' = Following(index)
  /\ UNCHANGED <<size, iter>>

(* Mutant: the part before the end is counted one short. *)
SliceIndex_OneTooFar(n) ==
  LET k         == s_1 - n
      saturated == SaturatingAdd(index, k)
      overflow  == Flag(saturated >= size)
      s         == s_1 - index
  IN  overflow * SaturatingSub(k, s) + (1 - overflow) * saturated

(* slice_index for an index it does not refuse: the slot of the n-th newest. *)
SliceIndex(n) ==
  LET k         == s_1 - n
      saturated == SaturatingAdd(index, k)
      overflow  == Flag(saturated >= size)
      s         == size - index
  IN  overflow * SaturatingSub(k, s) + (1 - overflow) * saturated

Get(n) ==
  /\ answer' = <<"get", n, IF n <= s_1 THEN buf[SliceIndex(n)] ELSE Nothing>>
  /\ UNCHANGED <<buf, index, size, iter>>

Newest ==
  /\ answer' = <<"get", 0, buf[IF index >= 1 THEN index - 1 ELSE s_1]>>
  /\ UNCHANGED <<buf, index, size, iter>>

Oldest ==
  /\ answer' = <<"get", s_1, buf[index]>>
  /\ UNCHANGED <<buf, index, size, iter>>

Iterate(way) ==
  /\ iter = NoIter
  /\ iter' = [way |-> way, index |-> index, size |-> size]
  /\ UNCHANGED <<buf, index, size, answer>>

(* WindowIterator::next steps back, then reads. *)
NextNewest ==
  /\ iter.way = "newest_first"
  /\ IF iter.size = 0
     THEN answer' = <<"next", 0, Nothing>> /\ UNCHANGED iter
     ELSE LET i == SaturatingSub(iter.index, 1) + Flag(iter.index = 0) * s_1
          IN  /\ iter' = [iter EXCEPT !.size = @ - 1, !.index = i]
              /\ answer' = <<"next", 0, buf[i]>>
  /\ UNCHANGED <<buf, index, size>>

(* ReversedWindowIterator::next reads, then steps on. *)
NextOldest ==
  /\ iter.way = "oldest_first"
  /\ IF iter.size = 0
     THEN answer' = <<"next", 0, Nothing>> /\ UNCHANGED iter
     ELSE /\ answer' = <<"next", 0, buf[iter.index]>>
          /\ iter' = [iter EXCEPT !.size = @ - 1, !.index = Following(@)]
  /\ UNCHANGED <<buf, index, size>>

Release ==
  /\ iter # NoIter
  /\ iter' = NoIter
  /\ UNCHANGED <<buf, index, size, answer>>

(* The bounds deserialize puts on the slice and the index it reads. *)
Accepted == size <= MaxPeriod - 1 /\ index < size

(* Serialized, and rebuilt by from_parts: a window that is refused is lost. *)
RoundTrip ==
  /\ iter = NoIter
  /\ answer' = IF Accepted THEN answer ELSE <<"refused", 0, Nothing>>
  /\ UNCHANGED <<buf, index, size, iter>>

Next ==
  \/ \E v \in Value : Push(v)
  \/ \E n \in Period : Get(n)
  \/ Newest
  \/ Oldest
  \/ \E way \in {"newest_first", "oldest_first"} : Iterate(way)
  \/ NextNewest
  \/ NextOldest
  \/ Release
  \/ RoundTrip

Spec == Init /\ [][Next]_vars

-----------------------------------------------------------------------------
(* Properties                                                              *)

(* Every variable has its shape: the index always is a slot (struct Window), *)
(* so no operation of a window panics, and deserialize accepts it.           *)
TypeOK ==
  /\ size \in 1 .. MaxPeriod - 1
  /\ buf \in [0 .. size - 1 -> Value]
  /\ index \in 0 .. size - 1
  /\ iter \in [way: {"none", "newest_first", "oldest_first"},
               index: 0 .. size - 1, size: 0 .. size]
  /\ answer \in {"none", "push", "get", "next"} \X Period \X (Value \cup {Nothing})

(* The slot k places after the oldest. *)
Slot(k) == IF index + k < size THEN index + k ELSE index + k - size

(* An iterator stands where the items it has left say. *)
IterOK ==
  /\ iter.way = "none" => iter = NoIter
  /\ iter.way = "newest_first" => iter.index = Slot(iter.size)
  /\ iter.way = "oldest_first" => iter.index = Slot(size - iter.size)

Inv == TypeOK /\ IterOK

(* The values from the oldest on. *)
Content == [i \in 1 .. size |-> buf[Slot(i - 1)]]

Sliding == INSTANCE SlidingWindow WITH
  content <- Content,
  walk    <- [way |-> iter.way, count |-> IF iter.way = "none" THEN 0 ELSE size - iter.size]

(* However pushes, reads, walks and round trips alternate, at whichever slot  *)
(* the oldest value is, the ring buffer answers as the sequence of the last   *)
(* size values would: the branchless index arithmetic has no wrong corner,    *)
(* up to the largest size an unsigned PeriodType allows.                      *)
ImplementsSlidingWindow == Sliding!Spec
=============================================================================
