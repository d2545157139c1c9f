---------------------------- MODULE WindowProofs ----------------------------
(***************************************************************************)
(* Proofs about Window: for every PeriodType, every size it allows and any *)
(* values, the ring buffer is a sliding window.                            *)
(***************************************************************************)
EXTENDS Window, TLAPS

USE WindowAssumption DEF Period

(* Counting from the oldest, slot k is a slot, and distinct from every other. *)
LEMMA SlotInRange ==
  ASSUME TypeOK, NEW k \in 0 .. size
  PROVE  Slot(k) \in 0 .. size - 1
BY DEF TypeOK, Slot

LEMMA SlotsDistinct ==
  ASSUME TypeOK, NEW k \in 1 .. size - 1
  PROVE  Slot(k) # index /\ Slot(0) = index
BY DEF TypeOK, Slot

(* The branchless step goes one slot on, and round the end (Window::push). *)
LEMMA FollowingSlot ==
  ASSUME TypeOK, NEW k \in 0 .. size - 1
  PROVE  Following(Slot(k)) = Slot(k + 1)
BY DEF TypeOK, Slot, Following, Flag, s_1

(* slice_index finds the n-th newest value, whatever saturates on the way. *)
LEMMA SliceIndexSlot ==
  ASSUME TypeOK, NEW n \in 0 .. size - 1
  PROVE  SliceIndex(n) = Slot(size - 1 - n)
<1> DEFINE k == s_1 - n
           saturated == SaturatingAdd(index, k)
<1>1. k \in 0 .. size - 1 /\ index \in 0 .. size - 1 /\ size \in 1 .. MaxPeriod - 1
  BY DEF TypeOK, s_1
<1>2. CASE index + k < size
  <2>1. saturated = index + k
    BY <1>1, <1>2 DEF SaturatingAdd
  <2>2. Flag(saturated >= size) = 0
    BY <2>1, <1>1, <1>2 DEF Flag
  <2>3. SaturatingSub(k, size - index) \in Int
    BY <1>1 DEF SaturatingSub
  <2> HIDE DEF saturated, k
  <2>4. 0 * SaturatingSub(k, size - index) + (1 - 0) * saturated = saturated
    BY <2>1, <2>3, <1>1
  <2> QED BY <2>1, <2>2, <2>4, <1>1, <1>2 DEF SliceIndex, Slot, saturated, k, s_1
<1>3. CASE index + k >= size
  <2>1. saturated \in Int /\ saturated >= size
    BY <1>1, <1>3 DEF SaturatingAdd
  <2>2. Flag(saturated >= size) = 1
    BY <2>1, <1>1 DEF Flag
  <2>3. SaturatingSub(k, size - index) = k - (size - index)
    BY <1>1, <1>3 DEF SaturatingSub
  <2> HIDE DEF saturated, k
  <2>4. 1 * SaturatingSub(k, size - index) + (1 - 1) * saturated = index + k - size
    BY <2>1, <2>3, <1>1
  <2> QED BY <2>2, <2>4, <1>1, <1>3 DEF SliceIndex, Slot, saturated, k, s_1
<1> QED BY <1>1, <1>2, <1>3

(* The branchless step back of a newest-first walk (WindowIterator::next). *)
LEMMA StepBack ==
  ASSUME TypeOK, IterOK, iter.way = "newest_first", iter.size # 0
  PROVE  SaturatingSub(iter.index, 1) + Flag(iter.index = 0) * s_1 = Slot(iter.size - 1)
<1> DEFINE i == SaturatingSub(iter.index, 1) + Flag(iter.index = 0) * s_1
<1>0. /\ iter.size \in 1 .. size /\ iter.index = Slot(iter.size)
      /\ size \in 1 .. MaxPeriod - 1 /\ index \in 0 .. size - 1
  BY DEF TypeOK, IterOK
<1>1. CASE iter.index = 0
  <2>1. i = 0 + 1 * (size - 1)
    BY <1>1 DEF SaturatingSub, Flag, s_1
  <2> HIDE DEF i
  <2>2. i = Slot(iter.size - 1)
    BY <1>0, <1>1, <2>1 DEF Slot
  <2> QED BY <2>2 DEF i
<1>2. CASE iter.index # 0
  <2>1. Flag(iter.index = 0) * s_1 = 0
    BY <1>0, <1>2 DEF Flag, s_1
  <2>2. iter.index \in Nat /\ SaturatingSub(iter.index, 1) = iter.index - 1
    BY <1>0, <1>2 DEF Slot, SaturatingSub
  <2>3. i = iter.index - 1
    BY <2>1, <2>2
  <2> HIDE DEF i
  <2>4. i = Slot(iter.size - 1)
    BY <1>0, <1>2, <2>3 DEF Slot
  <2> QED BY <2>4 DEF i
<1> QED BY <1>1, <1>2

-----------------------------------------------------------------------------
(* The invariant                                                           *)

LEMMA InitInv == Init => Inv
BY DEF Init, Inv, TypeOK, IterOK, NoIter

LEMMA NextInv == Inv /\ [Next]_vars => Inv'
<1> SUFFICES ASSUME Inv, [Next]_vars PROVE Inv'
  OBVIOUS
<1>0. TypeOK /\ IterOK
  BY DEF Inv
<1>1. ASSUME NEW v \in Value, Push(v) PROVE Inv'
  <2>1. Following(index) \in 0 .. size - 1
    BY <1>0 DEF TypeOK, Following, Flag, s_1
  <2> QED BY <1>0, <1>1, <2>1 DEF Inv, TypeOK, IterOK, Push, NoIter
<1>2. ASSUME NEW n \in Period, Get(n) PROVE Inv'
  <2>1. n <= s_1 => SliceIndex(n) \in 0 .. size - 1
    <3> SUFFICES ASSUME n <= s_1 PROVE SliceIndex(n) \in 0 .. size - 1
      OBVIOUS
    <3>1. n \in 0 .. size - 1 /\ size - 1 - n \in 0 .. size
      BY <1>0 DEF TypeOK, s_1, Period
    <3>2. QED BY <1>0, <3>1, SliceIndexSlot, SlotInRange
  <2> QED BY <1>0, <1>2, <2>1 DEF Inv, TypeOK, IterOK, Get, Slot
<1>3. ASSUME Newest \/ Oldest PROVE Inv'
  <2>1. CASE Newest
    BY <1>0, <2>1 DEF Inv, TypeOK, IterOK, Newest, Slot, s_1
  <2>2. CASE Oldest
    BY <1>0, <2>2 DEF Inv, TypeOK, IterOK, Oldest, Slot, s_1
  <2> QED BY <1>3, <2>1, <2>2
<1>4. ASSUME NEW way \in {"newest_first", "oldest_first"}, Iterate(way) PROVE Inv'
  BY <1>0, <1>4 DEF Inv, TypeOK, IterOK, Iterate, Slot, NoIter
<1>5. ASSUME NextNewest PROVE Inv'
  <2>1. CASE iter.size = 0
    BY <1>0, <1>5, <2>1 DEF Inv, TypeOK, IterOK, NextNewest, Slot, NoIter
  <2>2. CASE iter.size # 0
    <3> DEFINE i == SaturatingSub(iter.index, 1) + Flag(iter.index = 0) * s_1
    <3>0. /\ iter.size \in 1 .. size /\ iter.index = Slot(iter.size)
          /\ size \in 1 .. MaxPeriod - 1 /\ index \in 0 .. size - 1
      BY <1>0, <1>5, <2>2 DEF TypeOK, IterOK, NextNewest
    <3>1. i = Slot(iter.size - 1)
      BY <1>0, <1>5, <2>2, StepBack DEF NextNewest
    <3>2. /\ iter' = [way |-> "newest_first", index |-> i, size |-> iter.size - 1]
          /\ answer' = <<"next", 0, buf[i]>> /\ UNCHANGED <<buf, index, size>>
      BY <1>0, <1>5, <2>2 DEF NextNewest, TypeOK
    <3> HIDE DEF i
    <3>3. i \in 0 .. size - 1
      BY <3>0, <3>1 DEF Slot
    <3>4. TypeOK'
      BY <1>0, <3>0, <3>2, <3>3 DEF TypeOK
    <3>5. IterOK'
      BY <3>0, <3>1, <3>2 DEF IterOK, Slot
    <3> QED BY <3>4, <3>5 DEF Inv
  <2> QED BY <2>1, <2>2
<1>6. ASSUME NextOldest PROVE Inv'
  <2>1. CASE iter.size = 0
    BY <1>0, <1>6, <2>1 DEF Inv, TypeOK, IterOK, NextOldest, Slot, NoIter
  <2>2. CASE iter.size # 0
    <3>0. /\ iter.size \in 1 .. size /\ iter.index = Slot(size - iter.size)
          /\ size \in 1 .. MaxPeriod - 1 /\ index \in 0 .. size - 1
      BY <1>0, <1>6, <2>2 DEF TypeOK, IterOK, NextOldest
    <3>1. Following(iter.index) = Slot(size - (iter.size - 1))
      <4>1. size - iter.size \in 0 .. size - 1 /\ size - iter.size + 1 = size - (iter.size - 1)
        BY <3>0
      <4> QED BY <1>0, <3>0, <4>1, FollowingSlot
    <3>2. Following(iter.index) \in 0 .. size - 1
      BY <3>0, <3>1 DEF Slot
    <3>3. /\ iter' = [way |-> "oldest_first", index |-> Following(iter.index),
                      size |-> iter.size - 1]
          /\ answer' = <<"next", 0, buf[iter.index]>> /\ UNCHANGED <<buf, index, size>>
      BY <1>0, <1>6, <2>2 DEF NextOldest, TypeOK
    <3>4. TypeOK'
      <4>1. iter.index \in 0 .. size - 1
        BY <1>0 DEF TypeOK
      <4> QED BY <1>0, <3>0, <3>2, <3>3, <4>1 DEF TypeOK
    <3>5. IterOK'
      BY <3>0, <3>1, <3>3 DEF IterOK, Slot
    <3> QED BY <3>4, <3>5 DEF Inv
  <2> QED BY <2>1, <2>2
<1>7. ASSUME Release PROVE Inv'
  BY <1>0, <1>7 DEF Inv, TypeOK, IterOK, Release, Slot, NoIter
<1>8. ASSUME RoundTrip PROVE Inv'
  BY <1>0, <1>8 DEF Inv, TypeOK, IterOK, RoundTrip, Accepted, Slot, NoIter
<1>9. CASE UNCHANGED vars
  BY <1>0, <1>9 DEF Inv, TypeOK, IterOK, vars, Slot, NoIter
<1> QED BY <1>1, <1>2, <1>3, <1>4, <1>5, <1>6, <1>7, <1>8, <1>9 DEF Next

(* The inductive invariant of the window. *)
THEOREM Invariance == Spec => []Inv
BY InitInv, NextInv, PTL DEF Spec

(* The index always is a slot: no operation of a non-empty window panics and *)
(* every window that can be built is accepted when it is read back.          *)
THEOREM TypeCorrect == Spec => []TypeOK
<1>1. Inv => TypeOK BY DEF Inv
<1> QED BY <1>1, Invariance, PTL

-----------------------------------------------------------------------------
(* Refinement                                                              *)

LEMMA ContentSeq ==
  ASSUME TypeOK
  PROVE  /\ Content \in Seq(Value) /\ Len(Content) = size
         /\ \A i \in 1 .. size : Content[i] = buf[Slot(i - 1)]
<1>1. \A i \in 1 .. size : buf[Slot(i - 1)] \in Value
  BY DEF TypeOK, Slot
<1>2. size \in Nat
  BY DEF TypeOK
<1> QED BY <1>1, <1>2 DEF Content

(* A push drops the oldest value and appends the new one. *)
LEMMA PushContent ==
  ASSUME TypeOK, NEW v \in Value, Push(v)
  PROVE  /\ Content' = Append(Tail(Content), v)
         /\ Head(Content) = buf[index]
<1>0. size \in 1 .. MaxPeriod - 1 /\ index \in 0 .. size - 1 /\ size' = size
  BY DEF TypeOK, Push
<1>1. index' = Slot(1)
  BY <1>0, FollowingSlot DEF Push, Slot
<1>2. \A k \in 0 .. size - 1 : Slot(k)' = Slot(k + 1)
  BY <1>0, <1>1 DEF Slot
<1>3. ASSUME NEW k \in 1 .. size - 1 PROVE buf'[Slot(k)] = buf[Slot(k)]
  <2>1. Slot(k) \in 0 .. size - 1 /\ Slot(k) # index
    BY <1>0 DEF Slot
  <2> QED BY <2>1 DEF TypeOK, Push
<1>4. buf'[Slot(size)] = v
  BY <1>0 DEF TypeOK, Push, Slot
<1>5. /\ Content \in Seq(Value) /\ Len(Content) = size
      /\ \A i \in 1 .. size : Content[i] = buf[Slot(i - 1)]
  BY ContentSeq
<1>6. Content' = [i \in 1 .. size |-> IF i = size THEN v ELSE Content[i + 1]]
  <2>1. Content' = [i \in 1 .. size |-> buf'[Slot(i - 1)']]
    BY <1>0 DEF Content
  <2>2. ASSUME NEW i \in 1 .. size
        PROVE  buf'[Slot(i - 1)'] = IF i = size THEN v ELSE Content[i + 1]
    <3>1. Slot(i - 1)' = Slot(i)
      BY <1>0, <1>2
    <3> QED BY <1>0, <1>3, <1>4, <1>5, <3>1
  <2> QED BY <2>1, <2>2
<1>7. Append(Tail(Content), v) = [i \in 1 .. size |-> IF i = size THEN v ELSE Content[i + 1]]
  <2> DEFINE c == Content
  <2>1. c \in Seq(Value) /\ Len(c) = size
    BY <1>5
  <2> HIDE DEF c
  <2>2. PICK t : t = Tail(c)
    OBVIOUS
  <2>3. t \in Seq(Value) /\ Len(t) = size - 1 /\ \A i \in 1 .. size - 1 : t[i] = c[i + 1]
    BY <1>0, <2>1, <2>2
  <2>4. PICK a : a = Append(t, v)
    OBVIOUS
  <2>5. /\ a \in Seq(Value) /\ Len(a) = size
        /\ \A i \in 1 .. size : a[i] = IF i = size THEN v ELSE c[i + 1]
    BY <1>0, <2>3, <2>4
  <2>6. a = [i \in 1 .. size |-> IF i = size THEN v ELSE c[i + 1]]
    BY <2>5
  <2> QED BY <2>2, <2>4, <2>6 DEF c
<1>8. Head(Content) = buf[index]
  BY <1>0, <1>5 DEF Slot
<1> QED BY <1>6, <1>7, <1>8

(* What the abstract window calls the n-th newest value. *)
LEMMA NewestContent ==
  ASSUME TypeOK, NEW n \in 0 .. size - 1
  PROVE  Sliding!FromNewest(n) = buf[Slot(size - 1 - n)]
<1>1. size - n \in 1 .. size /\ size - n - 1 = size - 1 - n
  BY DEF TypeOK
<1> QED BY <1>1, ContentSeq DEF Sliding!FromNewest

Walked == [way |-> iter.way, count |-> IF iter.way = "none" THEN 0 ELSE size - iter.size]

LEMMA SlidingStep ==
  ASSUME Inv, [Next]_vars
  PROVE  [Sliding!Next]_(Sliding!vars)
<1>0. /\ TypeOK /\ IterOK
      /\ size \in 1 .. MaxPeriod - 1 /\ index \in 0 .. size - 1
      /\ Content \in Seq(Value) /\ Len(Content) = size
      /\ \A i \in 1 .. size : Content[i] = buf[Slot(i - 1)]
  BY ContentSeq DEF Inv, TypeOK
<1>a. UNCHANGED <<buf, index, size>> => Content' = Content
  BY DEF Content, Slot
<1>b. UNCHANGED <<iter, size>> => Walked' = Walked
  BY DEF Walked
<1>c. iter = NoIter => Walked = Sliding!NoWalk
  BY DEF Walked, NoIter, Sliding!NoWalk
<1>1. ASSUME NEW v \in Value, Push(v) PROVE Sliding!Push(v)
  BY <1>0, <1>1, <1>b, <1>c, PushContent DEF Push, Sliding!Push, Walked
<1>2. ASSUME NEW n \in Period, Get(n) PROVE Sliding!Get(n)
  <2>1. n <= s_1 => n \in 0 .. size - 1 /\ buf[SliceIndex(n)] = Sliding!FromNewest(n)
    BY <1>0, SliceIndexSlot, NewestContent DEF s_1
  <2>2. n <= s_1 <=> n < Len(Content)
    BY <1>0 DEF s_1
  <2> QED BY <1>2, <1>a, <1>b, <2>1, <2>2 DEF Get, Sliding!Get, Walked
<1>3. ASSUME Newest PROVE Sliding!Get(0)
  <2>1. (IF index >= 1 THEN index - 1 ELSE s_1) = Slot(size - 1)
    BY <1>0 DEF Slot, s_1
  <2>2. Sliding!FromNewest(0) = buf[Slot(size - 1)]
    BY <1>0, NewestContent
  <2> QED BY <1>0, <1>3, <1>a, <1>b, <2>1, <2>2 DEF Newest, Sliding!Get, Walked
<1>4. ASSUME Oldest PROVE Sliding!Get(s_1)
  <2>1. s_1 \in 0 .. size - 1 /\ size - 1 - s_1 = 0 /\ Slot(0) = index
    BY <1>0 DEF s_1, Slot
  <2>2. Sliding!FromNewest(s_1) = buf[index]
    BY <1>0, <2>1, NewestContent
  <2> QED BY <1>0, <1>4, <1>a, <1>b, <2>1, <2>2 DEF Oldest, Sliding!Get, Walked, s_1
<1>5. ASSUME NEW way \in {"newest_first", "oldest_first"}, Iterate(way)
      PROVE  Sliding!Walk(way)
  <2>1. Walked' = [way |-> way, count |-> 0]
    BY <1>0, <1>5 DEF Iterate, Walked
  <2> QED BY <1>5, <1>a, <1>c, <2>1 DEF Iterate, Sliding!Walk, Walked
<1>6. ASSUME NextNewest PROVE Sliding!Yield
  <2>0. /\ iter.way = "newest_first" /\ iter.index = Slot(iter.size)
        /\ iter.size \in 0 .. size
        /\ Walked = [way |-> "newest_first", count |-> size - iter.size]
    BY <1>0, <1>6 DEF NextNewest, TypeOK, IterOK, Walked
  <2>1. CASE iter.size = 0
    <3>1. ~(Walked.count < Len(Content))
      BY <1>0, <2>0, <2>1
    <3> QED BY <1>6, <1>a, <1>b, <2>0, <2>1, <3>1 DEF NextNewest, Sliding!Yield, Walked
  <2>2. CASE iter.size # 0
    <3> DEFINE i == SaturatingSub(iter.index, 1) + Flag(iter.index = 0) * s_1
    <3>1. i = Slot(iter.size - 1)
      BY <1>0, <1>6, <2>2, StepBack DEF NextNewest
    <3>2. /\ iter' = [way |-> "newest_first", index |-> i, size |-> iter.size - 1]
          /\ answer' = <<"next", 0, buf[i]>> /\ UNCHANGED <<buf, index, size>>
      BY <1>0, <1>6, <2>2 DEF NextNewest, TypeOK
    <3> HIDE DEF i
    <3>3. Walked' = [way |-> "newest_first", count |-> size - iter.size + 1]
      BY <1>0, <2>0, <2>2, <3>2 DEF Walked
    <3>4. Sliding!FromNewest(size - iter.size) = buf[i]
      <4>1. size - iter.size \in 0 .. size - 1
            /\ size - 1 - (size - iter.size) = iter.size - 1
        BY <1>0, <2>0, <2>2
      <4> QED BY <1>0, <3>1, <4>1, NewestContent
    <3>5. Walked.count < Len(Content)
      BY <1>0, <2>0, <2>2
    <3> QED BY <1>a, <2>0, <3>2, <3>3, <3>4, <3>5 DEF Sliding!Yield, Walked
  <2> QED BY <2>1, <2>2
<1>7. ASSUME NextOldest PROVE Sliding!Yield
  <2>0. /\ iter.way = "oldest_first" /\ iter.index = Slot(size - iter.size)
        /\ iter.size \in 0 .. size
        /\ Walked = [way |-> "oldest_first", count |-> size - iter.size]
    BY <1>0, <1>7 DEF NextOldest, TypeOK, IterOK, Walked
  <2>1. CASE iter.size = 0
    <3>1. ~(Walked.count < Len(Content))
      BY <1>0, <2>0, <2>1
    <3> QED BY <1>7, <1>a, <1>b, <2>0, <2>1, <3>1 DEF NextOldest, Sliding!Yield, Walked
  <2>2. CASE iter.size # 0
    <3>1. /\ iter' = [way |-> "oldest_first", index |-> Following(iter.index),
                      size |-> iter.size - 1]
          /\ answer' = <<"next", 0, buf[iter.index]>> /\ UNCHANGED <<buf, index, size>>
      BY <1>0, <1>7, <2>2 DEF NextOldest, TypeOK
    <3>2. Walked' = [way |-> "oldest_first", count |-> size - iter.size + 1]
      BY <1>0, <2>0, <2>2, <3>1 DEF Walked
    <3>3. Content[size - iter.size + 1] = buf[iter.index]
      <4>1. size - iter.size + 1 \in 1 .. size
            /\ size - iter.size + 1 - 1 = size - iter.size
        BY <1>0, <2>0, <2>2
      <4> QED BY <1>0, <2>0, <4>1
    <3>4. Walked.count < Len(Content)
      BY <1>0, <2>0, <2>2
    <3> QED BY <1>a, <2>0, <3>1, <3>2, <3>3, <3>4 DEF Sliding!Yield, Walked
  <2> QED BY <2>1, <2>2
<1>8. ASSUME Release PROVE Sliding!EndWalk
  BY <1>0, <1>8, <1>a, <1>c DEF Release, Sliding!EndWalk, Sliding!NoWalk, Walked, IterOK, NoIter
<1>9. ASSUME RoundTrip \/ UNCHANGED vars PROVE UNCHANGED Sliding!vars
  <2>1. Accepted
    BY <1>0 DEF Accepted
  <2> QED BY <1>9, <1>a, <1>b, <2>1 DEF RoundTrip, vars, Sliding!vars, Walked
<1>10. 0 \in 0 .. MaxPeriod /\ s_1 \in 0 .. MaxPeriod
  BY <1>0 DEF s_1
<1> QED BY <1>1, <1>2, <1>3, <1>4, <1>5, <1>6, <1>7, <1>8, <1>9, <1>10
     DEF Next, Sliding!Next

(* For every PeriodType, every size up to its limit, any values and any      *)
(* sequence of operations, the ring buffer implements the sliding window.    *)
THEOREM Refinement == Spec => ImplementsSlidingWindow
<1>1. Init => Sliding!Init
  <2> SUFFICES ASSUME Init PROVE Sliding!Init
    OBVIOUS
  <2>1. TypeOK
    BY InitInv DEF Inv
  <2>2. Content \in Seq(Value) /\ Content # <<>>
    BY <2>1, ContentSeq DEF TypeOK
  <2> QED BY <2>2 DEF Init, Sliding!Init, Sliding!NoWalk, NoIter
<1>2. Inv /\ [Next]_vars => [Sliding!Next]_(Sliding!vars)
  BY SlidingStep
<1> QED BY <1>1, <1>2, Invariance, PTL DEF Spec, ImplementsSlidingWindow, Sliding!Spec
=============================================================================
