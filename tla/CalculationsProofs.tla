---------------------------- MODULE CalculationsProofs ----------------------------
(***************************************************************************)
(* Proofs about the calculations and the reader their requests come        *)
(* through, each for any requests and limits.                              *)
(***************************************************************************)
EXTENDS Calculations, StreamStateProofs, FiniteSetTheorems

-----------------------------------------------------------------------------
(* Framing                                                                 *)

Byte == {"byte", "end"}

(* The counts after the bytes of a piece are defined for every piece. *)
LEMMA CountedFrom ==
  ASSUME NEW count, NEW piece \in Seq(Byte)
  PROVE  \E f : /\ f[0] = count /\ Counted(count, piece) = f[Len(piece)]
                /\ \A k \in 1 .. Len(piece) : f[k] = Count(f[k - 1], piece[k])
<1> DEFINE Counts(f, m) ==
             f = [k \in 0 .. m |-> IF k = 0 THEN count ELSE Count(f[k - 1], piece[k])]
           Missing == {m \in 0 .. Len(piece) : ~\E f : Counts(f, m)}
<1>1. Missing = {}
  <2> SUFFICES ASSUME Missing # {} PROVE FALSE
    OBVIOUS
  <2>1. PICK m \in Missing : \A k \in Missing : m <= k
    <3>1. Missing \in SUBSET Nat
      OBVIOUS
    <3> HIDE DEF Missing
    <3>2. QED BY <3>1, LeastNumber
  <2>2. m # 0
    <3> DEFINE f == [k \in 0 .. 0 |-> count]
    <3>1. Counts(f, 0)
      OBVIOUS
    <3> HIDE DEF Counts, f
    <3>2. QED BY <3>1
  <2>3. PICK f : Counts(f, m - 1)
    <3> HIDE DEF Counts
    <3> QED BY <2>1, <2>2
  <2> DEFINE g == [k \in 0 .. m |-> IF k = m THEN Count(f[m - 1], piece[m]) ELSE f[k]]
  <2>4. Counts(g, m)
    <3>1. m \in Nat /\ m > 0
      BY <2>2
    <3>2. QED BY <2>3, <3>1
  <2> HIDE DEF Counts
  <2>5. QED BY <2>4
<1>2. \E f : Counts(f, Len(piece))
  <2> HIDE DEF Counts
  <2>1. Len(piece) \in 0 .. Len(piece)
    OBVIOUS
  <2>2. QED BY <1>1, <2>1
<1> DEFINE f == CHOOSE g : Counts(g, Len(piece))
<1>3. Counts(f, Len(piece))
  <2> HIDE DEF Counts
  <2>1. QED BY <1>2
<1>4. Counted(count, piece) = f[Len(piece)]
  BY DEF Counted
<1> HIDE DEF f
<1>5. f[0] = count /\ \A k \in 1 .. Len(piece) : f[k] = Count(f[k - 1], piece[k])
  BY <1>3
<1>6. QED BY <1>4, <1>5

(* What one more byte makes of a count. *)
LEMMA CountByte ==
  ASSUME NEW bytes \in Seq(Byte), NEW n \in Nat, n < Len(bytes),
         NEW c \in Nat, c <= MaxFrame, Unended(bytes, n, c), ~LongWithin(bytes, n)
  PROVE  LET d == Count(c, bytes[n + 1])
         IN  /\ d \in Nat
             /\ d > MaxFrame => LongWithin(bytes, n + 1)
             /\ d <= MaxFrame => Unended(bytes, n + 1, d) /\ ~LongWithin(bytes, n + 1)
<1> DEFINE b == bytes[n + 1]
<1>1. b \in Byte /\ MaxFrame \in Nat /\ Len(bytes) \in Nat
  BY FramingAssumption
<1>2. \A i \in 1 .. (n + 1) - MaxFrame :
        i # (n + 1) - MaxFrame => ~LongFrom(bytes, i)
  <2>1. \A i \in 1 .. (n + 1) - MaxFrame : i # (n + 1) - MaxFrame => i \in 1 .. n - MaxFrame
    BY <1>1
  <2>2. QED BY <2>1, Zenon DEF LongWithin
<1>3. CASE b = "end"
  <2>1. Count(c, b) = 0
    BY <1>1, <1>3 DEF Count
  <2>2. Unended(bytes, n + 1, 0)
    BY <1>3 DEF Unended
  <2>3. ~LongWithin(bytes, n + 1)
    <3> SUFFICES ASSUME NEW i \in 1 .. (n + 1) - MaxFrame, LongFrom(bytes, i)
                 PROVE  FALSE
      BY Zenon DEF LongWithin
    <3>1. i = (n + 1) - MaxFrame
      BY <1>2
    <3>2. n + 1 \in i .. i + MaxFrame
      BY <1>1, <3>1
    <3>3. QED BY <1>3, <3>2 DEF LongFrom
  <2>4. QED BY <1>1, <2>1, <2>2, <2>3
<1>4. CASE b = "byte"
  <2>1. Count(c, b) = c + 1
    BY <1>1, <1>4 DEF Count
  <2>2. \A j \in (n + 1) - (c + 1) + 1 .. n + 1 : bytes[j] = "byte"
    <3> SUFFICES ASSUME NEW j \in (n + 1) - (c + 1) + 1 .. n + 1 PROVE bytes[j] = "byte"
      OBVIOUS
    <3>1. j = n + 1 \/ j \in n - c + 1 .. n
      OBVIOUS
    <3>2. QED BY <1>4, <3>1 DEF Unended
  <2>3. Unended(bytes, n + 1, c + 1)
    <3>1. c + 1 \in 0 .. n + 1
      BY DEF Unended
    <3>2. c + 1 < n + 1 => bytes[(n + 1) - (c + 1)] = "end"
      <4>1. (n + 1) - (c + 1) = n - c
        OBVIOUS
      <4>2. QED BY <4>1 DEF Unended
    <3>3. QED BY <2>2, <3>1, <3>2 DEF Unended
  <2>4. CASE c + 1 > MaxFrame
    <3> DEFINE i == (n + 1) - MaxFrame
    <3>1. i \in 1 .. (n + 1) - MaxFrame
      BY <1>1, <2>4 DEF Unended
    <3>2. \A j \in i .. i + MaxFrame : j \in (n + 1) - (c + 1) + 1 .. n + 1
      BY <1>1, <2>4
    <3>3. LongWithin(bytes, n + 1)
      <4> HIDE DEF i
      <4>1. LongFrom(bytes, i)
        BY <2>2, <3>2 DEF LongFrom
      <4>2. QED BY <3>1, <4>1, Zenon DEF LongWithin
    <3>4. QED BY <1>1, <2>1, <2>4, <3>3
  <2>5. CASE ~(c + 1 > MaxFrame)
    <3>1. ~LongWithin(bytes, n + 1)
      <4> SUFFICES ASSUME NEW i \in 1 .. (n + 1) - MaxFrame, LongFrom(bytes, i)
                   PROVE  FALSE
        BY Zenon DEF LongWithin
      <4>1. i = (n + 1) - MaxFrame
        BY <1>2
      <4>2. n - c \in i .. i + MaxFrame /\ c < n
        BY <1>1, <2>5, <4>1
      <4>3. bytes[n - c] = "end"
        BY <4>2 DEF Unended
      <4>4. QED BY <4>2, <4>3 DEF LongFrom
    <3>2. QED BY <1>1, <2>1, <2>3, <2>5, <3>1
  <2>6. QED BY <2>4, <2>5
<1>5. QED BY <1>1, <1>3, <1>4 DEF Byte

(* A line that is too long stays so. *)
LEMMA LongStays ==
  ASSUME NEW bytes, NEW m \in Nat, NEW n \in Nat, m <= n, LongWithin(bytes, m)
  PROVE  LongWithin(bytes, n)
<1>1. PICK i \in 1 .. m - MaxFrame : LongFrom(bytes, i)
  BY DEF LongWithin
<1>2. i \in 1 .. n - MaxFrame
  BY FramingAssumption
<1>3. QED BY <1>1, <1>2 DEF LongWithin

(* What the bytes of a piece make of a count. *)
LEMMA CountPiece ==
  ASSUME NEW bytes \in Seq(Byte), NEW m \in Nat, NEW n \in Nat, m + n <= Len(bytes),
         NEW c \in Nat, c <= MaxFrame, Unended(bytes, m, c), ~LongWithin(bytes, m)
  PROVE  LET d == Counted(c, SubSeq(bytes, m + 1, m + n))
         IN  /\ d \in Nat
             /\ d > MaxFrame => LongWithin(bytes, m + n)
             /\ d <= MaxFrame => Unended(bytes, m + n, d) /\ ~LongWithin(bytes, m + n)
<1> DEFINE piece == SubSeq(bytes, m + 1, m + n)
           Right(k, d) == /\ d \in Nat
                          /\ d > MaxFrame => LongWithin(bytes, m + k)
                          /\ d <= MaxFrame => Unended(bytes, m + k, d) /\ ~LongWithin(bytes, m + k)
<1>1. piece \in Seq(Byte) /\ Len(piece) = n /\ \A k \in 1 .. n : piece[k] = bytes[m + k]
  OBVIOUS
<1> HIDE DEF piece
<1>2. PICK f : /\ f[0] = c /\ Counted(c, piece) = f[n]
               /\ \A k \in 1 .. n : f[k] = Count(f[k - 1], piece[k])
  <2>1. \E f : /\ f[0] = c /\ Counted(c, piece) = f[Len(piece)]
               /\ \A k \in 1 .. Len(piece) : f[k] = Count(f[k - 1], piece[k])
    <3> HIDE DEF Right
    <3>1. piece \in Seq(Byte)
      BY <1>1
    <3>2. \A q \in Seq(Byte) : \E f : /\ f[0] = c /\ Counted(c, q) = f[Len(q)]
                                      /\ \A k \in 1 .. Len(q) : f[k] = Count(f[k - 1], q[k])
      BY CountedFrom
    <3>3. QED BY <3>1, <3>2, Zenon
  <2>2. QED BY <1>1, <2>1, Zenon
<1> DEFINE Wrong == {k \in 0 .. n : ~Right(k, f[k])}
<1>3. Wrong = {}
  <2> SUFFICES ASSUME Wrong # {} PROVE FALSE
    OBVIOUS
  <2>1. PICK k \in Wrong : \A j \in Wrong : k <= j
    <3>1. Wrong \in SUBSET Nat
      OBVIOUS
    <3> HIDE DEF Wrong
    <3>2. QED BY <3>1, LeastNumber
  <2>2. k # 0
    <3>1. Right(0, c)
      BY FramingAssumption
    <3> HIDE DEF Right
    <3>2. QED BY <1>2, <3>1
  <2>3. k \in 1 .. n /\ Right(k - 1, f[k - 1]) /\ ~Right(k, f[k])
    <3> HIDE DEF Right
    <3> QED BY <2>1, <2>2
  <2>4. f[k] = Count(f[k - 1], bytes[m + k])
    BY <1>1, <1>2, <2>3
  <2> DEFINE d == f[k - 1]
             i == m + (k - 1)
  <2>5. i \in Nat /\ i < Len(bytes) /\ i + 1 = m + k /\ m + k \in Nat
    <3>1. k \in Nat /\ k >= 1 /\ k <= n /\ Len(bytes) \in Nat
      BY <2>3
    <3>2. QED BY <3>1
  <2>6. Right(k - 1, d)
    BY <2>3
  <2> HIDE DEF d
  <2>7. CASE d > MaxFrame
    <3>1. Count(d, bytes[m + k]) = d /\ d \in Nat /\ LongWithin(bytes, i)
      BY <2>6, <2>7 DEF Count
    <3>2. LongWithin(bytes, m + k)
      BY <2>5, <3>1, LongStays
    <3>3. Right(k, d)
      BY <2>7, <3>1, <3>2, FramingAssumption
    <3> HIDE DEF Right
    <3>4. QED BY <2>3, <2>4, <3>1, <3>3 DEF d
  <2>8. CASE ~(d > MaxFrame)
    <3>1. d \in Nat /\ d <= MaxFrame /\ Unended(bytes, i, d) /\ ~LongWithin(bytes, i)
      BY <2>6, <2>8, FramingAssumption
    <3> HIDE DEF i
    <3>2. /\ Count(d, bytes[i + 1]) \in Nat
          /\ Count(d, bytes[i + 1]) > MaxFrame => LongWithin(bytes, i + 1)
          /\ Count(d, bytes[i + 1]) <= MaxFrame
               => Unended(bytes, i + 1, Count(d, bytes[i + 1])) /\ ~LongWithin(bytes, i + 1)
      BY <2>5, <3>1, CountByte
    <3>3. Right(k, Count(d, bytes[m + k]))
      BY <2>5, <3>2
    <3> HIDE DEF Right
    <3>4. QED BY <2>3, <2>4, <3>3 DEF d
  <2>9. QED BY <2>7, <2>8
<1>4. Right(n, f[n])
  BY <1>3
<1>5. QED BY <1>2, <1>4 DEF piece

(* Every step of the reader keeps its invariant. *)
LEMMA FramingStart == FramingInit => FramingInv
<1> SUFFICES ASSUME NoClient PROVE FramingInv
  BY DEF FramingInit
<1>1. sent = <<>> /\ taken = 0 /\ lineBytes = 0 /\ handed = <<>> /\ reader = "closed"
  BY DEF NoClient
<1>2. ~LongWithin(<<>>, 0)
  BY FramingAssumption DEF LongWithin
<1>3. Unended(<<>>, 0, 0)
  BY DEF Unended
<1>4. <<>> \in Seq({"byte", "end"}) /\ SubSeq(<<>>, 1, 0) = <<>> /\ Len(<<>>) = 0
  OBVIOUS
<1>5. QED BY <1>1, <1>2, <1>3, <1>4, FramingAssumption DEF FramingInv, NoClient

LEMMA FramingKeeps ==
  ASSUME FramingInv, [FramingNext]_framingVars
  PROVE  FramingInv'
<1>1. CASE NoClient /\ \E input \in Inputs : Connect(input)
  <2>1. PICK input \in Inputs : Connect(input)
    BY <1>1
  <2>2. /\ sent' = input /\ taken' = 0 /\ lineBytes' = 0 /\ handed' = <<>>
        /\ reader' = "reading" /\ input \in Seq({"byte", "end"})
    BY <1>1, <2>1, FramingAssumption DEF Connect, NoClient
  <2>3. ~LongWithin(input, 0) /\ Unended(input, 0, 0) /\ SubSeq(input, 1, 0) = <<>>
        /\ Len(input) \in Nat
    BY <2>2, FramingAssumption DEF LongWithin, Unended
  <2>4. QED BY <2>2, <2>3, FramingAssumption DEF FramingInv
<1>2. CASE \E n \in 1 .. Scratch : PollRead(n)
  <2>1. PICK n \in 1 .. Scratch : PollRead(n)
    BY <1>2
  <2> DEFINE piece == SubSeq(sent, taken + 1, taken + n)
             count == Counted(lineBytes, piece)
  <2>2. /\ n \in Nat /\ taken \in Nat /\ sent \in Seq(Byte) /\ taken + n <= Len(sent)
        /\ lineBytes \in Nat /\ lineBytes <= MaxFrame
        /\ Unended(sent, taken, lineBytes) /\ ~LongWithin(sent, taken)
        /\ handed = SubSeq(sent, 1, taken) /\ reader = "reading"
    BY <2>1, FramingAssumption DEF FramingInv, PollRead, Unended, Byte
  <2>3. /\ count \in Nat
        /\ count > MaxFrame => LongWithin(sent, taken + n)
        /\ count <= MaxFrame => /\ Unended(sent, taken + n, count)
                                /\ ~LongWithin(sent, taken + n)
    BY <2>2, CountPiece
  <2>4. /\ sent' = sent /\ taken' = taken + n /\ lineBytes' = count
        /\ count > MaxFrame => reader' = "failed" /\ handed' = handed
        /\ ~(count > MaxFrame) => handed' = handed \o piece /\ reader' = "reading"
    BY <2>1, <2>2 DEF PollRead
  <2> HIDE DEF count
  <2>5. taken + n \in 0 .. Len(sent) /\ taken \in 0 .. taken + n
    BY <2>2
  <2>6. CASE count > MaxFrame
    <3>1. \E k \in 0 .. taken + n : handed = SubSeq(sent, 1, k) /\ ~LongWithin(sent, k)
      BY <2>2, <2>5
    <3>2. QED BY <2>2, <2>3, <2>4, <2>5, <2>6, <3>1 DEF FramingInv, Byte
  <2>7. CASE ~(count > MaxFrame)
    <3>1. handed \o piece = SubSeq(sent, 1, taken + n)
      BY <2>2
    <3>2. count <= MaxFrame
      BY <2>3, <2>7, FramingAssumption
    <3> HIDE DEF piece
    <3>3. QED BY <2>2, <2>3, <2>4, <2>5, <2>7, <3>1, <3>2 DEF FramingInv, Byte
  <2>8. QED BY <2>6, <2>7
<1>3. CASE ReadEnd
  <2>1. /\ reader = "reading" /\ reader' = "ended" /\ taken = Len(sent)
        /\ sent' = sent /\ taken' = taken /\ lineBytes' = lineBytes /\ handed' = handed
    BY <1>3 DEF ReadEnd
  <2>2. QED BY <2>1 DEF FramingInv
<1>4. CASE Exit
  <2>1. FramingInit'
    BY <1>4 DEF Exit, FramingInit, NoClient
  <2>2. (FramingInit => FramingInv)'
    BY FramingStart, PTL
  <2>3. QED BY <2>1, <2>2
<1>5. CASE UNCHANGED framingVars
  <2>1. /\ sent' = sent /\ taken' = taken /\ lineBytes' = lineBytes /\ handed' = handed
        /\ reader' = reader
    BY <1>5 DEF framingVars
  <2>2. QED BY <2>1 DEF FramingInv, NoClient
<1>6. QED BY <1>1, <1>2, <1>3, <1>4, <1>5 DEF FramingNext

(* The first bytes of an input have a long line if the input has one there. *)
LEMMA LongOfPrefix ==
  ASSUME NEW bytes \in Seq(Byte), NEW n \in 0 .. Len(bytes)
  PROVE  HasLongLine(SubSeq(bytes, 1, n)) <=> LongWithin(bytes, n)
<1> DEFINE p == SubSeq(bytes, 1, n)
<1>1. Len(p) = n /\ \A j \in 1 .. n : p[j] = bytes[j]
  OBVIOUS
<1> HIDE DEF p
<1>2. \A i \in 1 .. n - MaxFrame : LongFrom(p, i) <=> LongFrom(bytes, i)
  <2> SUFFICES ASSUME NEW i \in 1 .. n - MaxFrame
               PROVE  LongFrom(p, i) <=> LongFrom(bytes, i)
    OBVIOUS
  <2>1. \A j \in i .. i + MaxFrame : j \in 1 .. n
    BY FramingAssumption
  <2>2. QED BY <1>1, <2>1 DEF LongFrom
<1>3. QED BY <1>1, <1>2 DEF HasLongLine, LongWithin, p

(* FramesAreBounded follows from the invariant. *)
LEMMA FramesOfInv == FramingInv => FramesAreBounded
<1> SUFFICES ASSUME FramingInv PROVE FramesAreBounded
  OBVIOUS
<1>1. sent \in Seq(Byte) /\ taken \in 0 .. Len(sent) /\ Len(sent) \in Nat
  BY DEF FramingInv, Byte
<1>2. PICK n \in 0 .. taken : handed = SubSeq(sent, 1, n) /\ ~LongWithin(sent, n)
  <2>1. CASE reader = "failed"
    BY <2>1 DEF FramingInv
  <2>2. CASE reader # "failed"
    <3>1. taken \in 0 .. taken
      BY <1>1
    <3>2. QED BY <2>2, <3>1 DEF FramingInv
  <2>3. QED BY <2>1, <2>2
<1>3. n \in 0 .. Len(sent)
  BY <1>1, <1>2
<1>4. ~HasLongLine(handed)
  BY <1>1, <1>2, <1>3, LongOfPrefix
<1>5. IsPrefix(handed, sent)
  BY <1>1, <1>2, <1>3 DEF IsPrefix
<1>6. reader = "ended" => handed = sent
  BY <1>1 DEF FramingInv
<1>7. reader = "failed" => HasLongLine(SubSeq(sent, 1, taken))
  BY <1>1, LongOfPrefix DEF FramingInv
<1>8. QED BY <1>4, <1>5, <1>6, <1>7 DEF FramesAreBounded

(* However the bytes of a client are cut into reads, the SDK is given no line *)
(* longer than a frame, all of an input that has none, and a read fails only  *)
(* where there is one.                                                        *)
THEOREM FramesBounded == FramingSpec => []FramesAreBounded
<1>1. FramingInv /\ [FramingNext]_framingVars => FramingInv'
  BY FramingKeeps
<1>2. QED BY <1>1, FramingStart, FramesOfInv, PTL DEF FramingSpec

-----------------------------------------------------------------------------
(* Temporal splits                                                         *)

(* A sequence with one element more.                                       *)
LEMMA ToSetAppend ==
  ASSUME NEW S, NEW s \in Seq(S), NEW x \in S
  PROVE  /\ Append(s, x) \in Seq(S)
         /\ Len(Append(s, x)) = Len(s) + 1
         /\ ToSet(Append(s, x)) = ToSet(s) \cup {x}
<1>1. Append(s, x) \in Seq(S) /\ Len(Append(s, x)) = Len(s) + 1
  OBVIOUS
<1>2. \A i \in 1 .. Len(s) : Append(s, x)[i] = s[i]
  OBVIOUS
<1>3. Append(s, x)[Len(s) + 1] = x
  OBVIOUS
<1>4. /\ DOMAIN Append(s, x) = 1 .. Len(s) + 1
      /\ DOMAIN s = 1 .. Len(s) /\ Len(s) \in Nat
  OBVIOUS
<1>5. 1 .. Len(s) + 1 = (1 .. Len(s)) \cup {Len(s) + 1}
  BY <1>4
<1>6. ToSet(Append(s, x)) \subseteq ToSet(s) \cup {x}
  BY <1>2, <1>3, <1>4, <1>5 DEF ToSet
<1>7. ToSet(s) \subseteq ToSet(Append(s, x))
  BY <1>2, <1>4, <1>5 DEF ToSet
<1>8. x \in ToSet(Append(s, x))
  BY <1>3, <1>4 DEF ToSet
<1>9. QED
  BY <1>1, <1>6, <1>7, <1>8

(* A sample taken by time stays sorted when the next one is added. *)
LEMMA SortedAppend ==
  ASSUME NEW s \in Seq(TimedLabel), NEW o \in TimedLabel, Sorted(s),
         \A q \in ToSet(s) : Sooner(q, o)
  PROVE  Sorted(Append(s, o))
<1> SUFFICES ASSUME NEW i \in DOMAIN Append(s, o), NEW j \in DOMAIN Append(s, o), i < j
             PROVE  Sooner(Append(s, o)[i], Append(s, o)[j])
  BY DEF Sorted
<1>1. /\ i \in 1 .. Len(s) /\ Append(s, o)[i] = s[i]
      /\ i \in DOMAIN s
  OBVIOUS
<1>2. CASE j = Len(s) + 1
  <2>1. s[i] \in ToSet(s) /\ Append(s, o)[j] = o
    BY <1>1, <1>2 DEF ToSet
  <2>2. QED
    BY <1>1, <2>1
<1>3. CASE j # Len(s) + 1
  <2>1. j \in DOMAIN s /\ Append(s, o)[j] = s[j]
    BY <1>3
  <2>2. QED
    BY <1>1, <2>1 DEF Sorted
<1>4. QED
  BY <1>2, <1>3

(* What a request that passed the checks is. *)
LEMMA Accepted ==
  ASSUME NEW req \in Splits, Verdict(req) = "Ok"
  PROVE  /\ req.labels \in Seq(TimedLabel) /\ req.folds \in Seq(FoldWindow)
         /\ req.gap \in Int /\ req.gap >= 0 /\ req.cutoff \in Int
         /\ Len(req.folds) >= 1
         /\ \A k \in DOMAIN req.folds : FoldOk(req.folds[k], req.gap)
         /\ \A o \in ToSet(req.labels) : o \in TimedLabel /\ LabelOk(o)
         /\ \A i, j \in DOMAIN req.labels : req.labels[i] = req.labels[j] => i = j
<1>1. /\ req.labels \in Seq(TimedLabel) /\ req.folds \in Seq(FoldWindow)
      /\ req.gap \in Int /\ req.cutoff \in Int /\ req.minimum \in Int
  BY SplitAssumption
<1> DEFINE n   == Len(req.labels)
           m   == Len(req.folds)
           bad == {i \in 1 .. n : Repeats(req.labels, i) \/ ~LabelOk(req.labels[i])}
<1>2. /\ n \in Nat /\ m \in Nat
      /\ DOMAIN req.labels = 1 .. n /\ DOMAIN req.folds = 1 .. m
  BY <1>1
<1> DEFINE early == ~(0 < req.cutoff /\ req.cutoff <= req.asOf)
           wrong == req.gap < 0 \/ req.minimum \notin 1 .. MaxLabels
           many  == m \notin 1 .. MaxFolds \/ n \notin 1 .. MaxLabels
           apart == \/ \E k \in 1 .. m : ~FoldOk(req.folds[k], req.gap)
                    \/ \E k \in 1 .. m - 1 : ~Advances(req.folds[k], req.folds[k + 1])
           twice == \E i \in bad : Repeats(req.labels, i) /\ \A j \in bad : i <= j
           heavy == n * m * 8 > MaxSplitWork \/ m * (n + 64) > MaxSplitValues
<1>a. Verdict(req) = IF early THEN "InvalidTime"
                     ELSE IF wrong THEN "InvalidParameter"
                     ELSE IF many THEN "LimitExceeded"
                     ELSE IF apart THEN "InvalidTime"
                     ELSE IF twice THEN "DuplicateSample"
                     ELSE IF bad # {} THEN "InvalidTime"
                     ELSE IF heavy THEN "LimitExceeded"
                     ELSE "Ok"
  BY Zenon DEF Verdict
<1>b. ~wrong /\ ~many /\ ~apart /\ bad = {}
  <2> HIDE DEF early, wrong, many, apart, twice, heavy, bad
  <2>1. QED
    BY <1>a
<1>3. /\ req.gap >= 0 /\ m \in 1 .. MaxFolds
      /\ \A k \in 1 .. m : FoldOk(req.folds[k], req.gap)
      /\ bad = {}
  BY <1>1, <1>b
<1>4. \A i \in 1 .. n : ~Repeats(req.labels, i) /\ LabelOk(req.labels[i])
  BY <1>3
<1>5. \A o \in ToSet(req.labels) : o \in TimedLabel /\ LabelOk(o)
  BY <1>1, <1>2, <1>4 DEF ToSet
<1>6. \A i, j \in 1 .. n : req.labels[i] = req.labels[j] => i = j
  <2> SUFFICES ASSUME NEW i \in 1 .. n, NEW j \in 1 .. n,
                      req.labels[i] = req.labels[j], i # j
               PROVE  FALSE
    OBVIOUS
  <2>1. CASE i < j
    BY <2>1, <1>2, <1>4 DEF Repeats
  <2>2. CASE j < i
    BY <2>2, <1>2, <1>4 DEF Repeats
  <2>3. QED
    BY <2>1, <2>2, <1>2
<1>7. QED
  BY <1>1, <1>2, <1>3, <1>5, <1>6

(* The loop begins with as many observations as the request has. *)
LEMMA Countable ==
  ASSUME NEW req \in Splits, Verdict(req) = "Ok"
  PROVE  /\ IsFiniteSet(ToSet(req.labels))
         /\ Cardinality(ToSet(req.labels)) = Len(req.labels)
<1> DEFINE s == req.labels
           n == Len(s)
<1>1. s \in Seq(TimedLabel) /\ \A i, j \in DOMAIN s : s[i] = s[j] => i = j
  BY Accepted
<1>2. n \in Nat /\ DOMAIN s = 1 .. n /\ s \in [1 .. n -> TimedLabel]
  BY <1>1
<1>3. s \in Bijection(1 .. n, ToSet(s))
  BY <1>1, <1>2 DEF Bijection, Injection, Surjection, IsInjective, ToSet
<1>4. ExistsBijection(1 .. n, ToSet(s))
  BY <1>3 DEF ExistsBijection
<1>5. IsFiniteSet(1 .. n)
  BY <1>2, FS_Interval
<1>6. QED
  BY <1>2, <1>4, <1>5, FS_Bijection, FS_CountingElements

(* An observation is selected for a role exactly when the windows declare it *)
(* to have it: there is no third case.                                       *)
LEMMA Classified ==
  ASSUME NEW req \in Splits, Verdict(req) = "Ok",
         NEW f, f \in FoldWindow, FoldOk(f, req.gap),
         NEW o \in ToSet(req.labels), NEW r \in Roles
  PROVE  o \in Declared(req, f, r) <=> Exclusion(o, f, req) = "selected" /\ RoleOf(o, f) = r
<1>1. /\ o \in TimedLabel /\ LabelOk(o) /\ req.gap \in Int /\ req.gap >= 0 /\ req.cutoff \in Int
  BY Accepted
<1>2. /\ o.at \in Int /\ o.end \in Int /\ o.available \in Int
      /\ f.start \in Int /\ f.train \in Int /\ f.calibration \in Int /\ f.validation \in Int
  BY <1>1 DEF TimedLabel, FoldWindow
<1>3. CASE r = "train"
  BY <1>1, <1>2, <1>3 DEF Declared, Exclusion, RoleOf, KnownBefore, LabelOk, FoldOk
<1>4. CASE r = "calibration"
  BY <1>1, <1>2, <1>4 DEF Declared, Exclusion, RoleOf, KnownBefore, LabelOk, FoldOk
<1>5. CASE r = "validation"
  BY <1>1, <1>2, <1>5 DEF Declared, Exclusion, RoleOf, KnownBefore, LabelOk, FoldOk
<1>6. QED
  BY <1>3, <1>4, <1>5 DEF Roles

(* Before its first observation a fold has selected nothing. *)
LEMMA FoldBegins ==
  ASSUME NEW req \in Splits, Verdict(req) = "Ok", NEW f
  PROVE  LET rows == [r \in Roles |-> <<>>]
             out  == [r \in Reasons |-> 0]
         IN  /\ rows \in Rows /\ out \in Excluded
             /\ Partial(req, f, rows, out, ToSet(req.labels))
<1> DEFINE rows == [r \in Roles |-> <<>>]
           out  == [r \in Reasons |-> 0]
<1>1. rows \in Rows /\ out \in Excluded
  BY DEF Rows, Excluded
<1>2. \A r \in Roles : rows[r] = <<>>
  OBVIOUS
<1>3. \A r \in Roles : /\ ToSet(rows[r]) = {}
                       /\ Sorted(rows[r])
  BY <1>2 DEF ToSet, Sorted
<1>4. \A r \in Roles : Declared(req, f, r) \ ToSet(req.labels) = {}
  BY DEF Declared
<1>5. Tally(rows, out) = 0
  BY DEF Tally, Roles, Reasons
<1>6. req.labels \in Seq(TimedLabel)
  BY Accepted
<1>7. Tally(rows, out) + Cardinality(ToSet(req.labels)) = Len(req.labels)
  BY <1>5, <1>6, Countable
<1>8. QED
  BY <1>1, <1>3, <1>4, <1>7 DEF Partial

(* A fold counts to a natural number. *)
LEMMA TallyType ==
  ASSUME NEW rows \in Rows, NEW out \in Excluded
  PROVE  Tally(rows, out) \in Nat
<1> DEFINE a == Len(rows["train"])
           b == Len(rows["calibration"])
           c == Len(rows["validation"])
           d == out["outside"]
           e == out["unavailable"]
           g == out["boundary"]
<1>1. /\ a \in Nat /\ b \in Nat /\ c \in Nat
      /\ d \in Nat /\ e \in Nat /\ g \in Nat
  BY DEF Rows, Excluded, Roles, Reasons
<1>2. Tally(rows, out) = a + b + c + d + e + g
  BY Zenon DEF Tally
<1> HIDE DEF a, b, c, d, e, g
<1>3. QED
  BY <1>1, <1>2

(* One round of the loop adds the soonest observation to its sample, or to   *)
(* the count of its reason.                                                  *)
LEMMA RoundSorts ==
  ASSUME NEW req \in Splits, Verdict(req) = "Ok",
         NEW f, f \in FoldWindow, FoldOk(f, req.gap),
         NEW rows \in Rows, NEW out \in Excluded,
         NEW rest \in SUBSET ToSet(req.labels), NEW o \in rest,
         \A q \in rest \ {o} : Sooner(o, q),
         Partial(req, f, rows, out, rest)
  PROVE  LET why  == Exclusion(o, f, req)
             role == RoleOf(o, f)
             more == [rows EXCEPT ![role] = Append(@, o)]
             left == [out EXCEPT ![why] = @ + 1]
         IN  /\ why = "selected" => /\ more \in Rows
                                    /\ Partial(req, f, more, out, rest \ {o})
             /\ why # "selected" => /\ left \in Excluded
                                    /\ Partial(req, f, rows, left, rest \ {o})
<1> DEFINE why  == Exclusion(o, f, req)
           role == RoleOf(o, f)
           more == [rows EXCEPT ![role] = Append(@, o)]
           left == [out EXCEPT ![why] = @ + 1]
           a == Len(rows["train"])
           b == Len(rows["calibration"])
           c == Len(rows["validation"])
           d == out["outside"]
           e == out["unavailable"]
           g == out["boundary"]
<1>1. /\ o \in TimedLabel /\ role \in Roles
      /\ req.labels \in Seq(TimedLabel)
      /\ \A r \in Roles : rows[r] \in Seq(TimedLabel) /\ Len(rows[r]) \in Nat
      /\ \A r \in Reasons : out[r] \in Nat
  BY Accepted DEF RoleOf, Roles, Rows, Excluded
<1>2. /\ Cardinality(rest) \in Nat
      /\ Cardinality(rest \ {o}) = Cardinality(rest) - 1
  BY Countable, FS_Subset, FS_RemoveElement, FS_CardinalityType
<1>3. \A r \in Roles : o \in Declared(req, f, r) <=> why = "selected" /\ role = r
  BY Classified
<1>4. \A r \in Roles : \A q \in ToSet(rows[r]) : Sooner(q, o)
  BY DEF Partial
<1>5. /\ a \in Nat /\ b \in Nat /\ c \in Nat
      /\ d \in Nat /\ e \in Nat /\ g \in Nat
  BY <1>1 DEF Reasons, Roles
<1>6. Tally(rows, out) = a + b + c + d + e + g
  BY Zenon DEF Tally
<1>7. Tally(rows, out) \in Nat
  BY TallyType
<1>8. ASSUME why = "selected"
      PROVE  more \in Rows /\ Partial(req, f, more, out, rest \ {o})
  <2>1. /\ more \in Rows
        /\ more[role] = Append(rows[role], o)
        /\ \A r \in Roles : r # role => more[r] = rows[r]
    BY <1>1, ToSetAppend DEF Rows
  <2>2. /\ ToSet(more[role]) = ToSet(rows[role]) \cup {o}
        /\ Len(more[role]) = Len(rows[role]) + 1
        /\ Sorted(more[role])
    <3>1. Sorted(rows[role])
      BY <1>1 DEF Partial
    <3>2. QED
      BY <1>1, <1>4, <2>1, <3>1, ToSetAppend, SortedAppend
  <2>3. \A r \in Roles : /\ ToSet(more[r]) = Declared(req, f, r) \ (rest \ {o})
                         /\ Sorted(more[r])
                         /\ \A p \in ToSet(more[r]), q \in rest \ {o} : Sooner(p, q)
    <3> SUFFICES ASSUME NEW r \in Roles
                 PROVE  /\ ToSet(more[r]) = Declared(req, f, r) \ (rest \ {o})
                        /\ Sorted(more[r])
                        /\ \A p \in ToSet(more[r]), q \in rest \ {o} : Sooner(p, q)
      OBVIOUS
    <3>1. /\ ToSet(rows[r]) = Declared(req, f, r) \ rest
          /\ Sorted(rows[r])
          /\ \A p \in ToSet(rows[r]), q \in rest : Sooner(p, q)
      BY DEF Partial
    <3> HIDE DEF more, why, role
    <3>2. CASE r = role
      BY <1>3, <1>8, <2>2, <3>1, <3>2
    <3>3. CASE r # role
      BY <1>3, <1>8, <2>1, <3>1, <3>3
    <3>4. QED
      BY <3>2, <3>3
  <2>4. Tally(more, out) = Tally(rows, out) + 1
    <3>1. CASE role = "train"
      <4>1. /\ Len(more["train"]) = a + 1
            /\ Len(more["calibration"]) = b
            /\ Len(more["validation"]) = c
        BY <2>1, <2>2, <3>1 DEF Roles
      <4>2. Tally(more, out) = (a + 1) + b + c + d + e + g
        BY <4>1, Zenon DEF Tally
      <4> HIDE DEF a, b, c, d, e, g, more, left
      <4>3. QED
        BY <1>5, <1>6, <4>2
    <3>2. CASE role = "calibration"
      <4>1. /\ Len(more["train"]) = a
            /\ Len(more["calibration"]) = b + 1
            /\ Len(more["validation"]) = c
        BY <2>1, <2>2, <3>2 DEF Roles
      <4>2. Tally(more, out) = a + (b + 1) + c + d + e + g
        BY <4>1, Zenon DEF Tally
      <4> HIDE DEF a, b, c, d, e, g, more, left
      <4>3. QED
        BY <1>5, <1>6, <4>2
    <3>3. CASE role = "validation"
      <4>1. /\ Len(more["train"]) = a
            /\ Len(more["calibration"]) = b
            /\ Len(more["validation"]) = c + 1
        BY <2>1, <2>2, <3>3 DEF Roles
      <4>2. Tally(more, out) = a + b + (c + 1) + d + e + g
        BY <4>1, Zenon DEF Tally
      <4> HIDE DEF a, b, c, d, e, g, more, left
      <4>3. QED
        BY <1>5, <1>6, <4>2
    <3>4. QED
      BY <1>1, <3>1, <3>2, <3>3 DEF Roles
  <2>5. Tally(rows, out) + Cardinality(rest) = Len(req.labels)
    BY DEF Partial
  <2>6. Tally(more, out) + Cardinality(rest \ {o}) = Len(req.labels)
    <3> HIDE DEF more
    <3>1. QED
      BY <1>2, <1>7, <2>4, <2>5
  <2>7. QED
    BY <2>1, <2>3, <2>6 DEF Partial
<1>9. ASSUME why # "selected"
      PROVE  left \in Excluded /\ Partial(req, f, rows, left, rest \ {o})
  <2>1. why \in Reasons
    BY <1>9 DEF Exclusion, Reasons
  <2>2. /\ left \in Excluded /\ left[why] = out[why] + 1
        /\ \A r \in Reasons : r # why => left[r] = out[r]
    <3> HIDE DEF why
    <3>1. QED
      BY <1>1, <2>1 DEF Excluded
  <2>3. Tally(rows, left) = Tally(rows, out) + 1
    <3>1. CASE why = "outside"
      <4>1. /\ left["outside"] = d + 1
            /\ left["unavailable"] = e
            /\ left["boundary"] = g
        BY <2>2, <3>1 DEF Reasons
      <4>2. Tally(rows, left) = a + b + c + (d + 1) + e + g
        BY <4>1, Zenon DEF Tally
      <4> HIDE DEF a, b, c, d, e, g, more, left
      <4>3. QED
        BY <1>5, <1>6, <4>2
    <3>2. CASE why = "unavailable"
      <4>1. /\ left["outside"] = d
            /\ left["unavailable"] = e + 1
            /\ left["boundary"] = g
        BY <2>2, <3>2 DEF Reasons
      <4>2. Tally(rows, left) = a + b + c + d + (e + 1) + g
        BY <4>1, Zenon DEF Tally
      <4> HIDE DEF a, b, c, d, e, g, more, left
      <4>3. QED
        BY <1>5, <1>6, <4>2
    <3>3. CASE why = "boundary"
      <4>1. /\ left["outside"] = d
            /\ left["unavailable"] = e
            /\ left["boundary"] = g + 1
        BY <2>2, <3>3 DEF Reasons
      <4>2. Tally(rows, left) = a + b + c + d + e + (g + 1)
        BY <4>1, Zenon DEF Tally
      <4> HIDE DEF a, b, c, d, e, g, more, left
      <4>3. QED
        BY <1>5, <1>6, <4>2
    <3>4. QED
      BY <2>1, <3>1, <3>2, <3>3 DEF Reasons
  <2>4. Tally(rows, out) + Cardinality(rest) = Len(req.labels)
    BY DEF Partial
  <2>5. Tally(rows, left) + Cardinality(rest \ {o}) = Len(req.labels)
    <3> HIDE DEF left
    <3>1. QED
      BY <1>2, <1>7, <2>3, <2>4
  <2>6. \A r \in Roles : /\ ToSet(rows[r]) = Declared(req, f, r) \ (rest \ {o})
                         /\ Sorted(rows[r])
                         /\ \A p \in ToSet(rows[r]), q \in rest \ {o} : Sooner(p, q)
    <3> HIDE DEF why, role
    <3>1. QED
      BY <1>3, <1>9 DEF Partial
  <2>7. QED
    BY <2>2, <2>5, <2>6 DEF Partial
<1>10. QED
  BY <1>8, <1>9

(* A fold begins in order, whichever fold it is. *)
LEMMA FoldBegun ==
  ASSUME NEW req \in Splits, Verdict(req) = "Ok", NEW k \in DOMAIN req.folds,
         NEW done \in Seq(Result), Whole(req, done), Len(done) = k - 1,
         splitting' = NewFold(req, k, done)
  PROVE  SplittingOK'
<1> DEFINE rows == [r \in Roles |-> <<>>]
           out  == [r \in Reasons |-> 0]
<1>1. /\ req.folds \in Seq(FoldWindow) /\ k \in Nat
      /\ ToSet(req.labels) \subseteq TimedLabel
  BY Accepted
<1>2. /\ rows \in Rows /\ out \in Excluded
      /\ Partial(req, req.folds[k], rows, out, ToSet(req.labels))
  BY FoldBegins
<1>3. splitting' = [pc |-> "fold", req |-> req, fold |-> k, rest |-> ToSet(req.labels),
                    rows |-> rows, excluded |-> out, done |-> done]
  BY DEF NewFold
<1> HIDE DEF rows, out
<1>4. splitting' \in [pc: {"fold"}, req: Splits, fold: Nat, rest: SUBSET TimedLabel,
                      rows: Rows, excluded: Excluded, done: Seq(Result)]
  BY <1>1, <1>2, <1>3
<1>5. /\ splitting'.req = req /\ splitting'.fold = k /\ splitting'.rest = ToSet(req.labels)
      /\ splitting'.rows = rows /\ splitting'.excluded = out /\ splitting'.done = done
  BY <1>3
<1>6. QED
  BY <1>2, <1>4, <1>5 DEF SplittingOK, CurrentFold

(* A fold that ends is a whole result after the ones before it. *)
LEMMA FoldEnded ==
  ASSUME SplittingOK, splitting.rest = {}
  PROVE  LET done == Append(splitting.done, FoldResult)
         IN  /\ done \in Seq(Result) /\ Len(done) = splitting.fold
             /\ Whole(splitting.req, done)
<1> DEFINE req  == splitting.req
           old  == splitting.done
           done == Append(old, FoldResult)
           k    == splitting.fold
<1>1. /\ req \in Splits /\ k \in Nat /\ k \in DOMAIN req.folds
      /\ old \in Seq(Result) /\ Len(old) = k - 1 /\ Verdict(req) = "Ok"
      /\ splitting.rows \in Rows /\ splitting.excluded \in Excluded
  BY DEF SplittingOK
<1>2. req.folds \in Seq(FoldWindow) /\ req.folds[k] \in FoldWindow
  BY <1>1, Accepted
<1>3. FoldResult \in Result
  BY <1>1, <1>2 DEF FoldResult, Result, CurrentFold
<1>4. /\ done \in Seq(Result) /\ Len(done) = k
      /\ DOMAIN done = 1 .. k
      /\ done[k] = FoldResult
      /\ \A i \in 1 .. k - 1 : i \in DOMAIN old /\ done[i] = old[i]
  <2> HIDE DEF req, old, k
  <2>1. QED
    BY <1>1, <1>3
<1>5. /\ FoldResult.window = req.folds[k]
      /\ Partial(req, req.folds[k], FoldResult.rows, FoldResult.excluded, {})
  BY DEF FoldResult, CurrentFold, SplittingOK
<1>6. k <= Len(req.folds)
  BY <1>1, <1>2
<1>7. ASSUME NEW i \in DOMAIN done
      PROVE  /\ done[i].window = req.folds[i]
             /\ Partial(req, req.folds[i], done[i].rows, done[i].excluded, {})
  <2>1. CASE i = k
    BY <1>4, <1>5, <2>1
  <2>2. CASE i # k
    <3>1. i \in 1 .. k - 1
      BY <1>1, <1>4, <2>2
    <3>2. Whole(req, old)
      BY DEF SplittingOK
    <3>3. QED
      BY <1>4, <3>1, <3>2 DEF Whole
  <2>3. QED
    BY <2>1, <2>2
<1>8. Whole(req, done)
  <2> HIDE DEF done
  <2>1. QED
    BY <1>4, <1>6, <1>7 DEF Whole
<1>9. QED
  BY <1>4, <1>8

(* Between any two rounds of the loops of temporal::calculate every fold that *)
(* ended is whole, and the one at work has sorted what it looked at.          *)
THEOREM SplitInvariance == SplitSpec => []SplitInv
<1>1. SplitInit => SplitInv
  BY DEF SplitInit, NothingToSplit, NoPlan, SplitInv
<1>2. ASSUME SplitInv, [SplitNext]_splitVars
      PROVE  SplitInv'
  <2>1. ASSUME NEW req \in Splits, SplitBegin(req)
        PROVE  SplitInv'
    <3>1. CASE Verdict(req) = "Ok"
      <4>1. splitting' = NewFold(req, 1, <<>>) /\ plan' = plan
        BY <2>1, <3>1 DEF SplitBegin
      <4>2. 1 \in DOMAIN req.folds
        BY <3>1, Accepted
      <4>3. <<>> \in Seq(Result) /\ Whole(req, <<>>) /\ Len(<<>>) = 1 - 1
        <5>1. req.folds \in Seq(FoldWindow)
          BY <3>1, Accepted
        <5>2. QED
          BY <5>1 DEF Whole
      <4>4. SplittingOK'
        BY <3>1, <4>1, <4>2, <4>3, FoldBegun
      <4>5. QED
        BY <1>2, <4>1, <4>4 DEF SplitInv, PlanOK
    <3>2. CASE Verdict(req) # "Ok"
      <4>1. plan'.folds = <<>> /\ splitting' = splitting
        BY <2>1, <3>2 DEF SplitBegin, NoPlan
      <4>2. splitting' = NoSplit
        BY <2>1, <4>1 DEF SplitBegin, NothingToSplit
      <4>3. QED
        BY <4>1, <4>2 DEF SplitInv
    <3>3. QED
      BY <3>1, <3>2
  <2>2. CASE Observe
    <3>1. SplittingOK
      BY <1>2, <2>2 DEF Observe, SplitInv, NoSplit
    <3> DEFINE req == splitting.req
               f   == CurrentFold
    <3>2. PICK o \in splitting.rest :
            /\ \A q \in splitting.rest \ {o} : Sooner(o, q)
            /\ LET why == Exclusion(o, f, req)
               IN  splitting' =
                     IF why = "selected"
                     THEN [splitting EXCEPT !.rest = @ \ {o},
                             !.rows[RoleOf(o, f)] = Append(@, o)]
                     ELSE [splitting EXCEPT !.rest = @ \ {o}, !.excluded[why] = @ + 1]
      BY <2>2 DEF Observe
    <3> DEFINE why  == Exclusion(o, f, req)
               role == RoleOf(o, f)
               more == [splitting.rows EXCEPT ![role] = Append(@, o)]
               left == [splitting.excluded EXCEPT ![why] = @ + 1]
    <3>3. /\ splitting \in [pc: {"fold"}, req: Splits, fold: Nat, rest: SUBSET TimedLabel,
                            rows: Rows, excluded: Excluded, done: Seq(Result)]
          /\ req \in Splits /\ Verdict(req) = "Ok"
          /\ splitting.fold \in DOMAIN req.folds
          /\ splitting.rest \in SUBSET ToSet(req.labels)
          /\ Partial(req, f, splitting.rows, splitting.excluded, splitting.rest)
      BY <3>1 DEF SplittingOK
    <3>4. f \in FoldWindow /\ FoldOk(f, req.gap)
      BY <3>3, Accepted DEF CurrentFold
    <3>5. /\ why = "selected" => /\ more \in Rows
                                 /\ Partial(req, f, more, splitting.excluded, splitting.rest \ {o})
          /\ why # "selected" => /\ left \in Excluded
                                 /\ Partial(req, f, splitting.rows, left, splitting.rest \ {o})
      BY <3>2, <3>3, <3>4, RoundSorts
    <3>6. CASE why = "selected"
      <4>1. splitting' = [splitting EXCEPT !.rest = @ \ {o}, !.rows = more]
        BY <3>2, <3>6
      <4> HIDE DEF more, left, why, role
      <4>2. QED
        BY <1>2, <2>2, <3>1, <3>3, <3>5, <3>6, <4>1
        DEF SplitInv, SplittingOK, PlanOK, Observe, CurrentFold
    <3>7. CASE why # "selected"
      <4>1. splitting' = [splitting EXCEPT !.rest = @ \ {o}, !.excluded = left]
        BY <3>2, <3>7
      <4> HIDE DEF more, left, why, role
      <4>2. QED
        BY <1>2, <2>2, <3>1, <3>3, <3>5, <3>7, <4>1
        DEF SplitInv, SplittingOK, PlanOK, Observe, CurrentFold
    <3>8. QED
      BY <3>6, <3>7
  <2>3. CASE FoldEnds
    <3>1. SplittingOK /\ splitting.rest = {}
      BY <1>2, <2>3 DEF FoldEnds, SplitInv, NoSplit
    <3> DEFINE req  == splitting.req
               done == Append(splitting.done, FoldResult)
    <3>2. done \in Seq(Result) /\ Len(done) = splitting.fold /\ Whole(req, done)
      BY <3>1, FoldEnded
    <3>3. /\ req \in Splits /\ Verdict(req) = "Ok"
          /\ splitting.fold \in Nat /\ splitting.fold \in DOMAIN req.folds
      BY <3>1 DEF SplittingOK
    <3>4. req.folds \in Seq(FoldWindow)
      BY <3>3, Accepted
    <3>5. CASE splitting.fold < Len(req.folds)
      <4>1. splitting' = NewFold(req, splitting.fold + 1, done) /\ plan' = plan
        BY <2>3, <3>5 DEF FoldEnds
      <4>2. /\ splitting.fold + 1 \in DOMAIN req.folds
            /\ splitting.fold = (splitting.fold + 1) - 1
        BY <3>3, <3>4, <3>5
      <4>3. SplittingOK'
        BY <3>2, <3>3, <4>1, <4>2, FoldBegun
      <4>4. QED
        BY <1>2, <4>1, <4>3 DEF SplitInv, PlanOK
    <3>6. CASE ~(splitting.fold < Len(req.folds))
      <4>1. splitting' = NoSplit /\ plan' = [code |-> "Ok", req |-> req, folds |-> done]
        BY <2>3, <3>6 DEF FoldEnds
      <4>2. PlanOK'
        BY <3>2, <3>3, <4>1 DEF PlanOK
      <4>3. QED
        BY <4>1, <4>2 DEF SplitInv
    <3>7. QED
      BY <3>5, <3>6
  <2>4. CASE SplitStop
    BY <2>4 DEF SplitStop, NoPlan, SplitInv
  <2>5. CASE SplitReturn
    BY <1>2, <2>5 DEF SplitReturn, NoPlan, SplitInv, SplittingOK, CurrentFold
  <2>6. CASE UNCHANGED splitVars
    BY <1>2, <2>6 DEF splitVars, SplitInv, SplittingOK, PlanOK, CurrentFold
  <2>7. QED
    BY <1>2, <2>1, <2>2, <2>3, <2>4, <2>5, <2>6 DEF SplitNext
<1>3. QED
  BY <1>1, <1>2, PTL DEF SplitSpec

(* Every observation of a request is in one place of each fold of its answer. *)
THEOREM NoneIsLost == SplitSpec => []EveryLabelOnce
<1>1. SplitInv => EveryLabelOnce
  <2> SUFFICES ASSUME SplitInv, NEW k \in DOMAIN plan.folds
               PROVE  LET rows == plan.folds[k].rows
                      IN  /\ \A r \in Roles :
                               /\ ToSet(rows[r]) = Declared(plan.req, plan.folds[k].window, r)
                               /\ Sorted(rows[r])
                          /\ Tally(rows, plan.folds[k].excluded) = Len(plan.req.labels)
    BY DEF EveryLabelOnce
  <2>1. PlanOK
    BY DEF SplitInv
  <2>2. plan.folds[k].rows \in Rows /\ plan.folds[k].excluded \in Excluded
    <3>1. plan.folds[k] \in Result
      BY <2>1 DEF PlanOK
    <3>2. QED
      BY <3>1 DEF Result
  <2>3. /\ plan.folds[k].window = plan.req.folds[k]
        /\ Partial(plan.req, plan.req.folds[k], plan.folds[k].rows, plan.folds[k].excluded, {})
    BY <2>1 DEF PlanOK, Whole
  <2> DEFINE rows == plan.folds[k].rows
             t    == Tally(rows, plan.folds[k].excluded)
  <2>4. t \in Nat
    BY <2>2, TallyType
  <2>5. t + Cardinality({}) = Len(plan.req.labels)
    BY <2>3 DEF Partial
  <2>6. t = Len(plan.req.labels)
    <3> HIDE DEF t
    <3>1. QED
      BY <2>4, <2>5, FS_EmptySet
  <2>7. QED
    BY <2>3, <2>6 DEF Partial
<1>2. QED
  BY <1>1, SplitInvariance, PTL

(* No fold of an answer trains on a label that was not yet known when the    *)
(* first sample of a later role was predicted.                               *)
THEOREM LabelsDoNotLeak == SplitSpec => []NoLeakage
<1>1. SplitInv => NoLeakage
  <2> SUFFICES ASSUME SplitInv, NEW k \in DOMAIN plan.folds
               PROVE  LET rows == plan.folds[k].rows
                          gap  == plan.req.gap
                      IN  /\ Precedes(rows["train"], rows["calibration"], gap)
                          /\ Precedes(rows["train"], rows["validation"], gap)
                          /\ Precedes(rows["calibration"], rows["validation"], gap)
                          /\ \A r \in Roles : \A o \in ToSet(rows[r]) :
                               o.available <= plan.req.cutoff
    BY DEF NoLeakage
  <2> DEFINE req  == plan.req
             f    == plan.req.folds[k]
             rows == plan.folds[k].rows
  <2>1. /\ PlanOK /\ req \in Splits /\ Verdict(req) = "Ok" /\ k \in DOMAIN req.folds
        /\ \A r \in Roles : ToSet(rows[r]) = Declared(req, f, r)
    <3>1. PlanOK
      BY DEF SplitInv
    <3>2. req.folds \in Seq(FoldWindow) /\ plan.folds \in Seq(Result)
      BY <3>1, Accepted DEF PlanOK
    <3>3. QED
      BY <3>1, <3>2 DEF PlanOK, Whole, Partial
  <2>2. /\ f \in FoldWindow /\ FoldOk(f, req.gap) /\ req.gap \in Int /\ req.gap >= 0
        /\ \A o \in ToSet(req.labels) : o \in TimedLabel
    BY <2>1, Accepted
  <2>3. ASSUME NEW r \in Roles, NEW o \in ToSet(rows[r])
        PROVE  /\ o \in TimedLabel /\ o \in Declared(req, f, r)
               /\ o.available <= req.cutoff
    BY <2>1, <2>2 DEF Declared
  <2>4. ASSUME NEW o \in Declared(req, f, "train"), NEW q \in Declared(req, f, "calibration"),
               o \in TimedLabel, q \in TimedLabel
        PROVE  o.available + req.gap < q.at
    BY <2>2, <2>4 DEF Declared, TimedLabel, FoldWindow
  <2>5. ASSUME NEW o \in Declared(req, f, "train"), NEW q \in Declared(req, f, "validation"),
               o \in TimedLabel, q \in TimedLabel
        PROVE  o.available + req.gap < q.at
    BY <2>2, <2>5 DEF Declared, TimedLabel, FoldWindow, FoldOk
  <2>6. ASSUME NEW o \in Declared(req, f, "calibration"), NEW q \in Declared(req, f, "validation"),
               o \in TimedLabel, q \in TimedLabel
        PROVE  o.available + req.gap < q.at
    BY <2>2, <2>6 DEF Declared, TimedLabel, FoldWindow
  <2> HIDE DEF req, f, rows
  <2>7. /\ Precedes(rows["train"], rows["calibration"], req.gap)
        /\ Precedes(rows["train"], rows["validation"], req.gap)
        /\ Precedes(rows["calibration"], rows["validation"], req.gap)
    BY <2>3, <2>4, <2>5, <2>6 DEF Precedes, Roles
  <2>8. QED
    BY <2>3, <2>7 DEF req, rows
<1>2. QED
  BY <1>1, SplitInvariance, PTL

-----------------------------------------------------------------------------
(* Event samples                                                           *)

(* The items of a request that is allowed are different ones, each with an *)
(* interval that begins after 0 and ends by the time it is available.      *)
LEMMA ItemsOfAllowed ==
  ASSUME NEW req \in Estimates, EstimateVerdict(req) = "Ok"
  PROVE  /\ req.items \in Seq(Item) /\ Len(req.items) <= MaxItems /\ req.cutoff <= req.asOf
         /\ \A i, j \in DOMAIN req.items : i # j => req.items[i] # req.items[j]
         /\ \A e \in ToSet(req.items) : /\ e \in Item
                                        /\ e.start < e.end /\ e.end <= e.available
                                        /\ req.kind = "probability" => 0 < e.start
         /\ req.kind = "calibration" => 0 < req.from
<1>1. /\ req.items \in Seq(Item) /\ req.kind \in {"probability", "calibration"}
      /\ {req.asOf, req.cutoff, req.horizon, req.from, req.to} \subseteq Int
      /\ Len(req.items) \in Nat /\ MaxItems \in Nat
  BY EstimateAssumption
<1>2. /\ req.cutoff <= req.asOf /\ ~(Len(req.items) > MaxItems)
      /\ req.kind = "calibration" => WindowOk(req)
      /\ ItemsVerdict(req) = "Ok"
  <2> HIDE DEF WindowOk, ItemsVerdict
  <2> QED BY DEF EstimateVerdict
<1>3. \A i \in DOMAIN req.items :
        /\ ~Repeated(req.items, i)
        /\ IF req.kind = "probability" THEN EventOk(req.items[i]) ELSE ForecastOk(req, i)
  BY <1>2 DEF ItemsVerdict
<1>4. \A i, j \in DOMAIN req.items : i # j => req.items[i] # req.items[j]
  <2> SUFFICES ASSUME NEW i \in DOMAIN req.items, NEW j \in DOMAIN req.items, i < j
               PROVE  req.items[i] # req.items[j]
    BY <1>1
  <2>1. i \in 1 .. j - 1
    BY <1>1
  <2>2. QED BY <1>3, <2>1 DEF Repeated
<1>5. \A i \in DOMAIN req.items :
        LET e == req.items[i]
        IN  /\ e \in Item /\ e.start < e.end /\ e.end <= e.available
            /\ req.kind = "probability" => 0 < e.start
  <2> SUFFICES ASSUME NEW i \in DOMAIN req.items
               PROVE  LET e == req.items[i]
                      IN  /\ e \in Item /\ e.start < e.end /\ e.end <= e.available
                          /\ req.kind = "probability" => 0 < e.start
    OBVIOUS
  <2>1. req.items[i] \in Item
    BY <1>1
  <2>2. CASE req.kind = "probability"
    BY <1>3, <2>1, <2>2 DEF EventOk
  <2>3. CASE req.kind = "calibration"
    <3>1. WindowOk(req) /\ ForecastOk(req, i)
      BY <1>2, <1>3, <2>3
    <3>2. QED BY <1>1, <2>1, <2>3, <3>1 DEF ForecastOk, WindowOk, Item
  <2>4. QED BY <1>1, <2>2, <2>3
<1>6. \A e \in ToSet(req.items) : \E i \in DOMAIN req.items : e = req.items[i]
  BY DEF ToSet
<1>7. req.kind = "calibration" => 0 < req.from
  BY <1>2 DEF WindowOk
<1>8. QED BY <1>1, <1>2, <1>4, <1>5, <1>6, <1>7

(* A sequence of different elements has as many as its length. *)
LEMMA DifferentCount ==
  ASSUME NEW S, NEW s \in Seq(S), \A i, j \in DOMAIN s : i # j => s[i] # s[j]
  PROVE  IsFiniteSet(ToSet(s)) /\ Cardinality(ToSet(s)) = Len(s)
<1>1. Len(s) \in Nat /\ DOMAIN s = 1 .. Len(s)
  OBVIOUS
<1>2. s \in Bijection(1 .. Len(s), ToSet(s))
  BY <1>1 DEF Bijection, Injection, Surjection, ToSet, IsInjective
<1>3. IsFiniteSet(1 .. Len(s)) /\ Cardinality(1 .. Len(s)) = Len(s)
  BY <1>1, FS_Interval
<1>4. QED BY <1>2, <1>3, FS_Bijection DEF ExistsBijection

(* A calculation begins with nothing looked at. *)
LEMMA SamplingBegins ==
  ASSUME NEW req \in Estimates, EstimateVerdict(req) = "Ok",
         NEW s, s = [pc |-> "loop", req |-> req, rest |-> ToSet(req.items), lastEnd |-> 0,
                     rows |-> <<>>, excluded |-> [r \in Exclusions |-> 0]]
  PROVE  SamplingInv(s)
<1>1. /\ req.items \in Seq(Item) /\ Len(req.items) \in Nat
      /\ \A i, j \in DOMAIN req.items : i # j => req.items[i] # req.items[j]
  BY ItemsOfAllowed
<1>2. IsFiniteSet(ToSet(req.items)) /\ Cardinality(ToSet(req.items)) = Len(req.items)
  BY <1>1, DifferentCount
<1>3. ToSet(req.items) \in SUBSET Item
  BY <1>1 DEF ToSet
<1> DEFINE rest == ToSet(req.items)
<1>4. ToSet(<<>>) = {} /\ Len(<<>>) = 0
  BY DEF ToSet
<1>5. Mature(req) \subseteq rest
  BY DEF Mature
<1> HIDE DEF rest
<1>6. s \in [pc: {"loop"}, req: Estimates, rest: SUBSET Item, lastEnd: Int, rows: Seq(Item),
             excluded: [Exclusions -> Nat]]
  BY <1>3 DEF rest
<1>7. /\ s.req = req /\ s.rest = rest /\ s.lastEnd = 0 /\ s.rows = <<>>
      /\ \A r \in Exclusions : s.excluded[r] = 0
  BY DEF rest
<1>8. Len(s.rows) + LeftOut(s.excluded) + Cardinality(s.rest) = Len(s.req.items)
  <2>1. {"outside", "immature", "condition", "overlap"} \subseteq Exclusions
    BY DEF Exclusions
  <2>2. LeftOut(s.excluded) = 0
    BY <1>7, <2>1 DEF LeftOut
  <2>3. QED BY <1>1, <1>2, <1>4, <1>7, <2>2 DEF rest
<1>9. QED BY <1>4, <1>5, <1>6, <1>7, <1>8 DEF SamplingInv, rest

(* What an item that is not selected is not, and one that is, is. *)
LEMMA OutcomeOf ==
  ASSUME NEW req \in Estimates, EstimateVerdict(req) = "Ok",
         NEW e \in ToSet(req.items), NEW lastEnd \in Int
  PROVE  LET what == Outcome(e, req, lastEnd)
         IN  /\ what \in Exclusions \cup {"InvalidSample", "selected"}
             /\ what = "selected" => e \in Mature(req) /\ lastEnd <= e.start
             /\ what \in {"outside", "immature", "condition"} => e \notin Mature(req)
             /\ what = "overlap" =>
                  /\ e.start < lastEnd
                  /\ e \in Mature(req) => 0 < e.start
<1>1. /\ e \in Item /\ req.kind \in {"probability", "calibration"}
      /\ {req.cutoff, req.from, req.to} \subseteq Int
      /\ req.kind = "probability" => 0 < e.start
      /\ req.kind = "calibration" => 0 < req.from
  BY ItemsOfAllowed, EstimateAssumption
<1>2. {e.start, e.end, e.available} \subseteq Int /\ e.matches \in BOOLEAN
  BY <1>1 DEF Item
<1>3. CASE req.kind = "probability"
  BY <1>1, <1>2, <1>3 DEF Outcome, Mature, Exclusions
<1>4. CASE req.kind = "calibration"
  BY <1>1, <1>2, <1>4 DEF Outcome, Mature, Exclusions
<1>5. QED BY <1>1, <1>3, <1>4

(* What is left of a request's items is finite. *)
LEMMA RestFinite ==
  ASSUME NEW req \in Estimates, NEW rest \in SUBSET ToSet(req.items)
  PROVE  IsFiniteSet(rest) /\ Cardinality(rest) \in Nat
<1>1. req.items \in Seq(Item)
  BY EstimateAssumption
<1>2. Len(req.items) \in Nat /\ DOMAIN req.items = 1 .. Len(req.items)
  BY <1>1
<1>3. IsFiniteSet(1 .. Len(req.items))
  BY <1>2, FS_Interval
<1>4. req.items \in Surjection(1 .. Len(req.items), ToSet(req.items))
  BY <1>1, <1>2 DEF Surjection, ToSet
<1>5. IsFiniteSet(ToSet(req.items))
  BY <1>3, <1>4, FS_Surjection
<1>6. QED BY <1>5, FS_Subset, FS_CardinalityType

(* The exclusions add up to a number. *)
LEMMA LeftOutType ==
  ASSUME NEW out \in [Exclusions -> Nat]
  PROVE  LeftOut(out) \in Nat
<1>1. {"outside", "immature", "condition", "overlap"} = Exclusions
  BY DEF Exclusions
<1>2. \A r \in Exclusions : out[r] \in Nat
  OBVIOUS
<1>3. /\ out["outside"] \in Nat /\ out["immature"] \in Nat
      /\ out["condition"] \in Nat /\ out["overlap"] \in Nat
  BY <1>1, <1>2
<1>4. QED BY <1>3 DEF LeftOut

(* An item that is selected ends the sample of those before it. *)
LEMMA SelectedKeeps ==
  ASSUME NEW s, SamplingInv(s), NEW e \in s.rest, \A f \in s.rest \ {e} : Before(e, f),
         Outcome(e, s.req, s.lastEnd) = "selected"
  PROVE  SamplingInv([s EXCEPT !.rest = @ \ {e}, !.rows = Append(@, e), !.lastEnd = e.end])
<1> DEFINE t == [s EXCEPT !.rest = @ \ {e}, !.rows = Append(@, e), !.lastEnd = e.end]
           rows == Append(s.rows, e)
<1>1. /\ s \in [pc: {"loop"}, req: Estimates, rest: SUBSET Item, lastEnd: Int, rows: Seq(Item),
                excluded: [Exclusions -> Nat]]
      /\ EstimateVerdict(s.req) = "Ok" /\ s.rest \subseteq ToSet(s.req.items)
  BY DEF SamplingInv
<1>2. /\ e \in Item /\ e \in ToSet(s.req.items) /\ {e.start, e.end} \subseteq Int
      /\ e.start < e.end /\ e \in Mature(s.req) /\ s.lastEnd <= e.start
  <2>1. e \in ToSet(s.req.items) /\ s.req \in Estimates /\ s.lastEnd \in Int
    BY <1>1
  <2>2. e \in Item /\ e.start < e.end
    BY <1>1, <2>1, ItemsOfAllowed
  <2>3. e \in Mature(s.req) /\ s.lastEnd <= e.start
    BY <1>1, <2>1, OutcomeOf
  <2>4. QED BY <2>1, <2>2, <2>3 DEF Item
<1>3. /\ t.req = s.req /\ t.rest = s.rest \ {e} /\ t.rows = rows /\ t.lastEnd = e.end
      /\ t.excluded = s.excluded
      /\ t \in [pc: {"loop"}, req: Estimates, rest: SUBSET Item, lastEnd: Int, rows: Seq(Item),
                excluded: [Exclusions -> Nat]]
  <2>1. s.rest \ {e} \in SUBSET Item /\ rows \in Seq(Item) /\ e.end \in Int
    BY <1>1, <1>2
  <2> HIDE DEF rows
  <2>2. t = [s EXCEPT !.rest = s.rest \ {e}, !.rows = rows, !.lastEnd = e.end]
    BY DEF rows
  <2> HIDE DEF t
  <2>3. QED BY <1>1, <2>1, <2>2
<1> HIDE DEF t
<1>4. /\ rows \in Seq(Item) /\ rows # <<>> /\ Len(rows) = Len(s.rows) + 1 /\ Len(s.rows) \in Nat
      /\ \A i \in 1 .. Len(s.rows) : rows[i] = s.rows[i]
      /\ rows[Len(rows)] = e
      /\ \A i \in 1 .. Len(s.rows) : s.rows[i] \in Item
  BY <1>1, <1>2
<1>5. ToSet(rows) = ToSet(s.rows) \cup {e}
  BY <1>4 DEF ToSet
<1> HIDE DEF rows
<1>6. rows[1].start < e.end
  <2>1. CASE s.rows = <<>>
    BY <1>2, <1>4, <2>1
  <2>2. CASE s.rows # <<>>
    <3>1. 1 \in 1 .. Len(s.rows) /\ s.rows[1].start < s.lastEnd
      BY <1>1, <1>4, <2>2 DEF SamplingInv
    <3>2. s.rows[1].start \in Int /\ s.lastEnd \in Int
      BY <1>1, <1>4, <3>1 DEF Item
    <3>3. rows[1] = s.rows[1]
      BY <1>4, <3>1
    <3>4. QED BY <1>2, <3>1, <3>2, <3>3
  <2>3. QED BY <2>1, <2>2
<1>7. \A i \in 1 .. Len(rows) - 1 : rows[i].end <= rows[i + 1].start
  <2> SUFFICES ASSUME NEW i \in 1 .. Len(rows) - 1 PROVE rows[i].end <= rows[i + 1].start
    OBVIOUS
  <2>1. CASE i = Len(s.rows)
    <3>1. s.lastEnd = s.rows[Len(s.rows)].end
      BY <1>4, <2>1 DEF SamplingInv
    <3>2. rows[i] = s.rows[Len(s.rows)] /\ i + 1 = Len(rows)
      BY <1>4, <2>1
    <3>3. QED BY <1>2, <1>4, <3>1, <3>2
  <2>2. CASE i # Len(s.rows)
    <3>1. i \in 1 .. Len(s.rows) - 1 /\ i \in 1 .. Len(s.rows) /\ i + 1 \in 1 .. Len(s.rows)
      BY <1>4, <2>2
    <3>2. QED BY <1>4, <3>1 DEF SamplingInv
  <2>3. QED BY <2>1, <2>2
<1>8. ToSet(rows) \subseteq Mature(s.req)
  BY <1>2, <1>5 DEF SamplingInv
<1>9. \A r \in ToSet(rows) : \A f \in s.rest \ {e} : Before(r, f)
  <2> HIDE DEF Before
  <2> QED BY <1>5 DEF SamplingInv
<1>10. \A d \in (Mature(s.req) \ ToSet(rows)) \ (s.rest \ {e}) :
         \E r \in ToSet(rows) : r.start <= d.start /\ d.start < r.end
  <2>1. \A d \in (Mature(s.req) \ ToSet(s.rows)) \ s.rest :
          \E r \in ToSet(s.rows) : r.start <= d.start /\ d.start < r.end
    BY DEF SamplingInv
  <2>2. QED BY <1>5, <2>1
<1>11. Len(rows) + LeftOut(s.excluded) + Cardinality(s.rest \ {e}) = Len(s.req.items)
  <2>1. IsFiniteSet(s.rest) /\ Cardinality(s.rest) \in Nat
    BY <1>1, RestFinite, Zenon
  <2>2. Cardinality(s.rest \ {e}) = Cardinality(s.rest) - 1
    BY <2>1, FS_RemoveElement
  <2>3. LeftOut(s.excluded) \in Nat
    BY <1>1, LeftOutType
  <2>4. Len(s.rows) + LeftOut(s.excluded) + Cardinality(s.rest) = Len(s.req.items)
    BY DEF SamplingInv
  <2>5. Len(rows) = Len(s.rows) + 1 /\ Len(s.rows) \in Nat
    BY <1>4
  <2>6. \A a, b, c \in Nat : (a + 1) + b + (c - 1) = a + b + c
    OBVIOUS
  <2>7. Len(s.rows) + LeftOut(s.excluded) + Cardinality(s.rest)
          = (Len(s.rows) + 1) + LeftOut(s.excluded) + (Cardinality(s.rest) - 1)
    BY <2>1, <2>3, <2>5, <2>6
  <2>8. QED BY <2>2, <2>4, <2>5, <2>7
<1>12. SamplingInv(t)
  BY <1>1, <1>3, <1>4, <1>6, <1>7, <1>8, <1>9, <1>10, <1>11 DEF SamplingInv
<1>13. QED BY <1>12 DEF t

(* An item that is left out is counted, and overlaps the sample if it is mature. *)
LEMMA LeavingKeeps ==
  ASSUME NEW s, SamplingInv(s), NEW e \in s.rest, \A f \in s.rest \ {e} : Before(e, f),
         NEW what \in Exclusions, what = Outcome(e, s.req, s.lastEnd)
  PROVE  SamplingInv([s EXCEPT !.rest = @ \ {e}, !.excluded[what] = @ + 1])
<1> DEFINE t   == [s EXCEPT !.rest = @ \ {e}, !.excluded[what] = @ + 1]
           out == [s.excluded EXCEPT ![what] = @ + 1]
<1>1. /\ s \in [pc: {"loop"}, req: Estimates, rest: SUBSET Item, lastEnd: Int, rows: Seq(Item),
                excluded: [Exclusions -> Nat]]
      /\ EstimateVerdict(s.req) = "Ok" /\ s.rest \subseteq ToSet(s.req.items)
  BY DEF SamplingInv
<1>2. /\ what \in {"outside", "immature", "condition"} => e \notin Mature(s.req)
      /\ what = "overlap" => /\ e.start < s.lastEnd
                             /\ e \in Mature(s.req) => 0 < e.start
  <2>1. e \in ToSet(s.req.items) /\ s.req \in Estimates /\ s.lastEnd \in Int
    BY <1>1
  <2>2. QED BY <1>1, <2>1, OutcomeOf
<1>3. /\ t.req = s.req /\ t.rest = s.rest \ {e} /\ t.rows = s.rows /\ t.lastEnd = s.lastEnd
      /\ t.excluded = out
      /\ t \in [pc: {"loop"}, req: Estimates, rest: SUBSET Item, lastEnd: Int, rows: Seq(Item),
                excluded: [Exclusions -> Nat]]
  <2>1. s.rest \ {e} \in SUBSET Item /\ out \in [Exclusions -> Nat]
    BY <1>1
  <2> HIDE DEF out
  <2>2. t = [s EXCEPT !.rest = s.rest \ {e}, !.excluded = out]
    BY <1>1 DEF out
  <2> HIDE DEF t
  <2>3. QED BY <1>1, <2>1, <2>2
<1> HIDE DEF t
<1>4. \A r \in ToSet(s.rows) : r \in Item
  BY <1>1 DEF ToSet
<1>5. e \in Mature(s.req) => \E r \in ToSet(s.rows) : r.start <= e.start /\ e.start < r.end
  <2> SUFFICES ASSUME e \in Mature(s.req)
               PROVE  \E r \in ToSet(s.rows) : r.start <= e.start /\ e.start < r.end
    OBVIOUS
  <2>1. what = "overlap" /\ e.start < s.lastEnd /\ 0 < e.start /\ e.start \in Int
    BY <1>1, <1>2 DEF Exclusions, Item
  <2>2. s.rows # <<>> /\ s.lastEnd = s.rows[Len(s.rows)].end
    BY <1>1, <2>1 DEF SamplingInv
  <2> DEFINE last == s.rows[Len(s.rows)]
  <2>3. last \in ToSet(s.rows)
    <3>1. Len(s.rows) \in DOMAIN s.rows
      BY <1>1, <2>2
    <3>2. QED BY <3>1 DEF ToSet
  <2> HIDE DEF last
  <2>4. Before(last, e) /\ last \in Item /\ e \in Item
    BY <1>1, <1>4, <2>3 DEF SamplingInv
  <2>5. last.start <= e.start
    BY <2>4 DEF Before, Item
  <2>6. QED BY <2>1, <2>2, <2>3, <2>5 DEF last
<1>6. \A d \in (Mature(s.req) \ ToSet(s.rows)) \ (s.rest \ {e}) :
        \E r \in ToSet(s.rows) : r.start <= d.start /\ d.start < r.end
  <2>1. \A d \in (Mature(s.req) \ ToSet(s.rows)) \ s.rest :
          \E r \in ToSet(s.rows) : r.start <= d.start /\ d.start < r.end
    BY DEF SamplingInv
  <2>2. QED BY <1>5, <2>1
<1>7. LeftOut(out) = LeftOut(s.excluded) + 1
  <2>1. Exclusions = {"outside", "immature", "condition", "overlap"}
    BY DEF Exclusions
  <2>2. \A r \in Exclusions : /\ s.excluded[r] \in Nat
                              /\ out[r] = IF r = what THEN s.excluded[r] + 1 ELSE s.excluded[r]
    BY <1>1
  <2> HIDE DEF out
  <2>3. /\ s.excluded["outside"] \in Nat /\ s.excluded["immature"] \in Nat
        /\ s.excluded["condition"] \in Nat /\ s.excluded["overlap"] \in Nat
    BY <2>1, <2>2
  <2>4. CASE what = "outside"
    BY <2>1, <2>2, <2>3, <2>4 DEF LeftOut
  <2>5. CASE what = "immature"
    BY <2>1, <2>2, <2>3, <2>5 DEF LeftOut
  <2>6. CASE what = "condition"
    BY <2>1, <2>2, <2>3, <2>6 DEF LeftOut
  <2>7. CASE what = "overlap"
    BY <2>1, <2>2, <2>3, <2>7 DEF LeftOut
  <2>8. QED BY <2>1, <2>4, <2>5, <2>6, <2>7
<1> HIDE DEF out
<1>8. Len(s.rows) + LeftOut(out) + Cardinality(s.rest \ {e}) = Len(s.req.items)
  <2>1. IsFiniteSet(s.rest) /\ Cardinality(s.rest) \in Nat
    BY <1>1, RestFinite, Zenon
  <2>2. Cardinality(s.rest \ {e}) = Cardinality(s.rest) - 1
    BY <2>1, FS_RemoveElement
  <2>3. LeftOut(s.excluded) \in Nat /\ Len(s.rows) \in Nat
    BY <1>1, LeftOutType
  <2>4. Len(s.rows) + LeftOut(s.excluded) + Cardinality(s.rest) = Len(s.req.items)
    BY DEF SamplingInv
  <2>5. \A a, b, c \in Nat : a + (b + 1) + (c - 1) = a + b + c
    OBVIOUS
  <2>6. Len(s.rows) + LeftOut(s.excluded) + Cardinality(s.rest)
          = Len(s.rows) + (LeftOut(s.excluded) + 1) + (Cardinality(s.rest) - 1)
    BY <2>1, <2>3, <2>5
  <2>7. QED BY <1>7, <2>2, <2>4, <2>6
<1>9. \A r \in ToSet(s.rows) : \A f \in s.rest \ {e} : Before(r, f)
  <2> HIDE DEF Before
  <2> QED BY DEF SamplingInv
<1>10. SamplingInv(t)
  BY <1>1, <1>3, <1>6, <1>8, <1>9 DEF SamplingInv
<1>11. QED BY <1>10 DEF t

(* The sample of a calculation that is through with the items is as it must be. *)
LEMMA SampleConcluded ==
  ASSUME NEW s, SamplingInv(s), s.rest = {}, s.rows # <<>>
  PROVE  /\ \A i \in 1 .. Len(s.rows) - 1 : s.rows[i].end <= s.rows[i + 1].start
         /\ ToSet(s.rows) \subseteq Mature(s.req)
         /\ \A e \in Mature(s.req) \ ToSet(s.rows) :
              \E r \in ToSet(s.rows) : r.start <= e.start /\ e.start < r.end
         /\ Len(s.rows) + LeftOut(s.excluded) = Len(s.req.items)
<1>1. Cardinality(s.rest) = 0
  BY FS_EmptySet
<1>2. Len(s.rows) \in Nat /\ LeftOut(s.excluded) \in Nat
  BY LeftOutType DEF SamplingInv
<1>3. Len(s.rows) + LeftOut(s.excluded) + Cardinality(s.rest) = Len(s.req.items)
  BY DEF SamplingInv
<1>4. Len(s.rows) + LeftOut(s.excluded) = Len(s.req.items)
  BY <1>1, <1>2, <1>3
<1>5. (Mature(s.req) \ ToSet(s.rows)) \ s.rest = Mature(s.req) \ ToSet(s.rows)
  OBVIOUS
<1>6. QED BY <1>4, <1>5 DEF SamplingInv

(* The artifact of a probability that has a sample can be inferred from. *)
LEMMA ArtifactInferable ==
  ASSUME NEW s, SamplingInv(s), s.rest = {}, s.rows # <<>>, s.req.kind = "probability"
  PROVE  /\ Artifact(s) \in Kept /\ Artifact(s).cutoff <= s.req.asOf
         /\ \A asOf \in Int : Inferred(Artifact(s), asOf)
                                = IF asOf < Artifact(s).cutoff THEN "InvalidTime" ELSE "Ok"
<1> DEFINE n    == Len(s.rows)
           hits == Cardinality({i \in DOMAIN s.rows : s.rows[i].label = "hit"})
           a    == Artifact(s)
<1>1. /\ s.rows \in Seq(Item) /\ s.req \in Estimates /\ n \in Nat /\ n >= 1
      /\ EstimateVerdict(s.req) = "Ok" /\ ToSet(s.rows) \subseteq Mature(s.req)
      /\ s.excluded \in [Exclusions -> Nat] /\ DOMAIN s.rows = 1 .. n
      /\ s.rows[1].start < s.lastEnd /\ s.lastEnd = s.rows[n].end
  BY DEF SamplingInv
<1>2. /\ s.req.cutoff \in Int /\ s.req.asOf \in Int /\ s.req.cutoff <= s.req.asOf
      /\ Len(s.req.items) <= MaxItems /\ MaxItems \in Nat /\ s.req.items \in Seq(Item)
  BY <1>1, ItemsOfAllowed, EstimateAssumption
<1>3. \A i \in 1 .. n : /\ s.rows[i] \in Item /\ 0 < s.rows[i].start
                        /\ s.rows[i].end <= s.req.cutoff
  <2> SUFFICES ASSUME NEW i \in 1 .. n
               PROVE  /\ s.rows[i] \in Item /\ 0 < s.rows[i].start
                      /\ s.rows[i].end <= s.req.cutoff
    OBVIOUS
  <2>1. s.rows[i] \in Mature(s.req)
    BY <1>1 DEF ToSet
  <2> DEFINE e == s.rows[i]
  <2> HIDE DEF e
  <2>2. e \in ToSet(s.req.items) /\ e.available <= s.req.cutoff
    BY <2>1 DEF Mature, e
  <2>3. e \in Item /\ 0 < e.start /\ e.end <= e.available
    BY <1>1, <2>2, ItemsOfAllowed
  <2>4. e.end \in Int /\ e.available \in Int
    BY <2>3 DEF Item
  <2>5. e.end <= s.req.cutoff
    BY <1>2, <2>2, <2>3, <2>4
  <2>6. QED BY <2>3, <2>5 DEF e
<1>4. n <= MaxItems
  <2>1. n + LeftOut(s.excluded) = Len(s.req.items)
    BY SampleConcluded
  <2>2. LeftOut(s.excluded) \in Nat /\ Len(s.req.items) \in Nat
    BY <1>1, <1>2, LeftOutType
  <2> HIDE DEF n
  <2>3. QED BY <1>1, <1>2, <2>1, <2>2
<1>5. hits \in Nat /\ hits <= n
  <2>1. IsFiniteSet(1 .. n) /\ Cardinality(1 .. n) = n
    BY <1>1, FS_Interval
  <2>2. {i \in DOMAIN s.rows : s.rows[i].label = "hit"} \in SUBSET (1 .. n)
    BY <1>1
  <2>3. QED BY <2>1, <2>2, FS_Subset, FS_CardinalityType
<1>6. /\ a.cutoff = s.req.cutoff /\ a.range = <<s.rows[1].start, s.rows[n].end>>
      /\ a.count = n /\ a.hits = hits /\ a.alpha = hits /\ a.beta = n - hits
      /\ a = [cutoff |-> s.req.cutoff, range |-> <<s.rows[1].start, s.rows[n].end>>,
              count |-> n, hits |-> hits, alpha |-> hits, beta |-> n - hits]
  BY <1>1 DEF Artifact, Last
<1> HIDE DEF a, hits, n
<1>7. /\ {s.rows[1].start, s.rows[n].end} \subseteq Int
      /\ s.rows[1].start > 0 /\ s.rows[1].start < s.rows[n].end
      /\ s.rows[n].end <= s.req.cutoff
  <2>1. 1 \in 1 .. n /\ n \in 1 .. n
    BY <1>1
  <2>2. s.rows[1] \in Item /\ s.rows[n] \in Item
    BY <1>3, <2>1
  <2>3. s.rows[1].start \in Int /\ s.rows[n].end \in Int
    BY <2>2 DEF Item
  <2>4. s.rows[1].start > 0 /\ s.rows[n].end <= s.req.cutoff
    BY <1>3, <2>1, <2>3
  <2>5. s.rows[1].start < s.rows[n].end
    BY <1>1
  <2>6. QED BY <2>3, <2>4, <2>5
<1>8. a \in Kept
  BY <1>1, <1>2, <1>5, <1>6, <1>7 DEF Kept
<1>9. \A asOf \in Int : Inferred(a, asOf) = IF asOf < a.cutoff THEN "InvalidTime" ELSE "Ok"
  <2>1. a.range[1] = s.rows[1].start /\ a.range[2] = s.rows[n].end
    BY <1>6
  <2>2. /\ a.count \in 1 .. MaxItems /\ ~(a.hits > a.count) /\ a.alpha = a.hits
        /\ a.beta = a.count - a.hits
    BY <1>1, <1>2, <1>4, <1>5, <1>6
  <2>3. ~(a.range[1] <= 0) /\ ~(a.range[2] <= a.range[1]) /\ ~(a.range[2] > a.cutoff)
    BY <1>2, <1>6, <1>7, <2>1
  <2>4. QED BY <2>2, <2>3 DEF Inferred
<1>10. QED BY <1>2, <1>6, <1>8, <1>9 DEF a

LEMMA SampleStart == SampleInit => SampleInv
<1> SUFFICES ASSUME SampleInit PROVE SampleInv
  OBVIOUS
<1>1. sampling = NoSample /\ estimate.rows = <<>> /\ estimate.code = "none" /\ artifacts = <<>>
  BY DEF SampleInit, NothingToSample, NoEstimate
<1>2. SamplesAreDisjoint
  BY <1>1 DEF SamplesAreDisjoint
<1>3. <<>> \in Seq({a \in Kept : Inferable(a)})
  OBVIOUS
<1>4. QED BY <1>1, <1>2, <1>3 DEF SampleInv

(* An answer without a sample says nothing of one. *)
LEMMA NoSampleDisjoint ==
  ASSUME NEW code, estimate' = NoEstimate(code)
  PROVE  SamplesAreDisjoint' /\ estimate'.code = code
BY DEF SamplesAreDisjoint, NoEstimate

LEMMA SampleKeeps ==
  ASSUME SampleInv, [SampleNext]_sampleVars
  PROVE  SampleInv'
<1> DEFINE Artifacts == Seq({a \in Kept : Inferable(a)})
<1>1. /\ sampling = NoSample \/ (SamplingInv(sampling) /\ estimate = NoEstimate("none"))
      /\ SamplesAreDisjoint /\ estimate.code # "IncompatibleArtifact"
      /\ artifacts \in Artifacts
  BY DEF SampleInv
<1> HIDE DEF Artifacts
<1>2. sampling.pc = "loop" => SamplingInv(sampling) /\ estimate = NoEstimate("none")
  BY <1>1 DEF NoSample
<1>3. ASSUME NEW code, estimate' = NoEstimate(code), code # "IncompatibleArtifact",
             sampling' = NoSample, artifacts' \in Artifacts
      PROVE  SampleInv'
  <2>1. SamplesAreDisjoint' /\ estimate'.code = code
    BY <1>3, NoSampleDisjoint
  <2>2. QED BY <1>3, <2>1 DEF SampleInv, Artifacts
<1>4. ASSUME NEW s, SamplingInv(s), sampling' = s, estimate' = NoEstimate("none"),
             artifacts' \in Artifacts
      PROVE  SampleInv'
  <2>1. SamplesAreDisjoint' /\ estimate'.code = "none"
    BY <1>4, NoSampleDisjoint
  <2>2. QED BY <1>4, <2>1 DEF SampleInv, Artifacts
<1>5. CASE NothingToSample /\ \E req \in Estimates : EstimateBegin(req)
  <2>1. PICK req \in Estimates : EstimateBegin(req)
    BY <1>5
  <2>2. /\ artifacts' \in Artifacts /\ sampling = NoSample /\ estimate = NoEstimate("none")
    BY <1>1, <2>1 DEF EstimateBegin, NothingToSample
  <2>3. CASE EstimateVerdict(req) = "Ok"
    <3> DEFINE s == [pc |-> "loop", req |-> req, rest |-> ToSet(req.items), lastEnd |-> 0,
                     rows |-> <<>>, excluded |-> [r \in Exclusions |-> 0]]
    <3>1. sampling' = s /\ estimate' = NoEstimate("none")
      BY <2>1, <2>2, <2>3 DEF EstimateBegin, Exclusions
    <3>2. SamplingInv(s)
      BY <2>3, SamplingBegins
    <3> HIDE DEF s
    <3>3. QED BY <1>4, <2>2, <3>1, <3>2
  <2>4. CASE EstimateVerdict(req) # "Ok"
    <3>1. sampling' = NoSample /\ estimate' = NoEstimate(EstimateVerdict(req))
      BY <2>1, <2>2, <2>4 DEF EstimateBegin
    <3>2. EstimateVerdict(req) # "IncompatibleArtifact"
      <4> HIDE DEF WindowOk
      <4>1. ItemsVerdict(req) # "IncompatibleArtifact"
        BY DEF ItemsVerdict
      <4> HIDE DEF ItemsVerdict
      <4>2. QED BY <4>1 DEF EstimateVerdict
    <3>3. QED BY <1>3, <2>2, <3>1, <3>2
  <2>5. QED BY <2>3, <2>4
<1>6. CASE LookAt
  <2>1. PICK e \in sampling.rest :
          LET what == Outcome(e, sampling.req, sampling.lastEnd)
              left == [sampling EXCEPT !.rest = @ \ {e}]
          IN  /\ \A f \in sampling.rest \ {e} : Before(e, f)
              /\ CASE what = "InvalidSample" ->
                        sampling' = NoSample /\ estimate' = NoEstimate("InvalidSample")
                   [] what = "selected" ->
                        /\ sampling' = [left EXCEPT !.rows = Append(@, e), !.lastEnd = e.end]
                        /\ UNCHANGED estimate
                   [] OTHER ->
                        sampling' = [left EXCEPT !.excluded[what] = @ + 1] /\ UNCHANGED estimate
    BY <1>6 DEF LookAt
  <2> DEFINE s    == sampling
             what == Outcome(e, s.req, s.lastEnd)
  <2>2. /\ SamplingInv(s) /\ estimate = NoEstimate("none") /\ artifacts' \in Artifacts
        /\ \A f \in s.rest \ {e} : Before(e, f)
    BY <1>1, <1>2, <1>6, <2>1 DEF LookAt
  <2>3. what \in Exclusions \cup {"InvalidSample", "selected"}
    <3>1. /\ s.req \in Estimates /\ EstimateVerdict(s.req) = "Ok" /\ s.lastEnd \in Int
          /\ e \in ToSet(s.req.items)
      BY <2>2 DEF SamplingInv
    <3>2. QED BY <3>1, OutcomeOf
  <2>4. CASE what = "InvalidSample"
    <3>1. sampling' = NoSample /\ estimate' = NoEstimate("InvalidSample")
      BY <2>1, <2>4
    <3>2. QED BY <1>3, <2>2, <3>1
  <2>5. CASE what = "selected"
    <3> DEFINE t == [s EXCEPT !.rest = @ \ {e}, !.rows = Append(@, e), !.lastEnd = e.end]
    <3>1. sampling' = t /\ estimate' = NoEstimate("none")
      BY <2>1, <2>2, <2>5
    <3>2. SamplingInv(t)
      BY <2>2, <2>5, SelectedKeeps
    <3> HIDE DEF t
    <3>3. QED BY <1>4, <2>2, <3>1, <3>2
  <2>6. CASE what \in Exclusions
    <3> DEFINE t == [s EXCEPT !.rest = @ \ {e}, !.excluded[what] = @ + 1]
    <3>1. what # "selected" /\ what # "InvalidSample"
      BY <2>6 DEF Exclusions
    <3>2. sampling' = t /\ estimate' = NoEstimate("none")
      BY <2>1, <2>2, <3>1
    <3>3. SamplingInv(t)
      BY <2>2, <2>6, LeavingKeeps
    <3> HIDE DEF t
    <3>4. QED BY <1>4, <2>2, <3>2, <3>3
  <2>7. QED BY <2>3, <2>4, <2>5, <2>6
<1>7. CASE Conclude
  <2> DEFINE s           == sampling
             probability == s.req.kind = "probability"
             inferred    == Inferred(Artifact(s), s.req.asOf)
  <2>1. /\ SamplingInv(s) /\ s.rest = {} /\ sampling' = NoSample
        /\ CASE s.rows = <<>> ->
                  estimate' = NoEstimate("InsufficientData") /\ UNCHANGED artifacts
             [] s.rows # <<>> /\ probability /\ inferred # "Ok" ->
                  estimate' = NoEstimate(inferred) /\ UNCHANGED artifacts
             [] OTHER ->
                  /\ estimate' = [code |-> "Ok", req |-> s.req, rows |-> s.rows,
                                  excluded |-> s.excluded]
                  /\ artifacts' = IF probability THEN Append(artifacts, Artifact(s))
                                  ELSE artifacts
    BY <1>2, <1>7 DEF Conclude
  <2>2. CASE s.rows = <<>>
    <3>1. estimate' = NoEstimate("InsufficientData") /\ artifacts' \in Artifacts
      BY <1>1, <2>1, <2>2
    <3>2. QED BY <1>3, <2>1, <3>1
  <2>3. CASE s.rows # <<>>
    <3>1. probability => /\ Artifact(s) \in {a \in Kept : Inferable(a)}
                         /\ inferred = "Ok"
      <4> SUFFICES ASSUME probability
                   PROVE  Artifact(s) \in {a \in Kept : Inferable(a)} /\ inferred = "Ok"
        OBVIOUS
      <4> DEFINE a == Artifact(s)
      <4>1. /\ a \in Kept /\ a.cutoff <= s.req.asOf
            /\ \A asOf \in Int : Inferred(a, asOf) = IF asOf < a.cutoff THEN "InvalidTime"
                                                     ELSE "Ok"
        BY <2>1, <2>3, ArtifactInferable
      <4> HIDE DEF a
      <4>2. s.req.asOf \in Int /\ Asked \subseteq Int /\ a.cutoff \in Int
        BY <2>1, <4>1, EstimateAssumption DEF SamplingInv, Kept
      <4>3. Inferable(a)
        BY <4>1, <4>2 DEF Inferable
      <4>4. Inferred(a, s.req.asOf) = "Ok"
        BY <4>1, <4>2
      <4>5. QED BY <4>1, <4>3, <4>4 DEF a
    <3>2. /\ estimate' = [code |-> "Ok", req |-> s.req, rows |-> s.rows,
                          excluded |-> s.excluded]
          /\ artifacts' = IF probability THEN Append(artifacts, Artifact(s)) ELSE artifacts
      BY <2>1, <2>3, <3>1
    <3>3. artifacts' \in Artifacts
      BY <1>1, <3>1, <3>2 DEF Artifacts
    <3>4. SamplesAreDisjoint'
      <4>1. /\ \A i \in 1 .. Len(s.rows) - 1 : s.rows[i].end <= s.rows[i + 1].start
            /\ ToSet(s.rows) \subseteq Mature(s.req)
            /\ \A e \in Mature(s.req) \ ToSet(s.rows) :
                 \E r \in ToSet(s.rows) : r.start <= e.start /\ e.start < r.end
            /\ Len(s.rows) + LeftOut(s.excluded) = Len(s.req.items)
        BY <2>1, <2>3, SampleConcluded
      <4>2. /\ estimate'.rows = s.rows /\ estimate'.req = s.req
            /\ estimate'.excluded = s.excluded
        BY <3>2
      <4>3. QED BY <4>1, <4>2 DEF SamplesAreDisjoint
    <3>5. QED BY <2>1, <3>2, <3>3, <3>4 DEF SampleInv, Artifacts
  <2>4. QED BY <2>2, <2>3
<1>8. CASE \E a \in ToSet(artifacts), asOf \in Asked : InferBeta(a, asOf)
  <2>1. PICK a \in ToSet(artifacts), asOf \in Asked : InferBeta(a, asOf)
    BY <1>8
  <2>2. Inferable(a)
    BY <1>1 DEF ToSet, Artifacts
  <2>3. Inferred(a, asOf) # "IncompatibleArtifact"
    BY <2>2 DEF Inferable
  <2>4. /\ sampling' = NoSample /\ artifacts' \in Artifacts
        /\ estimate' = NoEstimate(Inferred(a, asOf))
    BY <1>1, <2>1 DEF InferBeta, NothingToSample
  <2>5. QED BY <1>3, <2>3, <2>4
<1>9. CASE Discard
  <2>1. /\ sampling' = NoSample /\ estimate' = NoEstimate("none") /\ artifacts' = <<>>
    BY <1>9 DEF Discard, NothingToSample
  <2>2. artifacts' \in Artifacts
    BY <2>1 DEF Artifacts
  <2>3. QED BY <1>3, <2>1, <2>2
<1>10. CASE EstimateStop
  <2>1. PICK code \in {"Cancelled", "TimedOut"} : estimate' = NoEstimate(code)
    BY <1>10 DEF EstimateStop
  <2>2. sampling' = NoSample /\ artifacts' \in Artifacts
    BY <1>1, <1>10 DEF EstimateStop
  <2>3. QED BY <1>3, <2>1, <2>2
<1>11. CASE EstimateReturn
  <2>1. /\ sampling' = sampling /\ artifacts' \in Artifacts /\ estimate' = NoEstimate("none")
        /\ estimate # NoEstimate("none")
    BY <1>1, <1>11 DEF EstimateReturn
  <2>2. sampling' = NoSample
    BY <1>1, <2>1
  <2>3. QED BY <1>3, <2>1, <2>2
<1>12. CASE UNCHANGED sampleVars
  <2>1. sampling' = sampling /\ estimate' = estimate /\ artifacts' = artifacts
    BY <1>12 DEF sampleVars
  <2>2. QED BY <1>1, <2>1 DEF SampleInv, SamplesAreDisjoint, Artifacts
<1>13. QED BY <1>5, <1>6, <1>7, <1>8, <1>9, <1>10, <1>11, <1>12 DEF SampleNext

(* A sample is disjoint, by time, known by the cutoff and maximal, and the     *)
(* exclusions account for the rest of the request's items.                     *)
THEOREM SampleDisjoint == SampleSpec => []SamplesAreDisjoint
<1>1. SampleInv /\ [SampleNext]_sampleVars => SampleInv'
  BY SampleKeeps
<1>2. SampleInv => SamplesAreDisjoint
  BY DEF SampleInv
<1>3. QED BY <1>1, <1>2, SampleStart, PTL DEF SampleSpec

(* No calculation is refused the artifact it just made, and whoever kept one *)
(* can infer from it from its cutoff on, and not before.                     *)
THEOREM ArtifactsAccepted == SampleSpec => []ArtifactsAreAccepted
<1>1. SampleInv /\ [SampleNext]_sampleVars => SampleInv'
  BY SampleKeeps
<1>2. SampleInv => ArtifactsAreAccepted
  <2> SUFFICES ASSUME SampleInv PROVE ArtifactsAreAccepted
    OBVIOUS
  <2>1. \A i \in DOMAIN artifacts : artifacts[i] \in Kept /\ Inferable(artifacts[i])
    BY DEF SampleInv
  <2>2. \A i \in DOMAIN artifacts : \A asOf \in Asked :
          Inferred(artifacts[i], asOf) = "Ok" <=> asOf >= artifacts[i].cutoff
    <3> SUFFICES ASSUME NEW i \in DOMAIN artifacts, NEW asOf \in Asked
                 PROVE  Inferred(artifacts[i], asOf) = "Ok" <=> asOf >= artifacts[i].cutoff
      OBVIOUS
    <3>1. Inferred(artifacts[i], asOf) = IF asOf < artifacts[i].cutoff THEN "InvalidTime"
                                         ELSE "Ok"
      BY <2>1 DEF Inferable
    <3>2. asOf \in Int /\ artifacts[i].cutoff \in Int
      BY <2>1, EstimateAssumption DEF Kept
    <3>3. QED BY <3>1, <3>2
  <2>3. QED BY <2>2 DEF SampleInv, ArtifactsAreAccepted
<1>3. QED BY <1>1, <1>2, SampleStart, PTL DEF SampleSpec

-----------------------------------------------------------------------------
(* The engine's batch                                                      *)

(* A stream that consumed the first bars alone, one bar further. *)
LEMMA StreamedNext ==
  ASSUME NEW req \in Request, Checked(req, Len(req.bars)), NEW p \in Profiles,
         NEW n \in 1 .. Len(req.bars), NEW s \in State, Streamed(s, req, p, n - 1)
  PROVE  /\ Acceptable(req.bars[n], req.asOf, s)
         /\ Consume(s, req.bars[n]) \in State
         /\ Streamed(Consume(s, req.bars[n]), req, p, n)
         /\ Consume(s, req.bars[n]).latest = Alone(req, p, n).latest
<1> DEFINE bar == req.bars[n]
           k   == KernelStep(s.kernel, bar.candle)
           row == [status |-> RowStatus(p, n, k), samples |-> n,
                   closed |-> bar.closed, available |-> bar.available]
           t   == Consume(s, bar)
<1>1. /\ req.bars \in Seq(Bar) /\ bar \in Bar /\ n \in Nat /\ Len(req.bars) \in Nat
      /\ req.asOf \in Time /\ p \in Kinds
  BY BatchAssumption, EngineAssumption DEF Request
<1>2. /\ s.profile = p /\ s.samples = n - 1 /\ s.closed \in Nat /\ s.available \in Nat
      /\ s.kernel \in Kernel /\ ValidFor(s.kernel, p, n - 1) /\ n - 1 <= s.closed
      /\ s.closed = ClosedAt(req, n - 1) /\ s.available = AvailableAt(req, n - 1)
      /\ s = Alone(req, p, n - 1)
  BY DEF Streamed, State
<1>3. /\ bar.closed \in Nat /\ bar.available \in Nat /\ bar.candle \in Candles
      /\ bar.closed <= MaxTime /\ MaxTime \in Nat /\ MaxSamples \in Nat /\ MaxTime <= MaxSamples
  <2> HIDE DEF bar
  <2>1. bar.closed \in Time /\ bar.available \in Time /\ bar.candle \in Candles
    BY <1>1 DEF Bar
  <2>2. QED BY <2>1, EngineAssumption DEF Time
<1>4. TimeOk(bar, req.asOf) /\ ValidCandle(bar.candle)
  BY DEF Checked
<1>5. InOrder(bar, s)
  <2>1. CASE n = 1
    BY <1>2, <1>3, <1>4, <2>1 DEF InOrder, TimeOk, ClosedAt, AvailableAt
  <2>2. CASE n # 1
    <3>1. n > 1 /\ n - 1 # 0
      BY <1>1, <2>2
    <3>2. /\ req.bars[n - 1].closed < bar.closed
          /\ req.bars[n - 1].available <= bar.available
      BY <3>1 DEF Checked
    <3>3. s.closed = req.bars[n - 1].closed /\ s.available = req.bars[n - 1].available
      BY <1>2, <3>1 DEF ClosedAt, AvailableAt
    <3> HIDE DEF bar
    <3>4. QED BY <1>2, <1>3, <3>2, <3>3 DEF InOrder
  <2>3. QED BY <2>1, <2>2
<1>6. s.samples < MaxSamples /\ n <= bar.closed
  BY <1>1, <1>2, <1>3, <1>5 DEF InOrder
<1>7. k \in Kernel /\ ValidFor(k, p, n)
  <2>1. n - 1 \in Nat /\ (n - 1) + 1 = n
    BY <1>1
  <2>2. ValidFor(k, p, (n - 1) + 1) /\ k \in Kernel
    BY <1>1, <1>2, <1>3, <1>4, <2>1, KernelStepValid
  <2>3. QED BY <2>1, <2>2
<1>8. row \in Row
  BY <1>1, <1>3 DEF Row, RowStatus, Status
<1> HIDE DEF k, row
<1>9. t = [s EXCEPT !.samples = n, !.closed = bar.closed, !.available = bar.available,
                    !.latest = row, !.kernel = k]
  <2>1. s.samples + 1 = n
    BY <1>1, <1>2
  <2>2. QED BY <1>2, <2>1 DEF Consume, k, row
<1> HIDE DEF t
<1>10. t \in State
  BY <1>1, <1>3, <1>7, <1>8, <1>9 DEF State
<1>11. /\ t.profile = p /\ t.samples = n /\ t.kernel = k
       /\ t.closed = bar.closed /\ t.available = bar.available
  BY <1>2, <1>9 DEF State
<1>12. t = Alone(req, p, n)
  <2>1. Fed(req.id, p, req.bars)[n] = Consume(Fed(req.id, p, req.bars)[n - 1], req.bars[n])
    BY <1>1, FedStreams
  <2>2. QED BY <1>2, <2>1 DEF Alone, t
<1>13. Streamed(t, req, p, n)
  BY <1>1, <1>6, <1>7, <1>11, <1>12 DEF Streamed, ClosedAt, AvailableAt
<1>14. Acceptable(bar, req.asOf, s)
  BY <1>4, <1>5, <1>6 DEF Acceptable
<1>15. QED BY <1>10, <1>12, <1>13, <1>14 DEF t

(* A new stream consumed no bar. *)
LEMMA StreamedNew ==
  ASSUME NEW req \in Request, NEW p \in Profiles
  PROVE  /\ NewStream(req.id, p) \in State
         /\ Streamed(NewStream(req.id, p), req, p, 0)
<1> DEFINE s == NewStream(req.id, p)
<1>1. req.bars \in Seq(Bar) /\ req.id \in Identities /\ p \in Kinds
  BY BatchAssumption, EngineAssumption DEF Request
<1>2. s \in State
  BY <1>1, NewStreamLinked
<1>3. s.profile = p /\ s.samples = 0 /\ s.closed = 0 /\ s.available = 0
      /\ ValidFor(s.kernel, p, 0)
  BY <1>1, NewKernelValid DEF NewStream
<1>4. s = Alone(req, p, 0)
  BY <1>1, FedStreams DEF Alone
<1> HIDE DEF s
<1>5. Streamed(s, req, p, 0)
  BY <1>3, <1>4 DEF Streamed, ClosedAt, AvailableAt
<1>6. QED BY <1>2, <1>5 DEF s

(* The profiles of a request that is not too large are some, and so are its bars. *)
LEMMA SomeToDo ==
  ASSUME NEW req \in Request, ~TooLarge(req)
  PROVE  /\ req.bars \in Seq(Bar) /\ req.profiles \in Seq(Profiles)
         /\ Len(req.bars) \in Nat /\ Len(req.bars) >= 1
         /\ Len(req.profiles) \in Nat /\ Len(req.profiles) >= 1
         /\ \A i \in 1 .. Len(req.profiles) : req.profiles[i] \in Profiles
<1>1. req.bars \in Seq(Bar) /\ req.profiles \in Seq(Profiles)
  BY BatchAssumption DEF Request
<1>2. Len(req.bars) \in 1 .. MaxBars /\ Len(req.profiles) \in 1 .. MaxProfiles
  BY DEF TooLarge
<1>3. QED BY <1>1, <1>2, BatchAssumption

(* One more bar passes the validation. *)
LEMMA CheckedNext ==
  ASSUME NEW req \in Request, NEW n \in 1 .. Len(req.bars), Checked(req, n - 1), NEW s,
         s.closed = ClosedAt(req, n - 1), s.available = AvailableAt(req, n - 1),
         TimeOk(req.bars[n], req.asOf), InOrder(req.bars[n], s),
         ValidCandle(req.bars[n].candle)
  PROVE  Checked(req, n)
<1>1. req.bars \in Seq(Bar) /\ Len(req.bars) \in Nat
  BY BatchAssumption DEF Request
<1>2. \A i \in 1 .. n : i # n => i \in 1 .. n - 1
  BY <1>1
<1>3. n > 1 => /\ req.bars[n - 1].closed < req.bars[n].closed
               /\ req.bars[n - 1].available <= req.bars[n].available
  <2> SUFFICES ASSUME n > 1
               PROVE  /\ req.bars[n - 1].closed < req.bars[n].closed
                      /\ req.bars[n - 1].available <= req.bars[n].available
    OBVIOUS
  <2>1. req.bars[n - 1] \in Bar /\ req.bars[n] \in Bar /\ n - 1 # 0
    BY <1>1
  <2>2. s.closed = req.bars[n - 1].closed /\ s.available = req.bars[n - 1].available
    BY <2>1 DEF ClosedAt, AvailableAt
  <2>3. QED BY <2>1, <2>2, EngineAssumption DEF InOrder, Bar, Time
<1>4. QED BY <1>2, <1>3 DEF Checked

(* Every step of a batch keeps its invariant. *)
LEMMA BatchStart == Init => BatchInv
<1> SUFFICES ASSUME Init PROVE BatchInv
  OBVIOUS
<1>1. ~Working /\ answer.code = "none"
  BY DEF Init, Working, Refused
<1>2. QED BY <1>1 DEF BatchInv, BatchIsStreams

(* A refusal leaves nothing of the batch. *)
LEMMA FailKeeps ==
  ASSUME NEW code, code # "Ok", Fail(code)
  PROVE  BatchInv'
<1>1. job' = Idle /\ answer'.code = code
  BY DEF Fail, Refused
<1>2. ~Working' /\ BatchIsStreams'
  BY <1>1 DEF Working, BatchIsStreams
<1>3. QED BY <1>2 DEF BatchInv

(* Nor does a refusal of a bar answer as if it had succeeded. *)
LEMMA RefusalCode ==
  ASSUME NEW bar, NEW asOf, NEW s
  PROVE  Refusal(bar, asOf, s) # "Ok"
BY DEF Refusal

(* A job that goes on. *)
LEMMA JobKeeps ==
  ASSUME NEW j, JobInv(j), job' = j, answer' = Refused("none")
  PROVE  BatchInv'
<1>1. answer'.code = "none"
  BY DEF Refused
<1>2. BatchIsStreams'
  BY <1>1 DEF BatchIsStreams
<1>3. QED BY <1>2 DEF BatchInv

LEMMA BeginKeeps ==
  ASSUME NEW req \in Request, Begin(req)
  PROVE  BatchInv'
<1>1. CASE TooLarge(req)
  BY <1>1, FailKeeps DEF Begin
<1>2. CASE ~TooLarge(req)
  <2> DEFINE j == [pc |-> "preflight", req |-> req, next |-> 1, closed |-> 0,
                   available |-> 0, s |-> NewStream(req.id, req.profiles[1]),
                   rows |-> <<>>, series |-> <<>>]
  <2>1. job' = j /\ answer' = Refused("none")
    BY <1>2 DEF Begin
  <2>2. Len(req.bars) \in Nat /\ 1 <= Len(req.bars) /\ req.profiles[1] \in Profiles
    BY <1>2, SomeToDo
  <2>3. NewStream(req.id, req.profiles[1]) \in State
    BY <2>2, StreamedNew
  <2>4. j \in Job
    <3> DEFINE s == NewStream(req.id, req.profiles[1])
    <3>1. s \in State
      BY <2>3
    <3> HIDE DEF s
    <3>2. j = [pc |-> "preflight", req |-> req, next |-> 1, closed |-> 0,
               available |-> 0, s |-> s, rows |-> <<>>, series |-> <<>>]
      BY DEF s
    <3> HIDE DEF j
    <3>3. QED BY <3>1, <3>2 DEF Job
  <2>5. Validating(j)
    <3>1. Checked(req, 0) /\ ClosedAt(req, 0) = 0 /\ AvailableAt(req, 0) = 0
      BY DEF Checked, ClosedAt, AvailableAt
    <3>2. QED BY <3>1 DEF Validating
  <2>6. j.req = req /\ j.next = 1
    OBVIOUS
  <2> HIDE DEF j
  <2>7. JobInv(j)
    BY <1>2, <2>2, <2>4, <2>5, <2>6 DEF JobInv, Job
  <2>8. QED BY <2>1, <2>7, JobKeeps
<1>3. QED BY <1>1, <1>2

LEMMA PreflightKeeps ==
  ASSUME BatchInv, Preflight
  PROVE  BatchInv'
<1> DEFINE j    == job
           req  == j.req
           n    == j.next
           bar  == req.bars[n]
           last == [j.s EXCEPT !.closed = j.closed, !.available = j.available]
           seen == [j EXCEPT !.closed = bar.closed, !.available = bar.available]
<1>1. JobInv(j) /\ j.pc = "preflight" /\ answer = Refused("none")
  BY DEF BatchInv, Preflight
<1>2. /\ j \in Job /\ req \in Request /\ ~TooLarge(req) /\ n \in Nat /\ n >= 1
      /\ n <= Len(req.bars) /\ j.s \in State
  BY <1>1 DEF JobInv, Job
<1>3. Validating(j)
  BY <1>1 DEF JobInv, Updating
<1>4. /\ Checked(req, n - 1) /\ j.closed = ClosedAt(req, n - 1)
      /\ j.available = AvailableAt(req, n - 1) /\ j.series = <<>> /\ j.rows = <<>>
      /\ j.s = NewStream(req.id, req.profiles[1])
  BY <1>3 DEF Validating
<1>5. /\ Len(req.bars) \in Nat /\ Len(req.bars) >= 1 /\ Len(req.profiles) \in Nat
      /\ Len(req.profiles) >= 1 /\ req.profiles[1] \in Profiles /\ n \in 1 .. Len(req.bars)
      /\ req.bars \in Seq(Bar) /\ bar \in Bar
  BY <1>2, SomeToDo
<1> DEFINE t == IF n < Len(req.bars) THEN [seen EXCEPT !.next = @ + 1]
                ELSE [seen EXCEPT !.pc = "update", !.next = 1]
           Passes == TimeOk(bar, req.asOf) /\ InOrder(bar, last) /\ ValidCandle(bar.candle)
           Doubled == n = Len(req.bars) /\ HasDuplicates(req.profiles)
<1>9. IF ~Passes THEN Fail(Refusal(bar, req.asOf, last))
      ELSE IF Doubled THEN Fail("DuplicateProfile")
      ELSE job' = t /\ UNCHANGED answer
  BY DEF Preflight
<1>6. CASE ~Passes
  <2>1. Fail(Refusal(bar, req.asOf, last))
    <3> HIDE DEF Passes, Doubled, t, last, bar
    <3> QED BY <1>9, <1>6
  <2>2. QED BY <2>1, RefusalCode, FailKeeps
<1>7. CASE Passes /\ Doubled
  <2>1. Fail("DuplicateProfile")
    <3> HIDE DEF Passes, Doubled, t, last, bar
    <3> QED BY <1>9, <1>7
  <2>2. QED BY <2>1, FailKeeps
<1>8. CASE Passes /\ ~Doubled
  <2>1. job' = t /\ answer' = Refused("none")
    <3> HIDE DEF Passes, Doubled, t, last, bar
    <3> QED BY <1>1, <1>9, <1>8
  <2>2. Checked(req, n)
    <3>1. last.closed = ClosedAt(req, n - 1) /\ last.available = AvailableAt(req, n - 1)
      BY <1>2, <1>4 DEF State
    <3> HIDE DEF last
    <3>2. QED BY <1>2, <1>4, <1>5, <1>8, <3>1, CheckedNext
  <2>3. bar.closed \in Nat /\ bar.available \in Nat
    <3> HIDE DEF bar
    <3> QED BY <1>5, EngineAssumption DEF Bar, Time
  <2>4. CASE n < Len(req.bars)
    <3>1. t = [j EXCEPT !.closed = bar.closed, !.available = bar.available, !.next = n + 1]
      BY <1>2, <2>4 DEF Job
    <3> HIDE DEF t
    <3> DEFINE c == bar.closed
               a == bar.available
    <3>2. c \in Nat /\ a \in Nat /\ n + 1 \in Nat \ {0}
      BY <1>2, <2>3
    <3>3. c = ClosedAt(req, (n + 1) - 1) /\ a = AvailableAt(req, (n + 1) - 1)
          /\ (n + 1) - 1 = n
      BY <1>2 DEF ClosedAt, AvailableAt
    <3> HIDE DEF c, a
    <3>4. t = [j EXCEPT !.closed = c, !.available = a, !.next = n + 1]
      BY <3>1 DEF c, a
    <3>5. /\ t \in Job /\ t.req = req /\ t.next = n + 1 /\ t.closed = c /\ t.available = a
          /\ t.pc = "preflight" /\ t.series = <<>> /\ t.rows = <<>> /\ t.s = j.s
      BY <1>1, <1>2, <1>4, <3>2, <3>4 DEF Job
    <3>6. Validating(t)
      BY <1>4, <2>2, <3>3, <3>5 DEF Validating
    <3>7. n + 1 <= Len(req.bars)
      BY <1>2, <1>5, <2>4
    <3>8. JobInv(t)
      BY <1>2, <3>5, <3>6, <3>7 DEF JobInv, Job
    <3>9. QED BY <2>1, <3>8, JobKeeps
  <2>5. CASE ~(n < Len(req.bars))
    <3> DEFINE c == bar.closed
               a == bar.available
    <3>1. c \in Nat /\ a \in Nat
      BY <2>3
    <3>2. t = [j EXCEPT !.closed = c, !.available = a, !.pc = "update", !.next = 1]
      BY <1>2, <2>5 DEF Job
    <3> HIDE DEF t, c, a
    <3>3. t = [pc |-> "update", req |-> req, next |-> 1, closed |-> c, available |-> a,
               s |-> j.s, rows |-> j.rows, series |-> j.series]
      BY <1>2, <3>2 DEF Job
    <3>4. j.rows \in Seq(Row) /\ j.series \in Seq(Series)
      BY <1>2 DEF Job
    <3>5. t \in Job
      BY <1>2, <3>1, <3>3, <3>4 DEF Job
    <3>6. /\ t \in Job /\ t.req = req /\ t.next = 1
          /\ t.pc = "update" /\ t.series = <<>> /\ t.rows = <<>> /\ t.s = j.s
      BY <1>2, <1>4, <3>5, <3>3
    <3>7. n = Len(req.bars)
      BY <1>2, <1>5, <2>5
    <3> DEFINE p == req.profiles[1]
    <3>8. Streamed(j.s, req, p, 0)
      BY <1>2, <1>4, <1>5, StreamedNew
    <3>9. Updating(t)
      <4>1. Len(t.series) = 0 /\ DOMAIN t.series = {} /\ t.next - 1 = 0
        BY <3>6
      <4>2. t.rows = IF req.output = "latest" THEN <<>>
                     ELSE [i \in 1 .. t.next - 1 |-> Alone(req, p, i).latest]
        BY <3>6, <4>1
      <4>3. QED BY <1>5, <2>2, <3>6, <3>7, <3>8, <4>1, <4>2 DEF Updating
    <3>10. JobInv(t)
      BY <1>2, <1>5, <3>6, <3>9 DEF JobInv, Job
    <3>11. QED BY <2>1, <3>10, JobKeeps
  <2>6. QED BY <2>4, <2>5
<1>10. QED BY <1>6, <1>7, <1>8

(* The job after one bar of a profile: the stream of the bars up to it, and  *)
(* their rows if the series is asked for.                                    *)
LEMMA UpdateDone ==
  ASSUME NEW j, JobInv(j), Updating(j)
  PROVE  LET p    == j.req.profiles[Len(j.series) + 1]
             bar  == j.req.bars[j.next]
             done == [j EXCEPT !.s = Consume(j.s, bar),
                               !.rows = IF j.req.output = "series"
                                        THEN Append(@, Consume(j.s, bar).latest) ELSE @]
         IN  /\ Acceptable(bar, j.req.asOf, j.s)
             /\ p \in Profiles /\ done.s \in State /\ Streamed(done.s, j.req, p, j.next)
             /\ done \in Job /\ done.req = j.req /\ done.next = j.next /\ done.pc = "update"
             /\ done.series = j.series
             /\ done.rows = IF j.req.output = "latest" THEN <<>>
                            ELSE [n \in 1 .. j.next |-> Alone(j.req, p, n).latest]
<1> DEFINE p    == j.req.profiles[Len(j.series) + 1]
           bar  == j.req.bars[j.next]
           done == [j EXCEPT !.s = Consume(j.s, bar),
                             !.rows = IF j.req.output = "series"
                                      THEN Append(@, Consume(j.s, bar).latest) ELSE @]
<1>0. /\ p = j.req.profiles[Len(j.series) + 1] /\ bar = j.req.bars[j.next]
      /\ done = [j EXCEPT !.s = Consume(j.s, bar),
                          !.rows = IF j.req.output = "series"
                                   THEN Append(@, Consume(j.s, bar).latest) ELSE @]
  OBVIOUS
<1> HIDE DEF p, bar, done
<1> DEFINE req == j.req
           n   == j.next
           s   == Consume(j.s, bar)
<1>1. /\ j \in Job /\ req \in Request /\ ~TooLarge(req) /\ n \in Nat /\ n >= 1
      /\ n <= Len(req.bars) /\ j.s \in State /\ j.series \in Seq(Series)
      /\ j.rows \in Seq(Row) /\ req.output \in {"latest", "series"} /\ req.asOf \in Time
  BY DEF JobInv, Job, Request
<1>2. /\ j.pc = "update" /\ Checked(req, Len(req.bars)) /\ Len(j.series) < Len(req.profiles)
      /\ Streamed(j.s, req, p, n - 1)
      /\ j.rows = IF req.output = "latest" THEN <<>>
                  ELSE [i \in 1 .. n - 1 |-> Alone(req, p, i).latest]
  BY <1>0 DEF Updating
<1>3. /\ req.bars \in Seq(Bar) /\ Len(req.bars) \in Nat /\ n \in 1 .. Len(req.bars)
      /\ Len(j.series) \in Nat /\ Len(req.profiles) \in Nat
      /\ \A i \in 1 .. Len(req.profiles) : req.profiles[i] \in Profiles
  BY <1>1, SomeToDo
<1>4. p \in Profiles
  <2>1. Len(j.series) + 1 \in 1 .. Len(req.profiles)
    BY <1>2, <1>3
  <2>2. QED BY <1>0, <1>3, <2>1
<1>5. /\ Acceptable(bar, req.asOf, j.s) /\ s \in State /\ Streamed(s, req, p, n)
      /\ s.latest = Alone(req, p, n).latest
  BY <1>0, <1>1, <1>2, <1>3, <1>4, StreamedNext
<1> DEFINE rows == IF req.output = "series" THEN Append(j.rows, s.latest) ELSE j.rows
<1>6. rows \in Seq(Row)
  <2>1. s.latest \in Row
    BY <1>5 DEF State
  <2> HIDE DEF s
  <2>2. QED BY <1>1, <2>1
<1>7. rows = IF req.output = "latest" THEN <<>>
             ELSE [i \in 1 .. n |-> Alone(req, p, i).latest]
  <2> DEFINE l(i) == Alone(req, p, i).latest
  <2>1. CASE req.output = "latest"
    BY <1>2, <2>1
  <2>2. CASE req.output = "series"
    <3>1. rows = Append([i \in 1 .. n - 1 |-> l(i)], l(n))
      BY <1>2, <1>5, <2>2
    <3> HIDE DEF l, rows
    <3>2. Append([i \in 1 .. n - 1 |-> l(i)], l(n)) = [i \in 1 .. n |-> l(i)]
      BY <1>3
    <3>3. req.output # "latest"
      BY <2>2
    <3>4. QED BY <3>1, <3>2, <3>3 DEF l
  <2>3. QED BY <1>1, <2>1, <2>2
<1> HIDE DEF s, rows
<1>8. done = [j EXCEPT !.s = s, !.rows = rows]
  BY <1>0, <1>1 DEF s, rows, Job
<1>9. /\ done \in Job /\ done.s = s /\ done.rows = rows /\ done.req = j.req
      /\ done.next = j.next /\ done.pc = "update" /\ done.series = j.series
  BY <1>1, <1>2, <1>5, <1>6, <1>8 DEF Job
<1>10. QED BY <1>4, <1>5, <1>7, <1>9 DEF p, bar, done

(* The series of a profile whose stream consumed all bars. *)
LEMMA SeriesFinished ==
  ASSUME NEW req \in Request, ~TooLarge(req), NEW p \in Profiles, NEW s \in State, NEW rows,
         Streamed(s, req, p, Len(req.bars)),
         rows = IF req.output = "latest" THEN <<>>
                ELSE [n \in 1 .. Len(req.bars) |-> Alone(req, p, n).latest],
         rows \in Seq(Row)
  PROVE  /\ Finished(s, rows, req.output) = SeriesOf(req, p)
         /\ Finished(s, rows, req.output) \in Series
<1>1. s.profile = p /\ s.latest = Alone(req, p, Len(req.bars)).latest /\ s.latest \in Row
  BY DEF Streamed, State
<1>2. DOMAIN req.bars = 1 .. Len(req.bars)
  BY SomeToDo
<1>3. Finished(s, rows, req.output) = SeriesOf(req, p)
  BY <1>1, <1>2 DEF Finished, SeriesOf
<1>4. (IF req.output = "latest" THEN <<s.latest>> ELSE rows) \in Seq(Row)
  BY <1>1
<1> DEFINE r == IF req.output = "latest" THEN <<s.latest>> ELSE rows
<1>5. Finished(s, rows, req.output) = [profile |-> p, rows |-> r] /\ r \in Seq(Row)
  BY <1>1, <1>4 DEF Finished
<1> HIDE DEF r
<1>6. QED BY <1>3, <1>5 DEF Series

LEMMA UpdateKeeps ==
  ASSUME BatchInv, Update
  PROVE  BatchInv'
<1> DEFINE j    == job
           req  == j.req
           n    == j.next
           bar  == req.bars[n]
           p    == req.profiles[Len(j.series) + 1]
           s    == Consume(j.s, bar)
           done == [j EXCEPT !.s = s,
                             !.rows = IF req.output = "series" THEN Append(@, s.latest) ELSE @]
<1>1. JobInv(j) /\ j.pc = "update" /\ answer = Refused("none")
  BY DEF BatchInv, Update
<1>2. /\ j \in Job /\ req \in Request /\ ~TooLarge(req) /\ n \in Nat /\ n >= 1
      /\ n <= Len(req.bars) /\ j.series \in Seq(Series)
  BY <1>1 DEF JobInv, Job
<1>3. Updating(j)
  BY <1>1 DEF JobInv, Validating
<1>4. /\ Checked(req, Len(req.bars)) /\ Len(j.series) < Len(req.profiles)
      /\ \A i \in DOMAIN j.series : j.series[i] = SeriesOf(req, req.profiles[i])
  BY <1>3 DEF Updating
<1>5. /\ Acceptable(bar, req.asOf, j.s)
      /\ p \in Profiles /\ done.s \in State /\ Streamed(done.s, req, p, n)
      /\ done \in Job /\ done.req = req /\ done.next = n /\ done.pc = "update"
      /\ done.series = j.series
      /\ done.rows = IF req.output = "latest" THEN <<>>
                     ELSE [i \in 1 .. n |-> Alone(req, p, i).latest]
  BY <1>1, <1>3, UpdateDone
<1>6. Consumed(done)
  BY <1>5 DEF Update
<1> HIDE DEF s, bar, p, done
<1> DEFINE series == Finished(done.s, done.rows, req.output)
<1>7. /\ Len(req.bars) \in Nat /\ Len(req.profiles) \in Nat /\ req.profiles \in Seq(Profiles)
      /\ Len(j.series) \in Nat /\ DOMAIN j.series = 1 .. Len(j.series)
      /\ \A i \in 1 .. Len(req.profiles) : req.profiles[i] \in Profiles
  BY <1>2, SomeToDo
<1>8. CASE n < Len(req.bars)
  <2> DEFINE t == [done EXCEPT !.next = n + 1]
  <2>1. job' = t /\ answer' = Refused("none")
    BY <1>1, <1>5, <1>6, <1>8 DEF Consumed
  <2>2. /\ t \in Job /\ t.next = n + 1 /\ t.req = req /\ t.pc = "update"
        /\ t.series = j.series /\ t.s = done.s /\ t.rows = done.rows
    <3>1. n + 1 \in Nat \ {0}
      BY <1>2
    <3>2. QED BY <1>5, <3>1 DEF Job
  <2> HIDE DEF t
  <2>3. (n + 1) - 1 = n /\ n + 1 <= Len(req.bars)
    BY <1>2, <1>7, <1>8
  <2>4. Updating(t)
    <3>1. Streamed(t.s, t.req, p, t.next - 1)
      BY <1>5, <2>2, <2>3
    <3>2. t.rows = IF t.req.output = "latest" THEN <<>>
                   ELSE [i \in 1 .. t.next - 1 |-> Alone(t.req, p, i).latest]
      BY <1>5, <2>2, <2>3
    <3>3. QED BY <1>4, <2>2, <3>1, <3>2 DEF Updating, p
  <2>5. JobInv(t)
    BY <1>2, <2>2, <2>3, <2>4 DEF JobInv, Job
  <2>6. QED BY <2>1, <2>5, JobKeeps
<1>9. CASE n = Len(req.bars) /\ req.strict /\ TooWeak(series)
  <2>1. Fail("NotReady")
    <3>1. ~(n < Len(req.bars))
      BY <1>7, <1>9
    <3> HIDE DEF series
    <3>2. QED BY <1>6, <1>9, <3>1 DEF Consumed, series
  <2>2. QED BY <2>1, FailKeeps
<1>10. CASE ~(n < Len(req.bars)) /\ ~(n = Len(req.bars) /\ req.strict /\ TooWeak(series))
  <2>1. IF Len(j.series) + 1 < Len(req.profiles)
        THEN job' = NextJob(done, series) /\ UNCHANGED answer
        ELSE /\ job' = Idle
             /\ answer' = [code |-> "Ok", req |-> req, series |-> Append(j.series, series)]
    BY <1>6, <1>10 DEF Consumed
  <2>2. n = Len(req.bars)
    BY <1>2, <1>7, <1>10
  <2>3. series = SeriesOf(req, p) /\ series \in Series
    <3>1. done.rows \in Seq(Row)
      BY <1>5 DEF Job
    <3>2. QED BY <1>2, <1>5, <2>2, <3>1, SeriesFinished
  <2> HIDE DEF series
  <2> DEFINE all == Append(j.series, series)
  <2>4. /\ all \in Seq(Series) /\ Len(all) = Len(j.series) + 1
        /\ \A i \in 1 .. Len(j.series) + 1 :
             all[i] = IF i = Len(j.series) + 1 THEN series ELSE j.series[i]
    BY <1>2, <2>3
  <2> HIDE DEF all
  <2>5. \A i \in 1 .. Len(all) : all[i] = SeriesOf(req, req.profiles[i])
    <3> SUFFICES ASSUME NEW i \in 1 .. Len(all)
                 PROVE  all[i] = SeriesOf(req, req.profiles[i])
      OBVIOUS
    <3>1. CASE i = Len(j.series) + 1
      BY <1>7, <2>3, <2>4, <3>1 DEF p
    <3>2. CASE i # Len(j.series) + 1
      <4>1. i \in 1 .. Len(j.series)
        BY <1>7, <2>4, <3>2
      <4>2. all[i] = j.series[i]
        BY <2>4, <3>2
      <4>3. QED BY <1>4, <1>7, <4>1, <4>2
    <3>3. QED BY <3>1, <3>2
  <2>6. CASE Len(j.series) + 1 < Len(req.profiles)
    <3> DEFINE q == req.profiles[Len(j.series) + 2]
               new == NewStream(req.id, q)
               t == NextJob(done, series)
    <3>1. job' = t /\ answer' = Refused("none")
      BY <1>1, <2>1, <2>6
    <3>2. q \in Profiles
      BY <1>7, <2>6
    <3>3. new \in State /\ Streamed(new, req, q, 0)
      BY <1>2, <3>2, StreamedNew
    <3>4. t = [done EXCEPT !.next = 1, !.rows = <<>>, !.series = all, !.s = new]
      BY <1>5 DEF NextJob, all, Job
    <3> HIDE DEF t, new
    <3>5. /\ t \in Job /\ t.next = 1 /\ t.req = req /\ t.pc = "update" /\ t.series = all
          /\ t.s = new /\ t.rows = <<>>
      <4>1. t = [pc |-> "update", req |-> req, next |-> 1, closed |-> done.closed,
                 available |-> done.available, s |-> new, rows |-> <<>>, series |-> all]
        BY <1>5, <3>4 DEF Job
      <4>2. done.closed \in Nat /\ done.available \in Nat
        BY <1>5 DEF Job
      <4>3. QED BY <1>2, <2>4, <3>3, <4>1, <4>2 DEF Job
    <3>6. Len(t.series) + 1 = Len(j.series) + 2 /\ t.next - 1 = 0
      BY <1>7, <2>4, <3>5
    <3>7. t.rows = IF t.req.output = "latest" THEN <<>>
                   ELSE [i \in 1 .. t.next - 1 |-> Alone(t.req, q, i).latest]
      BY <3>5, <3>6
    <3>8. DOMAIN all = 1 .. Len(all)
      BY <2>4
    <3>9. Len(all) < Len(req.profiles)
      BY <2>4, <2>6
    <3>10. Updating(t)
      <4>1. t.req.profiles[Len(t.series) + 1] = q
        BY <3>5, <3>6
      <4> HIDE DEF q
      <4>2. QED BY <1>4, <2>5, <3>3, <3>5, <3>6, <3>7, <3>8, <3>9, <4>1 DEF Updating
    <3>11. 1 <= Len(req.bars)
      BY <1>2, <1>7
    <3>12. JobInv(t)
      BY <1>2, <3>5, <3>10, <3>11 DEF JobInv, Job
    <3>13. QED BY <3>1, <3>12, JobKeeps
  <2>7. CASE ~(Len(j.series) + 1 < Len(req.profiles))
    <3>1. /\ job' = Idle /\ answer' = [code |-> "Ok", req |-> req, series |-> all]
      BY <2>1, <2>7 DEF all
    <3>2. Len(all) = Len(req.profiles) /\ DOMAIN req.profiles = 1 .. Len(all)
      BY <1>4, <1>7, <2>4, <2>7
    <3>3. BatchIsStreams'
      BY <2>5, <3>1, <3>2 DEF BatchIsStreams
    <3>4. QED BY <3>1, <3>3 DEF BatchInv, Working
  <2>8. QED BY <2>6, <2>7
<1>11. QED BY <1>8, <1>9, <1>10

LEMMA BatchKeeps ==
  ASSUME BatchInv, [Next]_vars
  PROVE  BatchInv'
<1>1. CASE ~Working /\ answer = Refused("none") /\ \E req \in Request : Begin(req)
  BY <1>1, BeginKeeps
<1>2. CASE Preflight
  BY <1>2, PreflightKeeps
<1>3. CASE Update
  BY <1>3, UpdateKeeps
<1>4. CASE UpdateFails
  BY <1>4, FailKeeps DEF UpdateFails
<1>5. CASE Stop
  BY <1>5, FailKeeps DEF Stop
<1>6. CASE Return
  <2>1. ~Working /\ job' = job /\ answer'.code = "none"
    BY <1>6 DEF Return, BatchInv, Refused
  <2>2. QED BY <2>1 DEF BatchInv, BatchIsStreams, Working
<1>7. CASE UNCHANGED vars
  <2>1. job' = job /\ answer' = answer
    BY <1>7 DEF vars
  <2>2. QED BY <2>1 DEF BatchInv, BatchIsStreams, Working
<1>8. QED BY <1>1, <1>2, <1>3, <1>4, <1>5, <1>6, <1>7 DEF Next

(* A batch answers what a live stream of each of its profiles alone had    *)
(* answered: no other profile, and no earlier request, has a part in it.   *)
THEOREM BatchOfStreams == Spec => []BatchIsStreams
<1>1. BatchInv /\ [Next]_vars => BatchInv'
  BY BatchKeeps
<1>2. BatchInv => BatchIsStreams
  BY DEF BatchInv
<1>3. QED BY <1>1, <1>2, BatchStart, PTL DEF Spec

(* No stream refuses a bar the validation before it has let through. *)
THEOREM PreflightIsEnough == Spec => []PreflightSuffices
<1>1. BatchInv /\ [Next]_vars => BatchInv'
  BY BatchKeeps
<1>2. BatchInv => PreflightSuffices
  <2> SUFFICES ASSUME BatchInv, Working, job.pc = "update"
               PROVE  Acceptable(job.req.bars[job.next], job.req.asOf, job.s)
    BY DEF PreflightSuffices
  <2>1. JobInv(job) /\ Updating(job)
    BY DEF BatchInv, JobInv, Validating
  <2>2. QED BY <2>1, UpdateDone
<1>3. QED BY <1>1, <1>2, BatchStart, PTL DEF Spec

-----------------------------------------------------------------------------
(* The native batch                                                        *)

(* What is a sequence by its members, with one member more. *)
LEMMA SequenceNext ==
  ASSUME NEW n \in Nat, NEW s, Sequential(s, n), NEW x
  PROVE  /\ Len(s) = n /\ Len(Append(s, x)) = n + 1 /\ Sequential(Append(s, x), n + 1)
         /\ Append(s, x)[n + 1] = x /\ \A i \in 1 .. n : Append(s, x)[i] = s[i]
<1> DEFINE S == {s[i] : i \in 1 .. n} \cup {x}
           t == Append(s, x)
<1>1. s = [i \in 1 .. n |-> s[i]] /\ \A i \in 1 .. n : s[i] \in S
  BY DEF Sequential
<1> HIDE DEF S
<1>2. s \in [1 .. n -> S]
  BY <1>1
<1>3. s \in Seq(S) /\ Len(s) = n
  BY <1>2
<1>4. x \in S
  BY DEF S
<1>5. t \in Seq(S) /\ Len(t) = n + 1 /\ t[n + 1] = x /\ \A i \in 1 .. n : t[i] = s[i]
  BY <1>3, <1>4
<1> HIDE DEF t
<1>6. t = [i \in 1 .. n + 1 |-> t[i]]
  BY <1>5
<1>7. QED BY <1>3, <1>5, <1>6 DEF Sequential, t

(* A number is written in one way as a multiple and a rest. *)
LEMMA OneRest ==
  ASSUME NEW p \in Nat, p > 0, NEW q \in Int, NEW x \in Int,
         NEW r \in 0 .. p - 1, NEW s \in 0 .. p - 1, p * q + r = p * x + s
  PROVE  r = s
<1>1. p * (q - x) = s - r
  OBVIOUS
<1>2. CASE q - x >= 1
  <2>1. p * (q - x) >= p * 1
    BY <1>2
  <2>2. QED BY <1>1, <2>1
<1>3. CASE q - x <= -1
  <2>1. p * (q - x) <= p * (-1)
    BY <1>3
  <2>2. QED BY <1>1, <2>1
<1>4. CASE q = x
  BY <1>1, <1>4
<1>5. QED BY <1>2, <1>3, <1>4

(* The place in a group of p bars, one bar later. *)
LEMMA PlaceNext ==
  ASSUME NEW n \in Nat, NEW p \in Nat, p > 0
  PROVE  /\ n % p \in 0 .. p - 1 /\ n % p <= n
         /\ (n + 1) % p = IF (n % p) + 1 = p THEN 0 ELSE (n % p) + 1
<1> DEFINE m == n + 1
           q == n \div p
           r == n % p
           x == m \div p
           s == m % p
<1>1. m \in Nat
  OBVIOUS
<1> HIDE DEF m
<1>2. n = p * q + r /\ q \in Nat /\ r \in 0 .. p - 1
  OBVIOUS
<1>3. m = p * x + s /\ x \in Nat /\ s \in 0 .. p - 1
  BY <1>1
<1> HIDE DEF q, r, x, s
<1>4. p * q >= 0
  BY <1>2
<1>5. r <= n
  BY <1>2, <1>4
<1>6. CASE r + 1 = p
  <2>1. p * (q + 1) = p * q + p
    BY <1>2
  <2>2. p * (q + 1) + 0 = p * x + s
    BY <1>2, <1>3, <1>6, <2>1 DEF m
  <2>3. q + 1 \in Int /\ x \in Int /\ 0 \in 0 .. p - 1
    BY <1>2, <1>3
  <2> DEFINE y == q + 1
             none == 0
  <2> HIDE DEF y, none
  <2>4. p * y + none = p * x + s /\ y \in Int /\ none \in 0 .. p - 1
    BY <2>2, <2>3 DEF y, none
  <2>5. none = s
    BY <1>3, <2>3, <2>4, OneRest
  <2>6. QED BY <1>2, <1>5, <1>6, <2>5 DEF m, r, s, none
<1>7. CASE r + 1 # p
  <2> DEFINE more == r + 1
  <2>1. p * q + more = p * x + s /\ more \in 0 .. p - 1 /\ q \in Int /\ x \in Int
    BY <1>2, <1>3, <1>7 DEF m
  <2> HIDE DEF more
  <2>2. more = s
    BY <1>3, <2>1, OneRest
  <2>3. QED BY <1>2, <1>5, <1>7, <2>2 DEF m, r, s, more
<1>8. QED BY <1>6, <1>7

(* Bars are merged one after the other. *)
LEMMA MergedNext ==
  ASSUME NEW req, NEW end \in Nat, Len(req.bars) = end, NEW i \in 1 .. end
  PROVE  /\ Merged(req, i, i) = req.bars[i].candle
         /\ \A j \in i .. end - 1 :
              Merged(req, i, j + 1) = Merge(Merged(req, i, j), req.bars[j + 1].candle)
<1> DEFINE Upto(f, m) ==
             f = [n \in i .. m |-> IF n = i THEN req.bars[i].candle
                                   ELSE Merge(f[n - 1], req.bars[n].candle)]
           Missing == {m \in i .. end : ~\E f : Upto(f, m)}
<1>1. Missing = {}
  <2> SUFFICES ASSUME Missing # {} PROVE FALSE
    OBVIOUS
  <2>1. PICK m \in Missing : \A k \in Missing : m <= k
    <3>1. Missing \in SUBSET Nat
      OBVIOUS
    <3> HIDE DEF Missing
    <3>2. QED BY <3>1, LeastNumber
  <2>2. m # i
    <3> DEFINE f == [n \in i .. i |-> req.bars[i].candle]
    <3>1. Upto(f, i)
      OBVIOUS
    <3> HIDE DEF Upto, f
    <3>2. QED BY <3>1
  <2>3. PICK f : Upto(f, m - 1)
    <3> HIDE DEF Upto
    <3> QED BY <2>1, <2>2
  <2> DEFINE g == [n \in i .. m |-> IF n = m THEN Merge(f[m - 1], req.bars[m].candle) ELSE f[n]]
  <2>4. Upto(g, m)
    <3>1. m \in Nat /\ m > i /\ i \in Nat
      BY <2>2
    <3>2. \A n \in i .. m : n # m => n \in i .. m - 1 /\ g[n] = f[n]
      BY <3>1
    <3>3. \A n \in i .. m - 1 : f[n] = IF n = i THEN req.bars[i].candle
                                       ELSE Merge(f[n - 1], req.bars[n].candle)
      BY <2>3
    <3>4. \A n \in i .. m : n # i => n - 1 \in i .. m /\ g[n - 1] = f[n - 1]
      BY <3>1
    <3>5. \A n \in i .. m : g[n] = IF n = i THEN req.bars[i].candle
                                   ELSE Merge(g[n - 1], req.bars[n].candle)
      BY <3>1, <3>2, <3>3, <3>4
    <3>6. QED BY <3>5
  <2> HIDE DEF Upto
  <2>5. QED BY <2>4
<1>2. \E f : Upto(f, end)
  <2> HIDE DEF Upto
  <2>1. end \in i .. end
    OBVIOUS
  <2>2. QED BY <1>1, <2>1
<1> DEFINE f == CHOOSE g : Upto(g, end)
<1>3. Upto(f, end)
  <2> HIDE DEF Upto
  <2>1. QED BY <1>2
<1>4. \A j : Merged(req, i, j) = f[j]
  BY DEF Merged
<1> HIDE DEF f
<1>5. /\ f[i] = req.bars[i].candle
      /\ \A j \in i .. end - 1 : f[j + 1] = Merge(f[j], req.bars[j + 1].candle)
  BY <1>3
<1>6. QED BY <1>4, <1>5

-----------------------------------------------------------------------------
(* The bricks of Renko                                                     *)

(* How often one number goes into another. *)
LEMMA Goes ==
  ASSUME NEW a \in Nat, NEW b \in Nat, b > 0, a >= b
  PROVE  a \div b \in Nat /\ a \div b >= 1 /\ b * (a \div b) <= a /\ a < b * (a \div b) + b
<1> DEFINE q == a \div b
           r == a % b
<1>1. q \in Int /\ a = b * q + r /\ r \in 0 .. b - 1
  OBVIOUS
<1> HIDE DEF q, r
<1>2. CASE q <= 0
  <2>1. b * q <= b * 0
    BY <1>1, <1>2
  <2>2. QED BY <1>1, <2>1
<1>3. CASE q >= 1
  BY <1>1, <1>3 DEF q
<1>4. QED BY <1>1, <1>2, <1>3

LEMMA Distribute ==
  ASSUME NEW a \in Int, NEW b \in Int, NEW c \in Int, NEW d \in Int
  PROVE  a * (b + c * d) = a * b + (a * c) * d /\ a * (b - c * d) = a * b - (a * c) * d
OBVIOUS

LEMMA Products ==
  ASSUME NEW a \in Nat, NEW b \in Nat, a > 0, b > 0
  PROVE  a * b \in Nat /\ a * b > 0
OBVIOUS

(* The borders of a series of bricks are equidistant. *)
Equidistant(b, start, step, unit, len, volume) ==
  /\ Len(b) = len
  /\ \A i \in 1 .. len :
       /\ b[i].open = start + step * (i - 1) /\ b[i].close = start + step * i
       /\ b[i].unit = unit /\ b[i].volume = volume /\ b[i].parts = len

LEMMA BricksAre ==
  ASSUME NEW op, NEW p \in Nat, NEW w \in Nat, op.part = p, op.whole = w,
         NEW base \in Nat, NEW unit, NEW way \in {1, -1}, NEW len \in Nat, NEW volume
  PROVE  Equidistant(Bricks(op, base, unit, way, len, volume), base * w, way * (base * p),
                     unit, len, volume)
<1> DEFINE b == Bricks(op, base, unit, way, len, volume)
<1>1. b = [i \in 1 .. len |-> [open  |-> base * (w + way * p * (i - 1)),
                               close |-> base * (w + way * p * i),
                               unit |-> unit, volume |-> volume, parts |-> len]]
  BY DEF Bricks
<1>2. Len(b) = len
  BY <1>1
<1> HIDE DEF b
<1>3. base * (way * p) = way * (base * p)
  OBVIOUS
<1>4. ASSUME NEW j \in Int PROVE base * (w + way * p * j) = base * w + (way * (base * p)) * j
  BY <1>3, Distribute
<1>5. \A i \in 1 .. len : /\ base * (w + way * p * (i - 1)) = base * w + (way * (base * p)) * (i - 1)
                          /\ base * (w + way * p * i) = base * w + (way * (base * p)) * i
  BY <1>4
<1>6. QED BY <1>1, <1>2, <1>5 DEF Equidistant, b

(* They rise or fall all together. *)
LEMMA AllRise ==
  ASSUME NEW b, NEW start \in Int, NEW step \in Int, step # 0, NEW unit, NEW len \in Nat,
         NEW volume, Equidistant(b, start, step, unit, len, volume), NEW i \in 1 .. len
  PROVE  Rises(b[i]) <=> step > 0
<1>1. step * i = step * (i - 1) + step
  OBVIOUS
<1>2. QED BY <1>1 DEF Rises, Equidistant

(* Equidistant bricks up to less than one before the price are what one bar makes. *)
LEMMA OneRunOf ==
  ASSUME NEW op, NEW p \in Nat, p > 0, NEW w \in Nat, w > 0, op.part = p, op.whole = w,
         NEW base \in Nat, base > 0, NEW way \in {1, -1}, NEW len \in Nat, len >= 1,
         NEW block, block.unit \in Nat,
         base = IF way = 1 THEN block.upper ELSE block.lower,
         NEW b, NEW volume,
         Equidistant(b, base * w, way * (base * p), block.unit * w, len, volume),
         NEW price \in Nat,
         (base * p) * len <= way * (price * (block.unit * w) - base * w),
         way * (price * (block.unit * w) - base * w) < (base * p) * len + base * p
  PROVE  OneRun(op, b, block, price, volume)
<1> DEFINE size  == base * p
           start == base * w
           unit  == block.unit * w
           step  == way * size
<1>1. size \in Nat /\ size > 0 /\ start \in Nat /\ unit \in Nat /\ price * unit \in Nat
  BY Products
<1>2. /\ w * size = p * start /\ w * (-size) = -(p * start)
      /\ start * block.unit = base * unit
  OBVIOUS
<1>3. Equidistant(b, start, step, unit, len, volume)
  OBVIOUS
<1>4. LET V == price * unit
      IN  size * len <= way * (V - start) /\ way * (V - start) < size * len + size
  OBVIOUS
<1> HIDE DEF size, start, unit
<1>5. step \in Int /\ (step > 0 <=> way = 1) /\ step # 0 /\ step = IF way = 1 THEN size ELSE -size
  BY <1>1
<1>6. /\ Last(b) = b[len] /\ Len(b) = len /\ 1 \in 1 .. len /\ len \in 1 .. len
      /\ b[1].open = start /\ b[1].unit = unit
      /\ b[len].close = start + step * len /\ b[len].unit = unit
  <2>1. Last(b) = b[Len(b)] /\ step * (1 - 1) = 0 /\ 1 \in 1 .. len /\ len \in 1 .. len
    BY <1>5 DEF Last
  <2>2. b[1].open = start + step * (1 - 1)
    BY <1>3, <2>1 DEF Equidistant
  <2> HIDE DEF step
  <2>3. b[1].open = start
    BY <1>1, <2>1, <2>2
  <2>4. Len(b) = len /\ b[1].unit = unit /\ b[len].close = start + step * len /\ b[len].unit = unit
    BY <1>3, <2>1 DEF Equidistant
  <2>5. QED BY <2>1, <2>3, <2>4
<1>7. Rises(b[1]) <=> way = 1
  <2> DEFINE one == 1
  <2>1. one \in 1 .. len
    BY <1>6
  <2> HIDE DEF one, step
  <2>2. Rises(b[one]) <=> step > 0
    BY <1>1, <1>3, <1>5, <2>1, AllRise
  <2>3. QED BY <1>5, <2>2 DEF one
<1>8. b[1].open * block.unit = (IF Rises(b[1]) THEN block.upper ELSE block.lower) * b[1].unit
  BY <1>2, <1>6, <1>7
<1>9. ASSUME NEW i \in 1 .. len
      PROVE  /\ w * (b[i].close - b[i].open) = IF Rises(b[1]) THEN p * start ELSE -(p * start)
             /\ i > 1 => b[i].open = b[i - 1].close
             /\ b[i].unit = b[1].unit
             /\ b[i].parts = Len(b) /\ b[i].volume = volume
  <2>1. step * i = step * (i - 1) + step
    BY <1>5
  <2>2. b[i].open = start + step * (i - 1) /\ b[i].close = start + step * i
    BY <1>3 DEF Equidistant
  <2>3. b[i].close - b[i].open = step
    BY <1>1, <1>5, <2>1, <2>2
  <2>4. w * step = IF Rises(b[1]) THEN p * start ELSE -(p * start)
    BY <1>2, <1>5, <1>7
  <2>5. i > 1 => b[i].open = b[i - 1].close
    <3>1. ASSUME i > 1 PROVE i - 1 \in 1 .. len
      BY <3>1
    <3>2. QED BY <2>2, <3>1, <1>3 DEF Equidistant
  <2>6. QED BY <1>3, <1>6, <2>3, <2>4, <2>5 DEF Equidistant
<1>10. LET beyond == w * (IF Rises(b[1]) THEN price * Last(b).unit - Last(b).close
                          ELSE Last(b).close - price * Last(b).unit)
       IN  0 <= beyond /\ beyond < p * start
  <2> DEFINE V == price * unit
             rest == way * (V - start) - size * len
  <2>1. V \in Nat /\ V = price * unit
    BY <1>1
  <2>2. rest \in Int /\ 0 <= rest /\ rest < size
    BY <1>1, <1>4
  <2>3. step * len = IF way = 1 THEN size * len ELSE -(size * len)
    BY <1>1, <1>5
  <2> HIDE DEF V
  <2>4. rest = IF way = 1 THEN V - (start + step * len) ELSE (start + step * len) - V
    BY <1>1, <1>5, <2>1, <2>3
  <2> HIDE DEF rest
  <2>5. 0 <= w * rest /\ w * rest < w * size
    <3>1. w * (size - rest) > 0
      BY <1>1, <2>2, Products
    <3>2. w * (size - rest) = w * size - w * rest
      BY <1>1, <2>2
    <3>3. w * rest >= 0 /\ w * rest \in Int /\ w * size \in Int
      BY <1>1, <2>2
    <3>4. QED BY <3>1, <3>2, <3>3
  <2>6. QED BY <1>2, <1>6, <1>7, <2>1, <2>4, <2>5
<1>11. QED BY <1>6, <1>8, <1>9, <1>10 DEF OneRun

(* The last of them is the block that is remembered. *)
BlockReached(base, p, w, unit, way, len) ==
  IF way = 1
  THEN [upper |-> base * (w + p * len), lower |-> base * (w + p * (len - 1)), unit |-> unit]
  ELSE [upper |-> base * (w - p * (len - 1)), lower |-> base * (w - p * len), unit |-> unit]

RunOf(b, base, p, w, unit, way, len, volume) ==
  /\ base \in Nat /\ base > 0 /\ p \in Nat /\ p > 0 /\ w \in Nat /\ w > 0
  /\ unit \in Nat /\ unit > 0 /\ way \in {1, -1} /\ len \in Nat /\ len >= 1
  /\ way = 1 \/ p * len < w
  /\ Equidistant(b, base * w, way * (base * p), unit, len, volume)

LEMMA LastOfRun ==
  ASSUME NEW b, NEW base, NEW p, NEW w, NEW unit, NEW way, NEW len, NEW volume,
         RunOf(b, base, p, w, unit, way, len, volume)
  PROVE  /\ b # <<>> /\ Block(BlockOf(Last(b)))
         /\ BlockOf(Last(b)) = BlockReached(base, p, w, unit, way, len)
<1> DEFINE start == base * w
           step  == way * (base * p)
<1>0. /\ base \in Nat /\ base > 0 /\ p \in Nat /\ p > 0 /\ w \in Nat /\ w > 0
      /\ unit \in Nat /\ unit > 0 /\ way \in {1, -1} /\ len \in Nat /\ len >= 1
      /\ (way = 1 \/ p * len < w) /\ start = base * w /\ step = way * (base * p)
      /\ Equidistant(b, start, step, unit, len, volume)
  BY DEF RunOf
<1> HIDE DEF start, step
<1> DEFINE size  == base * p
           last  == Last(b)
<1>1. /\ size \in Nat /\ size > 0 /\ start \in Nat /\ start > 0
  BY <1>0, Products
<1>2. /\ base * (w + p * len) = start + size * len
      /\ base * (w + p * (len - 1)) = start + size * (len - 1)
      /\ base * (w - p * len) = start - size * len
      /\ base * (w - p * (len - 1)) = start - size * (len - 1)
      /\ size * len = size * (len - 1) + size
  <2>1. size * len = size * (len - 1) + size
    BY <1>0, <1>1
  <2>2. len - 1 \in Int
    BY <1>0
  <2>3. QED BY <1>0, <2>1, <2>2, Distribute
<1>3. way = -1 => start - size * len > 0
  <2>1. ASSUME way = -1 PROVE base * (w - p * len) > 0
    <3>1. w - p * len \in Nat /\ w - p * len > 0
      BY <1>0, <2>1
    <3>2. QED BY <1>0, <3>1, Products
  <2>2. QED BY <1>0, <1>2, <2>1
<1>4. step = way * size
  BY <1>0
<1> HIDE DEF size
<1>5. step \in Int /\ (step > 0 <=> way = 1) /\ step # 0 /\ step = IF way = 1 THEN size ELSE -size
  BY <1>0, <1>1, <1>4
<1>6. /\ last = b[len] /\ Len(b) = len
      /\ last.open = start + step * (len - 1) /\ last.close = start + step * len
      /\ last.unit = unit /\ b # <<>>
  <2>1. len \in 1 .. len /\ Len(b) = len /\ Len(<<>>) = 0
    BY <1>0 DEF Equidistant
  <2>2. last = b[len] /\ b # <<>>
    BY <1>0, <2>1 DEF Last
  <2>3. QED BY <1>0, <2>1, <2>2 DEF Equidistant
<1>7. Rises(last) <=> way = 1
  <2> HIDE DEF last
  <2>1. len \in 1 .. len
    BY <1>0
  <2>2. Rises(b[len]) <=> step > 0
    BY <1>0, <1>1, <1>5, <2>1, AllRise
  <2>3. QED BY <1>0, <1>5, <1>6, <2>2
<1>8. /\ step * len = IF way = 1 THEN size * len ELSE -(size * len)
      /\ step * (len - 1) = IF way = 1 THEN size * (len - 1) ELSE -(size * (len - 1))
  BY <1>0, <1>1, <1>5
<1>9. /\ size * len \in Nat /\ size * (len - 1) \in Nat
  BY <1>0, <1>1
<1> HIDE DEF last
<1>10. CASE way = 1
  <2>1. BlockOf(last) = [upper |-> start + size * len, lower |-> start + size * (len - 1), unit |-> unit]
    BY <1>0, <1>6, <1>7, <1>8, <1>10 DEF BlockOf
  <2>2. Block(BlockOf(last))
    BY <1>0, <1>1, <1>2, <1>9, <2>1 DEF Block
  <2>3. QED BY <1>0, <1>2, <1>6, <1>10, <2>1, <2>2 DEF last, BlockReached
<1>11. CASE way = -1
  <2>1. BlockOf(last) = [upper |-> start - size * (len - 1), lower |-> start - size * len, unit |-> unit]
    BY <1>1, <1>6, <1>7, <1>8, <1>9, <1>11 DEF BlockOf
  <2>2. Block(BlockOf(last))
    BY <1>0, <1>1, <1>2, <1>3, <1>9, <1>11, <2>1 DEF Block
  <2>3. QED BY <1>0, <1>2, <1>6, <1>11, <2>1, <2>2 DEF last, BlockReached
<1>12. QED BY <1>0, <1>10, <1>11

(* With every bar Renko stays within the block it remembers or goes over to *)
(* the last brick of a run.                                                 *)
Gone(op, block, volume, price, out) ==
  \/ /\ out.values = <<>> /\ Within(op, block, price)
     /\ Remembers(op, out.runner, block, volume)
  \/ /\ out.values # <<>> /\ OneRun(op, out.values, block, price, volume)
     /\ Block(BlockOf(Last(out.values)))
     /\ Remembers(op, out.runner, BlockOf(Last(out.values)), 0)

(* One run of bricks, either way. *)
LEMMA RunMoves ==
  ASSUME NEW op, NEW p \in Nat, p > 0, NEW w \in Nat, w > p, op.part = p, op.whole = w,
         NEW block, Block(block), NEW volume, NEW price \in Nat, price > 0,
         NEW way \in {1, -1}, NEW base, base = IF way = 1 THEN block.upper ELSE block.lower,
         NEW a, a = way * (price * (block.unit * w) - base * w), a >= base * p,
         NEW out, NEW len, len = a \div (base * p),
         out.values = Bricks(op, base, block.unit * w, way, len, volume),
         out.runner = IF way = 1
                      THEN NextBlocks(op, base * (w + p * len), base * (w + p * (len - 1)), block.unit * w)
                      ELSE NextBlocks(op, base * (w - p * (len - 1)), base * (w - p * len), block.unit * w)
  PROVE  Gone(op, block, volume, price, out)
<1> DEFINE unit == block.unit * w
           b    == out.values
<1>1. /\ base \in Nat /\ base > 0 /\ base * p \in Nat /\ base * p > 0
      /\ block.unit \in Nat /\ unit \in Nat /\ unit > 0 /\ price * unit \in Nat /\ price * unit > 0
  <2>1. base \in Nat /\ base > 0 /\ block.unit \in Nat /\ block.unit > 0
    BY DEF Block
  <2>2. unit \in Nat /\ unit > 0
    BY <2>1, Products
  <2> HIDE DEF unit
  <2>3. QED BY <2>1, <2>2, Products
<1>2. a \in Nat
  BY <1>1
<1>3. len \in Nat /\ len >= 1 /\ (base * p) * len <= a /\ a < (base * p) * len + base * p
  <2> DEFINE size == base * p
  <2>1. size \in Nat /\ size > 0 /\ a >= size /\ len = a \div size
    BY <1>1
  <2> HIDE DEF size
  <2>2. len \in Nat /\ len >= 1 /\ size * len <= a /\ a < size * len + size
    BY <1>2, <2>1, Goes
  <2>3. QED BY <2>2 DEF size
<1>4. way = 1 \/ p * len < w
  <2> SUFFICES ASSUME way = -1 PROVE p * len < w
    OBVIOUS
  <2>1. a < base * w
    <3>1. a = base * w - price * unit /\ base * w \in Nat
      BY <1>1
    <3>2. QED BY <1>1, <3>1
  <2>2. (base * p) * len = base * (p * len) /\ p * len \in Nat
    BY <1>1, <1>3
  <2>3. ASSUME w <= p * len PROVE FALSE
    <3>1. base * w <= base * (p * len)
      BY <1>1, <2>2, <2>3
    <3>2. base * w \in Nat /\ base * (p * len) \in Nat
      BY <1>1, <2>2
    <3>3. QED BY <1>2, <1>3, <2>1, <2>2, <3>1, <3>2
  <2>4. QED BY <2>2, <2>3
<1>5. Equidistant(b, base * w, way * (base * p), unit, len, volume)
  <2>1. b = Bricks(op, base, unit, way, len, volume)
    OBVIOUS
  <2> HIDE DEF unit, b
  <2>2. Equidistant(Bricks(op, base, unit, way, len, volume), base * w, way * (base * p),
                    unit, len, volume)
    BY <1>1, <1>3, BricksAre
  <2>3. QED BY <2>1, <2>2
<1>6. OneRun(op, b, block, price, volume)
  <2>1. /\ (base * p) * len <= way * (price * unit - base * w)
        /\ way * (price * unit - base * w) < (base * p) * len + base * p
    BY <1>3
  <2>2. w > 0 /\ Equidistant(b, base * w, way * (base * p), block.unit * w, len, volume)
    BY <1>5
  <2>3. /\ (base * p) * len <= way * (price * (block.unit * w) - base * w)
        /\ way * (price * (block.unit * w) - base * w) < (base * p) * len + base * p
    BY <2>1
  <2> HIDE DEF b, unit
  <2>4. QED BY <1>1, <1>3, <2>2, <2>3, OneRunOf
<1>7. /\ b # <<>> /\ Block(BlockOf(Last(b)))
      /\ BlockOf(Last(b)) = BlockReached(base, p, w, unit, way, len)
  <2>1. RunOf(b, base, p, w, unit, way, len, volume)
    BY <1>1, <1>3, <1>4, <1>5 DEF RunOf
  <2> HIDE DEF b, unit
  <2>2. QED BY <2>1, LastOfRun
<1>8. Remembers(op, out.runner, BlockOf(Last(b)), 0)
  <2>1. CASE way = 1
    BY <1>7, <2>1 DEF Remembers, NextBlocks, BlockReached
  <2>2. CASE way = -1
    BY <1>7, <2>2 DEF Remembers, NextBlocks, BlockReached
  <2>3. QED BY <2>1, <2>2
<1>9. QED BY <1>6, <1>7, <1>8 DEF Gone

LEMMA RenkoMoves ==
  ASSUME NEW op, NEW p \in Nat, p > 0, NEW w \in Nat, w > p, op.part = p, op.whole = w,
         NEW block, Block(block), NEW volume \in Int, NEW s, Remembers(op, s, block, volume),
         NEW c, c.close \in Nat, c.close > 0, c.volume \in Int
  PROVE  Gone(op, block, volume + c.volume, c.close, RenkoNext(op, s, c))
<1> DEFINE upper == block.upper
           lower == block.lower
           unit  == block.unit
           price == c.close
           more  == volume + c.volume
           rise  == ((price * unit - upper) * w) \div (upper * p)
           fall  == ((lower - price * unit) * w) \div (lower * p)
           out   == RenkoNext(op, s, c)
           up    == Emit(NextBlocks(op, upper * (w + p * rise), upper * (w + p * (rise - 1)), unit * w),
                         Bricks(op, upper, unit * w, 1, rise, more))
           down  == Emit(NextBlocks(op, lower * (w - p * (fall - 1)), lower * (w - p * fall), unit * w),
                         Bricks(op, lower, unit * w, -1, fall, more))
<1>1. /\ upper \in Nat /\ lower \in Nat /\ unit \in Nat /\ unit > 0 /\ lower > 0 /\ upper > 0
      /\ price \in Nat /\ price > 0
  BY DEF Block
<1>2. s = [upper |-> upper, lower |-> lower, unit |-> unit, nextUpper |-> upper * (w + p),
           nextLower |-> lower * (w - p), volume |-> volume]
  BY DEF Remembers, NextBlocks
<1>3. out = IF (price * unit) * w >= upper * (w + p) THEN up
            ELSE IF (price * unit) * w <= lower * (w - p) THEN down
            ELSE Emit([s EXCEPT !.volume = more], <<>>)
  BY <1>2 DEF RenkoNext
<1>4. /\ (price * unit - upper) * w = 1 * (price * (unit * w) - upper * w)
      /\ (lower - price * unit) * w = (-1) * (price * (unit * w) - lower * w)
      /\ (price * unit) * w = price * (unit * w)
      /\ upper * (w + p) = upper * w + upper * p
      /\ lower * (w - p) = lower * w - lower * p
      /\ price * (unit * w) \in Int /\ upper * w \in Int /\ upper * p \in Int
      /\ lower * w \in Int /\ lower * p \in Int
  BY <1>1
<1> HIDE DEF out, rise, fall
<1>5. CASE (price * unit) * w >= upper * (w + p)
  <2> DEFINE a   == 1 * (price * (unit * w) - upper * w)
             way == 1
  <2>1. out.values = Bricks(op, upper, unit * w, 1, rise, more)
        /\ out.runner = NextBlocks(op, upper * (w + p * rise), upper * (w + p * (rise - 1)), unit * w)
    BY <1>3, <1>5 DEF Emit
  <2>2. a >= upper * p
    BY <1>4, <1>5
  <2>3. rise = a \div (upper * p)
    BY <1>4 DEF rise
  <2> HIDE DEF upper, unit, price, more
  <2>4. a = way * (price * (unit * w) - upper * w)
    OBVIOUS
  <2>5. way \in {1, -1} /\ way = 1 /\ upper = IF way = 1 THEN block.upper ELSE block.lower
    BY DEF upper
  <2> HIDE DEF a, way
  <2>6. /\ a = way * (price * (block.unit * w) - upper * w)
        /\ out.values = Bricks(op, upper, block.unit * w, way, rise, more)
        /\ out.runner = IF way = 1
                        THEN NextBlocks(op, upper * (w + p * rise), upper * (w + p * (rise - 1)), block.unit * w)
                        ELSE NextBlocks(op, upper * (w - p * (rise - 1)), upper * (w - p * rise), block.unit * w)
    BY <2>1, <2>4, <2>5 DEF unit
  <2>7. Gone(op, block, more, price, out)
    BY <1>1, <2>2, <2>3, <2>5, <2>6, RunMoves
  <2>8. QED BY <2>7 DEF more, price, out
<1>6. CASE ~((price * unit) * w >= upper * (w + p)) /\ (price * unit) * w <= lower * (w - p)
  <2> DEFINE a   == (-1) * (price * (unit * w) - lower * w)
             way == -1
  <2>1. out.values = Bricks(op, lower, unit * w, -1, fall, more)
        /\ out.runner = NextBlocks(op, lower * (w - p * (fall - 1)), lower * (w - p * fall), unit * w)
    BY <1>3, <1>6 DEF Emit
  <2>2. a >= lower * p
    BY <1>4, <1>6
  <2>3. fall = a \div (lower * p)
    BY <1>4 DEF fall
  <2> HIDE DEF lower, unit, price, more
  <2>4. a = way * (price * (unit * w) - lower * w)
    OBVIOUS
  <2>5. way \in {1, -1} /\ way = -1 /\ way # 1 /\ lower = IF way = 1 THEN block.upper ELSE block.lower
    BY DEF lower
  <2> HIDE DEF a, way
  <2>6. /\ a = way * (price * (block.unit * w) - lower * w)
        /\ out.values = Bricks(op, lower, block.unit * w, way, fall, more)
        /\ out.runner = IF way = 1
                        THEN NextBlocks(op, lower * (w + p * fall), lower * (w + p * (fall - 1)), block.unit * w)
                        ELSE NextBlocks(op, lower * (w - p * (fall - 1)), lower * (w - p * fall), block.unit * w)
    BY <2>1, <2>4, <2>5 DEF unit
  <2>7. Gone(op, block, more, price, out)
    BY <1>1, <2>2, <2>3, <2>5, <2>6, RunMoves
  <2>8. QED BY <2>7 DEF more, price, out
<1>7. CASE ~((price * unit) * w >= upper * (w + p)) /\ ~((price * unit) * w <= lower * (w - p))
  <2>1. out.values = <<>> /\ out.runner = [s EXCEPT !.volume = more]
    BY <1>3, <1>7 DEF Emit
  <2>2. Within(op, block, price)
    BY <1>1, <1>4, <1>7 DEF Within
  <2>3. Remembers(op, out.runner, block, more)
    BY <1>2, <2>1 DEF Remembers, NextBlocks
  <2>4. QED BY <2>1, <2>2, <2>3 DEF Gone, more, price, out
<1>8. QED BY <1>5, <1>6, <1>7

(* Volume is traded bar by bar. *)
LEMMA TradedNext ==
  ASSUME NEW bars, NEW end \in Nat, Len(bars) = end,
         \A i \in 1 .. end : bars[i].candle.volume \in Int
  PROVE  /\ \A n \in 0 .. end : Traded(bars, n) \in Int
         /\ \A n \in 0 .. end - 1 :
              Traded(bars, n + 1) = Traded(bars, n) + bars[n + 1].candle.volume
<1> DEFINE Upto(f, m) ==
             f = [n \in 0 .. m |-> IF n = 0 THEN 0 ELSE f[n - 1] + bars[n].candle.volume]
           Missing == {m \in 0 .. end : ~\E f \in [0 .. m -> Int] : Upto(f, m)}
<1>1. Missing = {}
  <2> SUFFICES ASSUME Missing # {} PROVE FALSE
    OBVIOUS
  <2>1. PICK m \in Missing : \A k \in Missing : m <= k
    <3>1. Missing \in SUBSET Nat
      OBVIOUS
    <3> HIDE DEF Missing
    <3>2. QED BY <3>1, LeastNumber
  <2>2. m # 0
    <3> DEFINE f == [n \in 0 .. 0 |-> 0]
    <3>1. Upto(f, 0) /\ f \in [0 .. 0 -> Int]
      OBVIOUS
    <3> HIDE DEF Upto, f
    <3>2. QED BY <3>1
  <2>3. PICK f \in [0 .. m - 1 -> Int] : Upto(f, m - 1)
    <3> HIDE DEF Upto
    <3> QED BY <2>1, <2>2
  <2> DEFINE g == [n \in 0 .. m |-> IF n = m THEN f[m - 1] + bars[m].candle.volume ELSE f[n]]
  <2>4. m \in Nat /\ m > 0 /\ m \in 1 .. end
    BY <2>2
  <2>5. g \in [0 .. m -> Int]
    BY <2>4
  <2>6. Upto(g, m)
    <3>2. \A n \in 0 .. m : n # m => n \in 0 .. m - 1 /\ g[n] = f[n]
      BY <2>4
    <3>3. \A n \in 0 .. m - 1 : f[n] = IF n = 0 THEN 0 ELSE f[n - 1] + bars[n].candle.volume
      BY <2>3
    <3>4. \A n \in 0 .. m : n # 0 => n - 1 \in 0 .. m /\ g[n - 1] = f[n - 1]
      BY <2>4
    <3>5. \A n \in 0 .. m : g[n] = IF n = 0 THEN 0 ELSE g[n - 1] + bars[n].candle.volume
      BY <2>4, <3>2, <3>3, <3>4
    <3>6. QED BY <3>5
  <2> HIDE DEF Upto, g
  <2>7. QED BY <2>5, <2>6
<1>2. \E f : Upto(f, end) /\ f \in [0 .. end -> Int]
  <2> HIDE DEF Upto
  <2>1. end \in 0 .. end
    OBVIOUS
  <2>2. QED BY <1>1, <2>1
<1> DEFINE f == CHOOSE g : Upto(g, end)
<1>3. Upto(f, end)
  <2> HIDE DEF Upto
  <2>1. QED BY <1>2
<1>4. \A n : Traded(bars, n) = f[n]
  BY DEF Traded
<1>5. \A g : Upto(g, end) => g = f
  <2> SUFFICES ASSUME NEW g, Upto(g, end) PROVE g = f
    OBVIOUS
  <2> HIDE DEF f
  <2> DEFINE Other == {n \in 0 .. end : g[n] # f[n]}
  <2>1. Other = {}
    <3> SUFFICES ASSUME Other # {} PROVE FALSE
      OBVIOUS
    <3>1. PICK m \in Other : \A k \in Other : m <= k
      <4>1. Other \in SUBSET Nat
        OBVIOUS
      <4> HIDE DEF Other
      <4>2. QED BY <4>1, LeastNumber
    <3>2. m # 0
      BY <1>3
    <3>3. m - 1 \in 0 .. end /\ g[m - 1] = f[m - 1]
      BY <3>1, <3>2
    <3>4. g[m] = f[m]
      BY <1>3, <3>2, <3>3
    <3>5. QED BY <3>4
  <2>2. g = [n \in 0 .. end |-> g[n]] /\ f = [n \in 0 .. end |-> f[n]]
    BY <1>3
  <2>3. QED BY <2>1, <2>2
<1>6. f \in [0 .. end -> Int]
  <2> HIDE DEF Upto, f
  <2>1. QED BY <1>2, <1>5
<1> HIDE DEF f
<1>7. \A n \in 0 .. end - 1 : f[n + 1] = f[n] + bars[n + 1].candle.volume
  BY <1>3
<1>8. QED BY <1>4, <1>6, <1>7

(* The first block is a brick about the first price. *)
LEMMA FirstIsBlock ==
  ASSUME NEW op, NEW p \in Nat, p > 0, NEW w \in Nat, w > p, op.part = p, op.whole = w,
         NEW price \in Nat, price > 0
  PROVE  Block(FirstBlock(op, price))
<1>1. 2 * w + p \in Nat /\ 2 * w - p \in Nat /\ 2 * w - p > 0 /\ 2 * w \in Nat /\ 2 * w > 0
  OBVIOUS
<1>2. /\ price * (2 * w + p) \in Nat /\ price * (2 * w - p) \in Nat /\ price * (2 * w - p) > 0
      /\ price * p > 0
  BY <1>1, Products
<1>3. price * (2 * w + p) = price * (2 * w - p) + 2 * (price * p)
  OBVIOUS
<1>4. price * (2 * w - p) < price * (2 * w + p)
  BY <1>2, <1>3
<1>5. FirstBlock(op, price) = [upper |-> price * (2 * w + p), lower |-> price * (2 * w - p),
                               unit |-> 2 * w]
  BY DEF FirstBlock
<1>6. QED BY <1>1, <1>2, <1>4, <1>5 DEF Block

(* What a row says of the ones before it does not depend on those after. *)
LEMMA ChainedStays ==
  ASSUME NEW op, NEW bars, NEW rows, NEW more, NEW n \in Nat,
         \A i \in 1 .. n : more[i] = rows[i], NEW r \in 1 .. n, RowChained(op, bars, rows, r)
  PROVE  RowChained(op, bars, more, r)
<1>1. PICK p \in 0 .. r - 1 :
        /\ LastMaking(rows, r - 1, p)
        /\ IF rows[r].values = <<>> THEN Within(op, BlockAfter(op, bars, rows, p), bars[r].candle.close)
           ELSE OneRun(op, rows[r].values, BlockAfter(op, bars, rows, p), bars[r].candle.close,
                       Traded(bars, r) - Traded(bars, p))
  BY DEF RowChained
<1>2. more[r] = rows[r]
  OBVIOUS
<1>3. LastMaking(more, r - 1, p)
  <2>1. \A i \in 1 .. r - 1 : more[i] = rows[i]
    OBVIOUS
  <2>2. QED BY <1>1, <2>1 DEF LastMaking
<1>4. BlockAfter(op, bars, more, p) = BlockAfter(op, bars, rows, p)
  <2>1. p # 0 => more[p] = rows[p]
    BY <1>1
  <2>2. QED BY <2>1 DEF BlockAfter
<1>5. QED BY <1>1, <1>2, <1>3, <1>4 DEF RowChained

(* The bars of a request that was not refused. *)
Valid(bars) == \A i \in 1 .. Len(bars) : ValidCandle(bars[i].candle)

LEMMA ValidBars ==
  ASSUME NEW bars \in Seq(Bar), Valid(bars), NEW i \in 1 .. Len(bars)
  PROVE  /\ bars[i].candle.close \in Nat /\ bars[i].candle.close > 0
         /\ bars[i].candle.volume \in Int
<1>1. bars[i] \in Bar
  OBVIOUS
<1>2. bars[i].candle \in [open: Int, high: Int, low: Int, close: Int, volume: Int]
  BY <1>1, EngineAssumption DEF Bar
<1>3. ValidCandle(bars[i].candle)
  BY DEF Valid
<1>4. QED BY <1>2, <1>3 DEF ValidCandle

Brick(op) == op.whole \in Nat /\ op.part \in 1 .. op.whole - 1

(* A new Renko is within the first block. *)
LEMMA RenkoBegins ==
  ASSUME NEW req, req.bars \in Seq(Bar), Valid(req.bars), Len(req.bars) > 0,
         NEW op, op.id = "renko", Brick(op)
  PROVE  RenkoOf(req, op, 0, NewRunner(op, req.bars[1].candle), <<>>)
<1> DEFINE price  == req.bars[1].candle.close
           block  == FirstBlock(op, price)
           runner == NewRunner(op, req.bars[1].candle)
           none   == 0
<1>1. Len(req.bars) \in Nat /\ 1 \in 1 .. Len(req.bars)
  OBVIOUS
<1>2. price \in Nat /\ price > 0
  BY <1>1, ValidBars
<1>3. Block(block)
  <2> HIDE DEF price
  <2>1. QED BY <1>2, FirstIsBlock DEF Brick
<1>4. Traded(req.bars, 0) \in Int
  <2>1. \A i \in 1 .. Len(req.bars) : req.bars[i].candle.volume \in Int
    BY ValidBars
  <2>2. 0 \in 0 .. Len(req.bars)
    BY <1>1
  <2>3. QED BY <1>1, <2>1, <2>2, TradedNext
<1>5. Remembers(op, runner, block, 0)
  BY DEF Remembers, NewRunner, NextBlocks, FirstBlock
<1>6. Traded(req.bars, none) - Traded(req.bars, none) = 0
  BY <1>4
<1>7. LastMaking(<<>>, none, none) /\ none \in 0 .. none /\ 1 .. none = {}
  BY DEF LastMaking
<1>8. BlockAfter(op, req.bars, <<>>, none) = block
  BY DEF BlockAfter
<1> HIDE DEF block, runner, none
<1>9. RenkoOf(req, op, none, runner, <<>>)
  BY <1>3, <1>5, <1>6, <1>7, <1>8 DEF RenkoOf
<1>10. QED BY <1>9 DEF none, runner

(* The rows of a series with that of one more bar. *)
LEMMA RenkoRuns ==
  ASSUME NEW req, req.bars \in Seq(Bar), Valid(req.bars), NEW op, op.id = "renko", Brick(op),
         NEW n \in Nat, n + 1 <= Len(req.bars), NEW runner, NEW rows,
         req.output = "series" => Sequential(rows, n), RenkoOf(req, op, n, runner, rows)
  PROVE  LET out == Run(op, runner, req.bars[n + 1].candle)
         IN  RenkoOf(req, op, n + 1, out.runner,
                     IF Retained(req, n + 1) THEN Append(rows, NewRow(req, n + 1, out.values))
                     ELSE rows)
<1> DEFINE bars == req.bars
           m    == n + 1
           c    == bars[m].candle
           out  == RenkoNext(op, runner, c)
           row  == NewRow(req, m, out.values)
           all  == Append(rows, row)
           kept == IF Retained(req, m) THEN all ELSE rows
<1>1. Run(op, runner, c) = out
  BY DEF Run
<1>2. CASE req.output # "series"
  BY <1>1, <1>2 DEF RenkoOf
<1>3. CASE req.output = "series"
  <2>1. kept = all
    BY <1>3 DEF Retained
  <2>2. row.values = out.values
    BY DEF NewRow
  <2>3. m \in Nat /\ m \in 1 .. Len(bars) /\ m = n + 1 /\ Len(bars) \in Nat /\ m - 1 = n
    OBVIOUS
  <2>4. c.close \in Nat /\ c.close > 0 /\ c.volume \in Int
    BY <2>3, ValidBars
  <2>5. /\ \A i \in 0 .. Len(bars) : Traded(bars, i) \in Int
        /\ Traded(bars, m) = Traded(bars, n) + c.volume
    <3>1. \A i \in 1 .. Len(bars) : bars[i].candle.volume \in Int
      BY ValidBars
    <3>2. n \in 0 .. Len(bars) - 1
      BY <2>3
    <3>3. QED BY <2>3, <3>1, <3>2, TradedNext
  <2>6. /\ \A r \in 1 .. n : RowChained(op, bars, rows, r)
        /\ \E p \in 0 .. n :
             LET block == BlockAfter(op, bars, rows, p)
             IN  /\ LastMaking(rows, n, p) /\ Block(block)
                 /\ Remembers(op, runner, block, Traded(bars, n) - Traded(bars, p))
    BY <1>3 DEF RenkoOf
  <2> DEFINE After(p) == BlockAfter(op, bars, rows, p)
             Since(p) == Traded(bars, n) - Traded(bars, p)
  <2>7. PICK p \in 0 .. n : LastMaking(rows, n, p) /\ Block(After(p)) /\ Remembers(op, runner, After(p), Since(p))
    BY <2>6
  <2> DEFINE block == After(p)
             more  == Traded(bars, m) - Traded(bars, p)
  <2>8. Since(p) \in Int /\ more = Since(p) + c.volume
    <3>1. p \in 0 .. Len(bars) /\ n \in 0 .. Len(bars)
      BY <2>3, <2>7
    <3>2. Traded(bars, p) \in Int /\ Traded(bars, n) \in Int
      BY <2>5, <3>1
    <3>3. QED BY <2>4, <2>5, <3>2
  <2>9. Gone(op, block, more, c.close, out)
    <3> DEFINE since == Since(p)
    <3>1. since \in Int /\ more = since + c.volume /\ Remembers(op, runner, block, since) /\ Block(block)
      BY <2>7, <2>8
    <3> HIDE DEF since, block, more, c
    <3>2. op.part \in Nat /\ op.part > 0 /\ op.whole \in Nat /\ op.whole > op.part
      BY DEF Brick
    <3>3. Gone(op, block, since + c.volume, c.close, RenkoNext(op, runner, c))
      BY <2>4, <3>1, <3>2, RenkoMoves
    <3>4. QED BY <3>1, <3>3
  <2>10. /\ all[m] = row /\ \A i \in 1 .. n : all[i] = rows[i]
    <3>1. Sequential(rows, n)
      BY <1>3
    <3> HIDE DEF row, all
    <3>2. QED BY <3>1, SequenceNext DEF all
  <2>11. LastMaking(all, n, p) /\ BlockAfter(op, bars, all, p) = block
    <3> HIDE DEF all, row
    <3>0. p \in Nat /\ p <= n
      OBVIOUS
    <3>1. p # 0 => all[p] = rows[p]
      BY ONLY n \in Nat, <2>10, <3>0
    <3>2. \A i \in p + 1 .. n : all[i] = rows[i]
      BY ONLY n \in Nat, <2>10, <3>0
    <3>3. LastMaking(all, n, p)
      BY <2>7, <3>1, <3>2 DEF LastMaking
    <3>4. BlockAfter(op, bars, all, p) = block
      BY <3>1 DEF BlockAfter
    <3>5. QED BY <3>3, <3>4
  <2>12. \A r \in 1 .. n : RowChained(op, bars, all, r)
    <3> HIDE DEF all, bars
    <3>1. QED BY <2>6, <2>10, ChainedStays
  <2> HIDE DEF all, row, block, more, c, bars
  <2>13. CASE out.values = <<>>
    <3>1. Within(op, block, c.close) /\ Remembers(op, out.runner, block, more)
      BY <2>9, <2>13 DEF Gone
    <3>2. RowChained(op, bars, all, m)
      <4>1. p \in 0 .. m - 1 /\ LastMaking(all, m - 1, p) /\ all[m].values = <<>>
        BY <2>2, <2>3, <2>7, <2>10, <2>11, <2>13
      <4>2. QED BY <2>11, <3>1, <4>1 DEF RowChained, c
    <3>3. p \in 0 .. m /\ LastMaking(all, m, p)
      <4>1. all[m].values = <<>>
        BY <2>2, <2>10, <2>13
      <4>2. \A i \in p + 1 .. m : i \in p + 1 .. n \/ i = m
        BY <2>3, <2>7
      <4>3. p \in 0 .. m
        BY <2>3, <2>7
      <4>4. QED BY <2>11, <4>1, <4>2, <4>3 DEF LastMaking
    <3>4. \A r \in 1 .. m : RowChained(op, bars, all, r)
      <4>1. \A r \in 1 .. m : r \in 1 .. n \/ r = m
        BY <2>3
      <4>2. QED BY <2>12, <3>2, <4>1
    <3>5. RenkoOf(req, op, m, out.runner, all)
      BY <2>7, <2>11, <3>1, <3>3, <3>4 DEF RenkoOf, bars, more, block
    <3>6. QED BY <1>1, <2>1, <3>5 DEF m, c, bars, all, row
  <2>14. CASE out.values # <<>>
    <3> DEFINE next == BlockOf(Last(out.values))
    <3>1. OneRun(op, out.values, block, c.close, more) /\ Block(next) /\ Remembers(op, out.runner, next, 0)
      BY <2>9, <2>14 DEF Gone
    <3>2. RowChained(op, bars, all, m)
      <4>1. p \in 0 .. m - 1 /\ LastMaking(all, m - 1, p) /\ all[m].values = out.values
        BY <2>2, <2>3, <2>7, <2>10, <2>11
      <4>2. QED BY <2>11, <2>14, <3>1, <4>1 DEF RowChained, c, more
    <3>3. m \in 0 .. m /\ LastMaking(all, m, m)
      <4>1. all[m].values # <<>>
        BY <2>2, <2>10, <2>14
      <4>2. \A i \in m + 1 .. m : FALSE
        BY <2>3
      <4>3. QED BY <2>3, <4>1, <4>2 DEF LastMaking
    <3>4. \A r \in 1 .. m : RowChained(op, bars, all, r)
      <4>1. \A r \in 1 .. m : r \in 1 .. n \/ r = m
        BY <2>3
      <4>2. QED BY <2>12, <3>2, <4>1
    <3>5. BlockAfter(op, bars, all, m) = next
      BY <2>2, <2>3, <2>10 DEF BlockAfter
    <3>6. Traded(bars, m) - Traded(bars, m) = 0
      <4>1. Traded(bars, m) \in Int
        BY <2>3, <2>5
      <4>2. QED BY <4>1
    <3> HIDE DEF next
    <3>7. RenkoOf(req, op, m, out.runner, all)
      BY <3>1, <3>3, <3>4, <3>5, <3>6 DEF RenkoOf, bars
    <3>8. QED BY <1>1, <2>1, <3>7 DEF m, c, bars, all, row
  <2>15. QED BY <2>13, <2>14
<1>4. QED BY <1>2, <1>3

-----------------------------------------------------------------------------
(* An operation alone                                                      *)

Runnable(op) ==
  /\ op.id \in {"past", "collapse", "renko"}
  /\ IF op.id = "renko" THEN Brick(op) ELSE op.period \in Nat /\ op.period > 0

(* Past: the window moves by one bar. *)
LEMMA PastRuns ==
  ASSUME NEW req, req.bars \in Seq(Bar), NEW op, op.id = "past", Runnable(op),
         NEW n \in Nat, n + 1 <= Len(req.bars), NEW w, RunnerOf(req, op, n, w)
  PROVE  LET out == PastNext(w, req.bars[n + 1].candle)
         IN  RunnerOf(req, op, n + 1, out.runner) /\ out.values = Said(req, op, n + 1)
<1> DEFINE bars   == req.bars
           p      == op.period
           At(m)  == IF m > 1 THEN m ELSE 1
           c      == bars[n + 1].candle
           v      == Append(Tail(w), c)
<1>1. /\ p \in Nat /\ p > 0 /\ Len(bars) \in Nat /\ bars \in Seq(Bar) /\ n + 1 <= Len(bars)
      /\ w = [i \in 1 .. p |-> bars[At((n - p) + i)].candle]
  BY DEF Runnable, RunnerOf
<1>2. \A i \in 1 .. Len(bars) : bars[i].candle \in Candles
  <2>1. bars \in Seq(Bar)
    OBVIOUS
  <2> HIDE DEF bars
  <2>2. \A i \in 1 .. Len(bars) : bars[i] \in Bar
    BY <2>1
  <2>3. QED BY <2>2 DEF Bar
<1>3. Said(req, op, n + 1) = <<bars[IF n + 1 > p THEN (n + 1) - p ELSE 1].candle>>
  BY DEF Said
<1>4. RunnerOf(req, op, n + 1, v) <=> v = [i \in 1 .. p |-> bars[At(((n + 1) - p) + i)].candle]
  BY DEF RunnerOf
<1> HIDE DEF bars, p, v
<1>5. \A i \in 1 .. p : At((n - p) + i) \in 1 .. Len(bars) /\ w[i] \in Candles
  <2> SUFFICES ASSUME NEW i \in 1 .. p
               PROVE  At((n - p) + i) \in 1 .. Len(bars) /\ w[i] \in Candles
    OBVIOUS
  <2>1. At((n - p) + i) \in 1 .. Len(bars)
    BY <1>1
  <2>2. w[i] = bars[At((n - p) + i)].candle
    BY <1>1
  <2> HIDE DEF At
  <2>3. QED BY <1>2, <2>1, <2>2
<1>0. p \in Nat /\ p > 0
  BY <1>1
<1>6. w \in Seq(Candles) /\ Len(w) = p /\ w # <<>>
  <2> HIDE DEF At
  <2>1. w \in [1 .. p -> Candles]
    BY <1>1, <1>5
  <2>2. QED BY <1>0, <2>1
<1>7. c \in Candles
  BY <1>1, <1>2
<1> HIDE DEF c
<1>8. /\ v \in Seq(Candles) /\ Len(v) = p /\ v[p] = c
      /\ \A i \in 1 .. p - 1 : v[i] = w[i + 1]
  BY <1>0, <1>6, <1>7 DEF v
<1>9. \A i \in 1 .. p : v[i] = bars[At(((n + 1) - p) + i)].candle
  <2> SUFFICES ASSUME NEW i \in 1 .. p PROVE v[i] = bars[At(((n + 1) - p) + i)].candle
    OBVIOUS
  <2>1. CASE i = p
    <3>1. At(((n + 1) - p) + i) = n + 1
      BY <1>1, <2>1
    <3>2. QED BY <1>8, <2>1, <3>1 DEF c
  <2>2. CASE i # p
    <3>1. i \in 1 .. p - 1 /\ i + 1 \in 1 .. p /\ ((n + 1) - p) + i = (n - p) + (i + 1)
      BY <1>1, <2>2
    <3> HIDE DEF At
    <3>2. w[i + 1] = bars[At((n - p) + (i + 1))].candle
      BY <1>1, <3>1
    <3>3. QED BY <1>8, <3>1, <3>2
  <2>3. QED BY <2>1, <2>2
<1>10. v = [i \in 1 .. p |-> bars[At(((n + 1) - p) + i)].candle]
  <2> HIDE DEF At
  <2>1. v = [i \in 1 .. p |-> v[i]]
    BY <1>8
  <2>2. QED BY <1>9, <2>1
<1>11. Head(w) = bars[IF n + 1 > p THEN (n + 1) - p ELSE 1].candle
  <2>1. Head(w) = w[1] /\ 1 \in 1 .. p
    BY <1>1, <1>6
  <2>2. At((n - p) + 1) = IF n + 1 > p THEN (n + 1) - p ELSE 1
    BY <1>1
  <2> HIDE DEF At
  <2>3. QED BY <1>1, <2>1, <2>2
<1>12. PastNext(w, c).runner = v /\ PastNext(w, c).values = <<Head(w)>>
  BY DEF PastNext, Emit, v
<1>13. RunnerOf(req, op, n + 1, v) /\ <<Head(w)>> = Said(req, op, n + 1)
  <2> HIDE DEF At
  <2>1. QED BY <1>3, <1>4, <1>10, <1>11
<1>14. QED BY <1>12, <1>13 DEF c, bars

(* CollapseTimeframe: a group goes on, ends or begins. *)
LEMMA CollapseRuns ==
  ASSUME NEW req, req.bars \in Seq(Bar), NEW op, op.id = "collapse", Runnable(op),
         NEW n \in Nat, n + 1 <= Len(req.bars), NEW s, RunnerOf(req, op, n, s)
  PROVE  LET out == CollapseNext(s, op.period, req.bars[n + 1].candle)
         IN  RunnerOf(req, op, n + 1, out.runner) /\ out.values = Said(req, op, n + 1)
<1> DEFINE p     == op.period
           c     == req.bars[n + 1].candle
           index == n % p
           begin == (n - index) + 1
           whole == Merged(req, begin, n + 1)
           current == IF s.current = <<>> THEN <<c>> ELSE <<Merge(s.current[1], c)>>
           out   == CollapseNext(s, p, c)
<1>1. /\ p \in Nat /\ p > 0 /\ Len(req.bars) \in Nat
      /\ s.index = index
      /\ s.current = IF index = 0 THEN <<>> ELSE <<Merged(req, begin, n)>>
  BY DEF Runnable, RunnerOf
<1>2. index \in 0 .. p - 1 /\ index <= n /\ (n + 1) % p = IF index + 1 = p THEN 0 ELSE index + 1
  BY <1>1, PlaceNext
<1>3. /\ Said(req, op, n + 1) = IF (n + 1) % p = 0 THEN <<Merged(req, ((n + 1) - p) + 1, n + 1)>>
                                ELSE <<>>
      /\ \A r : RunnerOf(req, op, n + 1, r) <=>
           r = [index   |-> (n + 1) % p,
                current |-> IF (n + 1) % p = 0 THEN <<>>
                            ELSE <<Merged(req, ((n + 1) - ((n + 1) % p)) + 1, n + 1)>>]
  BY DEF Said, RunnerOf
<1> HIDE DEF index
<1>4. begin \in 1 .. Len(req.bars) /\ begin <= n + 1
  BY <1>1, <1>2
<1>5. current = <<whole>>
  <2>1. /\ Merged(req, begin, begin) = req.bars[begin].candle
        /\ \A j \in begin .. Len(req.bars) - 1 :
             Merged(req, begin, j + 1) = Merge(Merged(req, begin, j), req.bars[j + 1].candle)
    BY <1>1, <1>4, MergedNext
  <2>2. CASE index = 0
    <3>1. begin = n + 1
      BY <2>2
    <3>2. QED BY <1>1, <2>1, <2>2, <3>1
  <2>3. CASE index # 0
    <3>1. n \in begin .. Len(req.bars) - 1
      BY <1>1, <1>2, <1>4, <2>3
    <3> HIDE DEF begin
    <3>2. QED BY <1>1, <2>1, <2>3, <3>1
  <2>4. QED BY <2>2, <2>3
<1> HIDE DEF current, c, whole
<1>6. CASE index + 1 = p
  <2>1. ((n + 1) - p) + 1 = begin
    BY <1>1, <1>2, <1>6
  <2>2. out = Emit([current |-> <<>>, index |-> 0], current)
    BY <1>1, <1>6 DEF CollapseNext, current
  <2>3. Said(req, op, n + 1) = <<whole>>
    BY <1>2, <1>3, <1>6, <2>1 DEF whole
  <2>4. RunnerOf(req, op, n + 1, [current |-> <<>>, index |-> 0])
    BY <1>2, <1>3, <1>6
  <2>5. QED BY <1>5, <2>2, <2>3, <2>4 DEF Emit, c
<1>7. CASE index + 1 # p
  <2>1. (n + 1) % p = index + 1 /\ index + 1 # 0 /\ ((n + 1) - (index + 1)) + 1 = begin
    BY <1>1, <1>2, <1>7
  <2>2. out = Emit([current |-> current, index |-> index + 1], <<>>)
    BY <1>1, <1>7 DEF CollapseNext, current
  <2>3. Said(req, op, n + 1) = <<>>
    BY <1>3, <2>1
  <2>4. RunnerOf(req, op, n + 1, [current |-> <<whole>>, index |-> index + 1])
    BY <1>3, <2>1 DEF whole
  <2>5. QED BY <1>5, <2>2, <2>3, <2>4 DEF Emit, c
<1>8. QED BY <1>6, <1>7

(* An operation goes on alone with the next bar. *)
LEMMA RunnerRuns ==
  ASSUME NEW req, req.bars \in Seq(Bar), NEW op, Runnable(op),
         NEW n \in Nat, n + 1 <= Len(req.bars), NEW runner, RunnerOf(req, op, n, runner)
  PROVE  LET out == Run(op, runner, req.bars[n + 1].candle)
         IN  /\ RunnerOf(req, op, n + 1, out.runner)
             /\ op.id # "renko" => out.values = Said(req, op, n + 1)
<1> DEFINE c == req.bars[n + 1].candle
<1> HIDE DEF c
<1>1. CASE op.id = "past"
  <2>1. Run(op, runner, c) = PastNext(runner, c)
    BY <1>1 DEF Run
  <2>2. QED BY <1>1, <2>1, PastRuns DEF c
<1>2. CASE op.id = "collapse"
  <2>1. Run(op, runner, c) = CollapseNext(runner, op.period, c)
    BY <1>2 DEF Run
  <2>2. QED BY <1>2, <2>1, CollapseRuns DEF c
<1>3. CASE op.id = "renko"
  BY <1>3 DEF RunnerOf
<1>4. QED BY <1>1, <1>2, <1>3 DEF Runnable

(* Its rows go on with it. *)
LEMMA RowsGoOn ==
  ASSUME NEW req, req.bars \in Seq(Bar), NEW op, NEW n \in Nat, n + 1 <= Len(req.bars),
         NEW rows, Len(rows) \in Nat, Sequential(rows, Len(rows)), RowsSaid(req, op, n, rows),
         NEW values, op.id # "renko" => values = Said(req, op, n + 1)
  PROVE  LET kept == IF Retained(req, n + 1) THEN Append(rows, NewRow(req, n + 1, values))
                     ELSE rows
         IN  /\ Len(kept) \in Nat /\ Sequential(kept, Len(kept))
             /\ RowsSaid(req, op, n + 1, kept)
<1> DEFINE end   == Len(req.bars)
           len   == Len(rows)
           m     == n + 1
           row   == NewRow(req, m, values)
           added == Append(rows, row)
           kept  == IF Retained(req, m) THEN added ELSE rows
           Right(r, i, at) ==
             /\ r[i].seen = at /\ r[i].available = req.bars[at].available
             /\ op.id # "renko" => r[i].values = Said(req, op, at)
<1>1. /\ end \in Nat /\ n \in Nat /\ n # end /\ len \in Nat /\ n <= end /\ m \in Nat
      /\ m = n + 1 /\ m <= end
  OBVIOUS
<1>2. \A l, r : RowsSaid(req, op, l, r) <=>
        /\ Len(r) = IF req.output = "series" THEN l ELSE IF l = end THEN 1 ELSE 0
        /\ \A i \in 1 .. Len(r) : Right(r, i, IF req.output = "series" THEN i ELSE l)
  BY DEF RowsSaid
<1>3. row.seen = m /\ row.available = req.bars[m].available /\ row.values = values
  BY DEF NewRow
<1> HIDE DEF row
<1>4. /\ Len(added) = len + 1 /\ Sequential(added, len + 1)
      /\ added[len + 1] = row /\ \A i \in 1 .. len : added[i] = rows[i]
  BY <1>1, SequenceNext
<1>5. RowsSaid(req, op, n, rows) /\ Sequential(rows, len)
      /\ (op.id # "renko" => values = Said(req, op, m))
  OBVIOUS
<1> HIDE DEF added, len, end, m
<1>6. CASE req.output = "series"
  <2>1. kept = added
    BY <1>6 DEF Retained
  <2>2. len = n /\ \A i \in 1 .. len : Right(rows, i, i)
    BY <1>2, <1>5, <1>6 DEF len
  <2>3. Right(added, m, m)
    BY <1>1, <1>3, <1>4, <1>5, <2>2
  <2>4. \A i \in 1 .. m : Right(added, i, i)
    <3>1. \A i \in 1 .. m : i \in 1 .. len \/ i = m
      BY <1>1, <2>2
    <3>2. QED BY <1>4, <2>2, <2>3, <3>1
  <2> HIDE DEF Right, kept
  <2>5. RowsSaid(req, op, m, kept)
    BY <1>1, <1>2, <1>4, <1>6, <2>1, <2>2, <2>4
  <2>6. QED BY <1>1, <1>4, <2>1, <2>2, <2>5 DEF m, kept, added, row
<1>7. CASE req.output # "series" /\ m = end
  <2>1. kept = added
    BY <1>7 DEF Retained, end
  <2>2. len = 0
    BY <1>1, <1>2, <1>5, <1>7 DEF len
  <2>3. Right(added, 1, m)
    BY <1>1, <1>3, <1>4, <1>5, <2>2
  <2> HIDE DEF Right, kept
  <2>4. RowsSaid(req, op, m, kept)
    <3>1. Len(kept) = 1 /\ \A i \in 1 .. Len(kept) : i = 1
      <4>1. len + 1 = 1
        BY <2>2
      <4>2. Len(added) = 1
        BY <1>4, <4>1
      <4>3. QED BY <2>1, <4>2
    <3>2. \A i \in 1 .. Len(kept) : Right(kept, i, IF req.output = "series" THEN i ELSE m)
      <4>1. Right(kept, 1, m)
        BY <2>1, <2>3
      <4>2. (IF req.output = "series" THEN 1 ELSE m) = m
        BY <1>7
      <4>3. QED BY <3>1, <4>1, <4>2
    <3>3. Len(kept) = IF req.output = "series" THEN m ELSE IF m = end THEN 1 ELSE 0
      BY <1>7, <3>1
    <3>4. QED BY <1>2, <3>2, <3>3
  <2>5. QED BY <1>1, <1>4, <2>1, <2>2, <2>4 DEF m, kept, added, row
<1>8. CASE req.output # "series" /\ m # end
  <2>1. kept = rows
    BY <1>8 DEF Retained, end
  <2>2. len = 0
    BY <1>1, <1>2, <1>5, <1>8 DEF len
  <2> HIDE DEF Right, kept
  <2>3. RowsSaid(req, op, m, kept)
    <3>1. Len(kept) = 0 /\ 1 .. Len(kept) = {}
      BY <2>1, <2>2 DEF len
    <3>2. QED BY <1>2, <1>8, <3>1
  <2>4. QED BY <1>1, <1>5, <2>1, <2>3 DEF m, kept, added, row, len
<1>9. QED BY <1>6, <1>7, <1>8

(* One bar more for an operation. *)
LEMMA AloneRuns ==
  ASSUME NEW req, req.bars \in Seq(Bar), Valid(req.bars), NEW op, op.period \in Nat,
         op.whole \in Nat, NEW n \in Nat, n + 1 <= Len(req.bars), NEW runner, NEW rows, RunsAlone(req, op, n, runner, rows)
  PROVE  LET out == Run(op, runner, req.bars[n + 1].candle)
         IN  RunsAlone(req, op, n + 1, out.runner,
                       IF Retained(req, n + 1) THEN Append(rows, NewRow(req, n + 1, out.values))
                       ELSE rows)
<1> DEFINE out  == Run(op, runner, req.bars[n + 1].candle)
           kept == IF Retained(req, n + 1) THEN Append(rows, NewRow(req, n + 1, out.values))
                   ELSE rows
<1>1. /\ Runnable(op) /\ Len(rows) \in Nat /\ Sequential(rows, Len(rows))
      /\ RunnerOf(req, op, n, runner) /\ RowsSaid(req, op, n, rows)
      /\ op.id = "renko" => Brick(op) /\ RenkoOf(req, op, n, runner, rows)
  BY DEF RunsAlone, Runnable, Brick
<1>2. RunnerOf(req, op, n + 1, out.runner) /\ (op.id # "renko" => out.values = Said(req, op, n + 1))
  BY <1>1, RunnerRuns
<1>3. op.id = "renko" => RenkoOf(req, op, n + 1, out.runner, kept)
  <2> SUFFICES ASSUME op.id = "renko" PROVE RenkoOf(req, op, n + 1, out.runner, kept)
    OBVIOUS
  <2>1. req.output = "series" => Sequential(rows, n)
    BY <1>1 DEF RowsSaid
  <2>2. QED BY <1>1, <2>1, RenkoRuns
<1> HIDE DEF out
<1>4. /\ Len(kept) \in Nat /\ Sequential(kept, Len(kept)) /\ RowsSaid(req, op, n + 1, kept)
  BY <1>1, <1>2, RowsGoOn
<1> HIDE DEF kept
<1>5. RunsAlone(req, op, n + 1, out.runner, kept)
  BY <1>1, <1>2, <1>3, <1>4 DEF RunsAlone, Runnable, Brick
<1>6. QED BY <1>5 DEF kept, out

LEMMA NativeRequestParts ==
  ASSUME NEW req \in NativeRequest
  PROVE  /\ req.bars \in Seq(Bar) /\ Len(req.bars) \in Nat
         /\ req.ops \in Seq(Operation) /\ Len(req.ops) \in Nat
         /\ \A k \in 1 .. Len(req.ops) : req.ops[k].period \in Nat /\ req.ops[k].whole \in Nat
<1>1. req.bars \in Seq(Bar) /\ req.ops \in Seq(Operation)
  BY NativeAssumption DEF NativeRequest
<1>2. \A k \in 1 .. Len(req.ops) : req.ops[k] \in Operation
  BY <1>1
<1>3. \A k \in 1 .. Len(req.ops) : req.ops[k].period \in Nat /\ req.ops[k].whole \in Nat
  BY <1>2 DEF Operation
<1>4. QED BY <1>1, <1>3

LEMMA NativeStart == NativeInit => NativeInv
<1> SUFFICES ASSUME NativeInit PROVE NativeInv
  OBVIOUS
<1>1. batch = NoBatch /\ response.code = "none"
  BY DEF NativeInit, NothingNative, NoResponse
<1>2. QED BY <1>1 DEF NativeInv, NativeIsRunners, BricksChain

(* A refusal leaves nothing of the calculation. *)
LEMMA NativeFailKeeps ==
  ASSUME NEW code, code # "Ok", NativeFail(code)
  PROVE  NativeInv'
<1>1. batch' = NoBatch /\ response'.code = code
  BY DEF NativeFail, NoResponse
<1>2. QED BY <1>1 DEF NativeInv, NativeIsRunners, BricksChain

(* A calculation that goes on. *)
LEMMA NativeJobKeeps ==
  ASSUME NativeInv, NEW d, NativeJobInv(d), batch' = d, UNCHANGED response
  PROVE  NativeInv'
<1>1. NativeIsRunners' /\ BricksChain'
  BY DEF NativeInv, NativeIsRunners, BricksChain
<1>2. NativeJobInv(batch')
  BY Zenon
<1>3. QED BY <1>1, <1>2 DEF NativeInv

LEMMA NativeBegins ==
  ASSUME NativeInv, NEW req \in NativeRequest, NativeBegin(req)
  PROVE  NativeInv'
<1> DEFINE d == [pc |-> "validate", req |-> req, next |-> 1, op |-> 1,
                 runners |-> <<>>, rows |-> <<>>, cost |-> 0, bytes |-> 0]
<1>1. \/ NativeFail("InvalidTime") \/ NativeFail("LimitExceeded")
      \/ /\ Len(req.bars) \in 1 .. MaxNativeBars /\ Len(req.ops) \in 1 .. MaxOperations
         /\ batch' = d /\ UNCHANGED response
  <2>1. req.asOf \in Nat
    BY EngineAssumption DEF NativeRequest, Time
  <2>2. CASE req.asOf <= 0
    BY <2>1, <2>2 DEF NativeBegin
  <2>3. CASE req.asOf > 0 /\ \/ Len(req.bars) \notin 1 .. MaxNativeBars
                             \/ Len(req.ops) \notin 1 .. MaxOperations
    BY <2>1, <2>3 DEF NativeBegin
  <2>4. CASE req.asOf > 0 /\ Len(req.bars) \in 1 .. MaxNativeBars
                          /\ Len(req.ops) \in 1 .. MaxOperations
    BY <2>1, <2>4 DEF NativeBegin
  <2>5. QED BY <2>1, <2>2, <2>3, <2>4
<1>2. ASSUME Len(req.bars) \in 1 .. MaxNativeBars, Len(req.ops) \in 1 .. MaxOperations,
             batch' = d, UNCHANGED response
      PROVE  NativeInv'
  <2>1. /\ d.pc = "validate" /\ d.req = req /\ d.next = 1 /\ d.op = 1
        /\ d.runners = <<>> /\ d.rows = <<>> /\ d \in NativeJob(d)
    BY DEF NativeJob
  <2> HIDE DEF d
  <2>2. 1 \in 1 .. Len(req.bars) /\ 1 \in 1 .. Len(req.ops)
    BY <1>2, NativeRequestParts
  <2>3. Placed(d)
    BY <2>1, <2>2 DEF Placed
  <2>4. Made(d) = 0 /\ 1 .. Made(d) = {}
    BY <2>1 DEF Made
  <2>5. Sequential(d.runners, Made(d)) /\ Sequential(d.rows, Made(d))
    BY <2>1, <2>4 DEF Sequential
  <2>6. Vetted(d)
    BY <2>1 DEF Vetted
  <2>7. NativeJobInv(d)
    BY <2>1, <2>3, <2>4, <2>5, <2>6 DEF NativeJobInv
  <2>8. QED BY <1>2, <2>7, NativeJobKeeps
<1>3. QED BY <1>1, <1>2, NativeFailKeeps

LEMMA ValidateKeeps ==
  ASSUME NativeInv, Validate
  PROVE  NativeInv'
<1> DEFINE b    == batch
           bars == b.req.bars
           d    == IF b.next < Len(bars) THEN [b EXCEPT !.next = @ + 1]
                   ELSE [b EXCEPT !.pc = "resolve", !.next = 1]
<1>1. b.pc = "validate" /\ b # NoBatch /\ NativeJobInv(b)
  BY DEF Validate, NativeInv, NoBatch
<1>2. \/ \E bar, asOf, last : NativeFail(Refusal(bar, asOf, last))
      \/ batch' = d /\ UNCHANGED response /\ ValidCandle(bars[b.next].candle)
  <2> DEFINE last == IF b.next = 1 THEN [closed |-> 0, available |-> 0, samples |-> 0]
                     ELSE [closed |-> bars[b.next - 1].closed,
                           available |-> bars[b.next - 1].available, samples |-> 0]
             code == Refusal(bars[b.next], b.req.asOf, last)
  <2>1. \/ NativeFail(code)
        \/ batch' = d /\ UNCHANGED response /\ ValidCandle(bars[b.next].candle)
    BY DEF Validate, Acceptable
  <2>2. QED BY <2>1, Zenon
<1>3. b \in NativeJob(b) /\ b.req \in NativeRequest /\ b.next \in Nat
  BY <1>1 DEF NativeJobInv, NativeJob
<1>4. /\ b.op = 1 /\ b.next \in 1 .. Len(bars) /\ Len(bars) \in Nat /\ 1 \in 1 .. Len(b.req.ops)
      /\ Made(b) = 0 /\ Sequential(b.runners, 0) /\ Sequential(b.rows, 0)
      /\ \A i \in 1 .. b.next - 1 : ValidCandle(bars[i].candle)
  BY <1>1, <1>3, NativeRequestParts DEF NativeJobInv, Placed, Made, Vetted
<1>5. ASSUME batch' = d, UNCHANGED response, ValidCandle(bars[b.next].candle)
      PROVE  NativeInv'
  <2>1. /\ d.req = b.req /\ d.op = 1 /\ d.runners = b.runners /\ d.rows = b.rows
        /\ d \in NativeJob(d) /\ d.pc \in {"validate", "resolve"}
        /\ d.pc = "validate" => d.next \in 1 .. Len(bars) /\ d.next = b.next + 1
        /\ d.pc = "resolve" => d.next = 1 /\ b.next = Len(bars)
    <3>1. CASE b.next < Len(bars)
      BY <1>1, <1>3, <1>4, <3>1 DEF NativeJob
    <3>2. CASE ~(b.next < Len(bars))
      <4>1. d = [b EXCEPT !.pc = "resolve", !.next = 1]
        BY <3>2
      <4>2. b.next = Len(bars)
        BY <1>3, <1>4, <3>2
      <4> HIDE DEF d
      <4>3. QED BY <1>1, <1>3, <1>4, <4>1, <4>2 DEF NativeJob
    <3>3. QED BY <3>1, <3>2
  <2> HIDE DEF d
  <2>2. Placed(d)
    BY <1>4, <2>1 DEF Placed
  <2>3. Made(d) = 0 /\ 1 .. Made(d) = {}
    BY <2>1 DEF Made
  <2>4. Vetted(d)
    <3>1. \A i \in 1 .. b.next : ValidCandle(bars[i].candle)
      <4>1. \A i \in 1 .. b.next : i \in 1 .. b.next - 1 \/ i = b.next
        BY <1>3
      <4>2. QED BY <1>4, <1>5, <4>1
    <3>2. (IF d.pc = "validate" THEN d.next - 1 ELSE Len(d.req.bars)) = b.next
      BY <1>3, <2>1
    <3>3. QED BY <2>1, <3>1, <3>2 DEF Vetted
  <2>5. NativeJobInv(d)
    BY <1>4, <2>1, <2>2, <2>3, <2>4 DEF NativeJobInv
  <2>6. QED BY <1>5, <2>5, NativeJobKeeps
<1>6. QED BY <1>2, <1>5, RefusalCode, NativeFailKeeps

(* A runner that was made has seen no bar; Past's window is of the first. *)
LEMMA NewRunnerAlone ==
  ASSUME NEW req, req.bars \in Seq(Bar), Valid(req.bars), Len(req.bars) > 0,
         NEW op, Runnable(op)
  PROVE  RunsAlone(req, op, 0, NewRunner(op, req.bars[1].candle), <<>>)
<1> DEFINE runner == NewRunner(op, req.bars[1].candle)
           none   == 0
<1>1. /\ Len(<<>>) \in Nat /\ Sequential(<<>>, Len(<<>>))
  BY DEF Sequential
<1>2. RowsSaid(req, op, 0, <<>>)
  <2>1. 1 .. Len(<<>>) = {} /\ Len(<<>>) = 0
    OBVIOUS
  <2>2. 0 # Len(req.bars)
    OBVIOUS
  <2>3. QED BY <2>1, <2>2 DEF RowsSaid
<1>3. RunnerOf(req, op, 0, runner)
  <2>1. CASE op.id = "past"
    <3>1. op.period \in Nat /\ op.period > 0
      BY <2>1 DEF Runnable
    <3>2. \A i \in 1 .. op.period : ~((0 - op.period) + i > 1)
      BY <3>1
    <3>3. runner = [i \in 1 .. op.period |-> req.bars[1].candle]
      BY <2>1 DEF NewRunner
    <3>4. runner = [i \in 1 .. op.period |->
                      req.bars[IF (0 - op.period) + i > 1 THEN (0 - op.period) + i ELSE 1].candle]
      BY <3>2, <3>3
    <3>5. QED BY <2>1, <3>4 DEF RunnerOf
  <2>2. CASE op.id = "collapse"
    <3>1. op.period \in Nat /\ op.period > 0
      BY <2>2 DEF Runnable
    <3> HIDE DEF none
    <3>2. none \in Nat /\ none = 0
      BY DEF none
    <3>3. none % op.period = 0
      BY <3>1, <3>2, PlaceNext
    <3>4. runner = [current |-> <<>>, index |-> 0]
      BY <2>2 DEF NewRunner
    <3>5. RunnerOf(req, op, none, runner)
      BY <2>2, <3>3, <3>4 DEF RunnerOf
    <3>6. QED BY <3>2, <3>5
  <2>3. CASE op.id = "renko"
    BY <2>3 DEF RunnerOf
  <2>4. QED BY <2>1, <2>2, <2>3 DEF Runnable
<1>4. op.id = "renko" => RenkoOf(req, op, 0, runner, <<>>)
  BY RenkoBegins DEF Runnable
<1> HIDE DEF runner
<1>5. RunsAlone(req, op, 0, runner, <<>>)
  BY <1>1, <1>2, <1>3, <1>4 DEF RunsAlone, Runnable, Brick
<1>6. QED BY <1>5 DEF runner

LEMMA ResolveKeeps ==
  ASSUME NativeInv, Resolve
  PROVE  NativeInv'
<1> DEFINE b    == batch
           ops  == b.req.ops
           o    == b.op
           op   == ops[o]
           new  == NewRunner(op, b.req.bars[1].candle)
           rs   == Append(b.runners, new)
           ws   == Append(b.rows, <<>>)
           made == [b EXCEPT !.runners = rs, !.rows = ws]
           d    == IF o < Len(ops) THEN [made EXCEPT !.op = @ + 1]
                   ELSE [made EXCEPT !.pc = "run", !.op = 1]
<1>1. b.pc = "resolve" /\ b # NoBatch /\ NativeJobInv(b)
  BY DEF Resolve, NativeInv, NoBatch
<1>2. \/ NativeFail("UnsupportedProfile") \/ NativeFail("InvalidParameter")
      \/ /\ op.id # "unknown" /\ op.id # "scalar"
         /\ ~(op.id \in {"past", "collapse"} /\ op.period = 0)
         /\ ~(op.id = "renko" /\ op.part \notin 1 .. op.whole - 1)
         /\ batch' = d /\ UNCHANGED response
  BY Zenon DEF Resolve
<1>3. b \in NativeJob(b) /\ b.req \in NativeRequest /\ b.next \in Nat
  BY <1>1 DEF NativeJobInv, NativeJob
<1>4. /\ b.next = 1 /\ Len(b.req.bars) > 0 /\ Len(b.req.bars) \in Nat /\ b.req.bars \in Seq(Bar)
      /\ o \in 1 .. Len(ops) /\ o \in Nat /\ Len(ops) \in Nat /\ Made(b) = o - 1 /\ o - 1 \in Nat
      /\ Sequential(b.runners, o - 1) /\ Sequential(b.rows, o - 1)
      /\ \A k \in 1 .. o - 1 : RunsAlone(b.req, ops[k], 0, b.runners[k], b.rows[k])
      /\ Valid(b.req.bars)
  BY <1>1, <1>3, NativeRequestParts DEF NativeJobInv, Placed, Made, Given, Vetted, Valid
<1>5. ASSUME op.id # "unknown", op.id # "scalar",
             ~(op.id \in {"past", "collapse"} /\ op.period = 0),
             ~(op.id = "renko" /\ op.part \notin 1 .. op.whole - 1),
             batch' = d, UNCHANGED response
      PROVE  NativeInv'
  <2>1. Runnable(op)
    <3>1. op \in Operation
      BY <1>3, <1>4, NativeRequestParts
    <3>2. QED BY <1>5, <3>1 DEF Operation, Runnable, Brick
  <2>2. RunsAlone(b.req, op, 0, new, <<>>)
    BY <1>4, <2>1, NewRunnerAlone
  <2> HIDE DEF new, op
  <2>3. /\ Sequential(rs, o) /\ rs[o] = new /\ \A k \in 1 .. o - 1 : rs[k] = b.runners[k]
        /\ Sequential(ws, o) /\ ws[o] = <<>> /\ \A k \in 1 .. o - 1 : ws[k] = b.rows[k]
    <3> DEFINE before == o - 1
               empty  == <<>>
    <3>1. before \in Nat /\ before + 1 = o
      BY <1>4
    <3>2. Sequential(b.runners, before) /\ Sequential(b.rows, before)
      BY <1>4
    <3> HIDE DEF before, empty
    <3>3. /\ Sequential(rs, before + 1) /\ rs[before + 1] = new
          /\ \A k \in 1 .. before : rs[k] = b.runners[k]
      BY <3>1, <3>2, SequenceNext
    <3>4. /\ Sequential(Append(b.rows, empty), before + 1)
          /\ Append(b.rows, empty)[before + 1] = empty
          /\ \A k \in 1 .. before : Append(b.rows, empty)[k] = b.rows[k]
      BY <3>1, <3>2, SequenceNext
    <3>5. QED BY <3>1, <3>3, <3>4 DEF before, empty
  <2> HIDE DEF rs, ws
  <2>4. \A k \in 1 .. o : RunsAlone(b.req, ops[k], 0, rs[k], ws[k])
    <3> SUFFICES ASSUME NEW k \in 1 .. o PROVE RunsAlone(b.req, ops[k], 0, rs[k], ws[k])
      OBVIOUS
    <3>1. CASE k = o
      BY <2>2, <2>3, <3>1 DEF op
    <3>2. CASE k # o
      BY <1>4, <2>3, <3>2
    <3>3. QED BY <3>1, <3>2
  <2>5. /\ d.req = b.req /\ d.next = 1 /\ d.runners = rs /\ d.rows = ws /\ d \in NativeJob(d)
        /\ \/ d.pc = "resolve" /\ d.op = o + 1 /\ o < Len(ops)
           \/ d.pc = "run" /\ d.op = 1 /\ o = Len(ops)
    <3>0. /\ made \in NativeJob(made) /\ made.req = b.req /\ made.next = 1 /\ made.op = o
          /\ made.pc = "resolve" /\ made.runners = rs /\ made.rows = ws
      BY <1>1, <1>3, <1>4 DEF NativeJob
    <3> HIDE DEF made
    <3>1. CASE o < Len(ops)
      <4>1. d = [made EXCEPT !.op = o + 1]
        BY <3>0, <3>1
      <4>2. o + 1 \in Nat
        BY <1>4
      <4> HIDE DEF d
      <4>3. QED BY <3>0, <3>1, <4>1, <4>2 DEF NativeJob
    <3>2. CASE ~(o < Len(ops))
      <4>1. d = [made EXCEPT !.pc = "run", !.op = 1] /\ o = Len(ops)
        BY <1>4, <3>2
      <4> HIDE DEF d
      <4>2. QED BY <3>0, <4>1 DEF NativeJob
    <3>3. QED BY <3>1, <3>2
  <2> HIDE DEF d
  <2>6. Placed(d)
    BY <1>4, <2>5 DEF Placed
  <2>7. Made(d) = o
    BY <1>4, <2>5 DEF Made
  <2>8. \A k \in 1 .. o : Given(d, k) = 0
    BY <1>4, <2>5 DEF Given
  <2>9. Vetted(d)
    BY <1>4, <2>5 DEF Vetted, Valid
  <2>10. NativeJobInv(d)
    BY <2>3, <2>4, <2>5, <2>6, <2>7, <2>8, <2>9 DEF NativeJobInv
  <2>11. QED BY <1>5, <2>10, NativeJobKeeps
<1>6. QED BY <1>2, <1>5, NativeFailKeeps

LEMMA RunOneKeeps ==
  ASSUME NativeInv, RunOne
  PROVE  NativeInv'
<1> DEFINE b    == batch
           ops  == b.req.ops
           o    == b.op
           n    == b.next
           out  == Run(ops[o], b.runners[o], b.req.bars[n].candle)
           row  == NewRow(b.req, n, out.values)
           rs   == [b.runners EXCEPT ![o] = out.runner]
           kept == IF Retained(b.req, n) THEN Append(b.rows[o], row) ELSE b.rows[o]
           ws   == [b.rows EXCEPT ![o] = kept]
           cost == b.cost + CostOf(out.values)
           bytes == b.bytes + (IF Retained(b.req, n) THEN 1 + Len(out.values) ELSE 0)
           ran  == [b EXCEPT !.runners = rs, !.cost = cost, !.bytes = bytes, !.rows = ws]
           d    == IF o < Len(ops) THEN [ran EXCEPT !.op = @ + 1]
                   ELSE [ran EXCEPT !.op = 1, !.next = @ + 1]
<1>1. b.pc = "run" /\ n <= Len(b.req.bars) /\ b # NoBatch /\ NativeJobInv(b)
  BY DEF RunOne, NativeInv, NoBatch
<1>2. \/ NativeFail("LimitExceeded")
      \/ batch' = d /\ UNCHANGED response
  BY DEF RunOne
<1>3. b \in NativeJob(b) /\ b.req \in NativeRequest /\ n \in Nat
  BY <1>1 DEF NativeJobInv, NativeJob
<1>4. /\ n \in 1 .. Len(b.req.bars) /\ Len(b.req.bars) \in Nat /\ b.req.bars \in Seq(Bar)
      /\ o \in 1 .. Len(ops) /\ o \in Nat /\ Len(ops) \in Nat /\ Made(b) = Len(ops)
      /\ Sequential(b.runners, Len(ops)) /\ Sequential(b.rows, Len(ops))
      /\ \A k \in 1 .. Len(ops) :
           RunsAlone(b.req, ops[k], IF k < o THEN n ELSE n - 1, b.runners[k], b.rows[k])
      /\ ops[o].period \in Nat /\ ops[o].whole \in Nat /\ Valid(b.req.bars)
  BY <1>1, <1>3, NativeRequestParts DEF NativeJobInv, Placed, Made, Given, Vetted, Valid
<1>5. ASSUME batch' = d, UNCHANGED response PROVE NativeInv'
  <2>1. RunsAlone(b.req, ops[o], n, out.runner, kept)
    <3> DEFINE before == n - 1
    <3>1. before \in Nat /\ before + 1 = n /\ before + 1 <= Len(b.req.bars)
      BY <1>4
    <3>2. RunsAlone(b.req, ops[o], before, b.runners[o], b.rows[o])
      BY <1>4
    <3> HIDE DEF before
    <3>3. LET more == Run(ops[o], b.runners[o], b.req.bars[before + 1].candle)
          IN  RunsAlone(b.req, ops[o], before + 1, more.runner,
                        IF Retained(b.req, before + 1)
                        THEN Append(b.rows[o], NewRow(b.req, before + 1, more.values))
                        ELSE b.rows[o])
      BY <1>4, <3>1, <3>2, AloneRuns
    <3>4. QED BY <3>1, <3>3
  <2> HIDE DEF out, kept, cost, bytes
  <2>2. /\ Sequential(rs, Len(ops)) /\ Sequential(ws, Len(ops))
        /\ \A k \in 1 .. Len(ops) : /\ rs[k] = IF k = o THEN out.runner ELSE b.runners[k]
                                    /\ ws[k] = IF k = o THEN kept ELSE b.rows[k]
    BY <1>4 DEF Sequential
  <2> HIDE DEF rs, ws
  <2>3. \A k \in 1 .. Len(ops) :
          RunsAlone(b.req, ops[k], IF k <= o THEN n ELSE n - 1, rs[k], ws[k])
    <3> SUFFICES ASSUME NEW k \in 1 .. Len(ops)
                 PROVE  RunsAlone(b.req, ops[k], IF k <= o THEN n ELSE n - 1, rs[k], ws[k])
      OBVIOUS
    <3>1. CASE k = o
      <4>1. rs[k] = out.runner /\ ws[k] = kept /\ (IF k <= o THEN n ELSE n - 1) = n
        BY <1>4, <2>2, <3>1
      <4>2. QED BY <2>1, <3>1, <4>1
    <3>2. CASE k # o
      <4>1. /\ rs[k] = b.runners[k] /\ ws[k] = b.rows[k]
            /\ (IF k <= o THEN n ELSE n - 1) = (IF k < o THEN n ELSE n - 1)
        BY <1>4, <2>2, <3>2
      <4>2. RunsAlone(b.req, ops[k], IF k < o THEN n ELSE n - 1, b.runners[k], b.rows[k])
        BY <1>4
      <4>3. QED BY <4>1, <4>2
    <3>3. QED BY <3>1, <3>2
  <2>4. /\ d.req = b.req /\ d.pc = "run" /\ d.runners = rs /\ d.rows = ws /\ d \in NativeJob(d)
        /\ \/ d.next = n /\ d.op = o + 1 /\ o < Len(ops)
           \/ d.next = n + 1 /\ d.op = 1 /\ o = Len(ops)
    <3>0. /\ ran \in NativeJob(ran) /\ ran.req = b.req /\ ran.next = n /\ ran.op = o
          /\ ran.pc = "run" /\ ran.runners = rs /\ ran.rows = ws
      BY <1>1, <1>3, <1>4 DEF NativeJob
    <3> HIDE DEF ran
    <3>1. CASE o < Len(ops)
      <4>1. d = [ran EXCEPT !.op = o + 1]
        BY <3>0, <3>1
      <4>2. o + 1 \in Nat
        BY <1>4
      <4> HIDE DEF d
      <4>3. QED BY <3>0, <3>1, <4>1, <4>2 DEF NativeJob
    <3>2. CASE ~(o < Len(ops))
      <4>1. d = [ran EXCEPT !.op = 1, !.next = n + 1] /\ o = Len(ops)
        BY <1>4, <3>0, <3>2
      <4>2. n + 1 \in Nat
        BY <1>4
      <4> HIDE DEF d
      <4>3. QED BY <3>0, <4>1, <4>2 DEF NativeJob
    <3>3. QED BY <3>1, <3>2
  <2> HIDE DEF d
  <2>5. Placed(d)
    <3>0. n \in 1 .. Len(b.req.bars) /\ Len(b.req.bars) \in Nat /\ o \in 1 .. Len(ops)
          /\ o \in Nat /\ Len(ops) \in Nat
      BY <1>4
    <3>1. d.op \in 1 .. Len(ops)
      BY <2>4, <3>0
    <3>4. d.next \in 1 .. Len(b.req.bars) + 1
      BY <2>4, <3>0
    <3>2. d.next > Len(b.req.bars) => d.op = 1
      BY <2>4, <3>0
    <3>5. QED BY <2>4, <3>1, <3>2, <3>4 DEF Placed
  <2>6. Made(d) = Len(ops)
    BY <2>4 DEF Made
  <2>7. \A k \in 1 .. Len(ops) : Given(d, k) = IF k <= o THEN n ELSE n - 1
    BY <1>4, <2>4 DEF Given
  <2>8. \A k \in 1 .. Made(d) : RunsAlone(d.req, d.req.ops[k], Given(d, k), d.runners[k], d.rows[k])
    BY <2>3, <2>4, <2>6, <2>7
  <2>9. Vetted(d)
    BY <1>4, <2>4 DEF Vetted, Valid
  <2>10. NativeJobInv(d)
    BY <2>2, <2>4, <2>5, <2>6, <2>8, <2>9 DEF NativeJobInv
  <2>11. QED BY <1>5, <2>10, NativeJobKeeps
<1>6. QED BY <1>2, <1>5, NativeFailKeeps

LEMMA RespondKeeps ==
  ASSUME NativeInv, Respond
  PROVE  NativeInv'
<1> DEFINE b == batch
<1>1. b.pc = "run" /\ b # NoBatch /\ NativeJobInv(b) /\ b.next > Len(b.req.bars)
  BY DEF Respond, NativeInv, NoBatch
<1>2. b.req \in NativeRequest /\ b.next \in Nat
  BY <1>1 DEF NativeJobInv, NativeJob
<1>3. /\ b.op = 1 /\ b.next - 1 = Len(b.req.bars) /\ Made(b) = Len(b.req.ops)
      /\ Len(b.req.ops) \in Nat /\ Sequential(b.rows, Len(b.req.ops))
  <2>1. b.op = 1 /\ b.next \in 1 .. Len(b.req.bars) + 1
    BY <1>1 DEF NativeJobInv, Placed
  <2>2. Len(b.req.bars) \in Nat /\ Len(b.req.ops) \in Nat
    BY <1>2, NativeRequestParts
  <2>3. b.next - 1 = Len(b.req.bars)
    BY <1>1, <1>2, <2>1, <2>2
  <2>4. Made(b) = Len(b.req.ops)
    BY <1>1 DEF Made
  <2>5. QED BY <1>1, <2>1, <2>2, <2>3, <2>4 DEF NativeJobInv
<1>4. \A k \in 1 .. Len(b.req.ops) :
        RowsSaid(b.req, b.req.ops[k], Len(b.req.bars), b.rows[k])
  BY <1>1, <1>3 DEF NativeJobInv, Given, RunsAlone
<1>5. Len(b.rows) = Len(b.req.ops)
  BY <1>3, SequenceNext
<1>6. response' = [code |-> "Ok", req |-> b.req, results |-> b.rows] /\ batch' = NoBatch
  BY DEF Respond
<1>7. NativeIsRunners'
  BY <1>4, <1>5, <1>6 DEF NativeIsRunners
<1>8. BricksChain'
  <2> DEFINE series == b.req.output = "series"
             end    == Len(b.req.bars)
  <2>1. \A k \in 1 .. Len(b.req.ops) : b.req.ops[k].id = "renko" /\ series =>
          \A n \in 1 .. end : RowChained(b.req.ops[k], b.req.bars, b.rows[k], n)
    BY <1>1, <1>3 DEF NativeJobInv, Given, RunsAlone, RenkoOf
  <2>2. QED BY <1>6, <2>1 DEF BricksChain
<1>9. QED BY <1>6, <1>7, <1>8 DEF NativeInv

LEMMA NativeKeeps ==
  ASSUME NativeInv, [NativeNext]_nativeVars
  PROVE  NativeInv'
<1>1. CASE NothingNative /\ \E req \in NativeRequest : NativeBegin(req)
  BY <1>1, NativeBegins
<1>2. CASE Validate
  BY <1>2, ValidateKeeps
<1>3. CASE Resolve
  BY <1>3, ResolveKeeps
<1>4. CASE RunOne
  BY <1>4, RunOneKeeps
<1>5. CASE Respond
  BY <1>5, RespondKeeps
<1>6. CASE RunnerPanics
  BY <1>6, NativeFailKeeps DEF RunnerPanics
<1>7. CASE NativeStop
  BY <1>7, NativeFailKeeps DEF NativeStop
<1>8. CASE NativeReturn
  <2>1. response'.code = "none" /\ batch' = batch
    BY <1>8 DEF NativeReturn, NoResponse
  <2>2. NativeIsRunners' /\ BricksChain'
    BY <2>1 DEF NativeIsRunners, BricksChain
  <2>3. batch' # NoBatch => NativeJobInv(batch')
    BY <2>1, Zenon DEF NativeInv
  <2>4. QED BY <2>2, <2>3 DEF NativeInv
<1>9. CASE UNCHANGED nativeVars
  BY <1>9 DEF nativeVars, NativeInv, NativeIsRunners, BricksChain
<1>10. QED BY <1>1, <1>2, <1>3, <1>4, <1>5, <1>6, <1>7, <1>8, <1>9 DEF NativeNext

(* An answer of the native batch is what each of its operations alone says   *)
(* of the bars, whatever other operations took turns with it.                *)
THEOREM NativeOfRunners == NativeSpec => []NativeIsRunners
<1>1. NativeInv /\ [NativeNext]_nativeVars => NativeInv'
  BY NativeKeeps
<1>2. NativeInv => NativeIsRunners
  BY DEF NativeInv
<1>3. QED BY <1>1, <1>2, NativeStart, PTL DEF NativeSpec

(* The bricks of a series are a chain, whatever their size: none is missing, *)
(* made early or of another size, and no volume is lost or counted twice.    *)
THEOREM BricksChained == NativeSpec => []BricksChain
<1>1. NativeInv /\ [NativeNext]_nativeVars => NativeInv'
  BY NativeKeeps
<1>2. NativeInv => BricksChain
  BY DEF NativeInv
<1>3. QED BY <1>1, <1>2, NativeStart, PTL DEF NativeSpec
-----------------------------------------------------------------------------
(* All calculations                                                        *)

(* Calculations is each of its parts to those who see no other. *)
LEMMA PartsKeepApart ==
  ASSUME [CalcNext]_<<vars, nativeVars, splitVars, sampleVars, framingVars>>
  PROVE  /\ [Next]_vars /\ [NativeNext]_nativeVars /\ [SplitNext]_splitVars
         /\ [SampleNext]_sampleVars /\ [FramingNext]_framingVars
<1>1. CASE EngineStep
  BY <1>1, Zenon DEF EngineStep
<1>2. CASE NativeStep
  BY <1>2, Zenon DEF NativeStep
<1>3. CASE SplitStep
  BY <1>3, Zenon DEF SplitStep
<1>4. CASE SampleStep
  BY <1>4, Zenon DEF SampleStep
<1>5. CASE FramingStep
  BY <1>5, Zenon DEF FramingStep
<1>6. CASE UNCHANGED <<vars, nativeVars, splitVars, sampleVars, framingVars>>
  BY <1>6, Zenon
<1>7. QED BY <1>1, <1>2, <1>3, <1>4, <1>5, <1>6, Zenon DEF CalcNext

(* In the specification the runs check, where a server does one calculation  *)
(* at a time, all of this holds of each of them.                             *)
THEOREM CalculationsSafe ==
  CalcSpec => [](/\ BatchIsStreams /\ PreflightSuffices
                 /\ NativeIsRunners /\ BricksChain /\ EveryLabelOnce /\ NoLeakage
                 /\ SamplesAreDisjoint /\ ArtifactsAreAccepted
                 /\ FramesAreBounded)
<1>1. CalcInit => Init /\ NativeInit /\ SplitInit /\ SampleInit /\ FramingInit
  BY DEF CalcInit
<1>2. CalcSpec => Spec /\ NativeSpec /\ SplitSpec /\ SampleSpec /\ FramingSpec
  BY <1>1, PartsKeepApart, PTL DEF CalcSpec, Spec, NativeSpec, SplitSpec, SampleSpec, FramingSpec
<1>3. QED
  BY <1>2, BatchOfStreams, PreflightIsEnough, NativeOfRunners, BricksChained, NoneIsLost, LabelsDoNotLeak,
     SampleDisjoint, ArtifactsAccepted, FramesBounded, PTL
=============================================================================
