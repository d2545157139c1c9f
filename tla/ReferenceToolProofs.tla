-------------------------- MODULE ReferenceToolProofs --------------------------
(***************************************************************************)
(* Proofs about the reference stream and the tools over it: a stream is    *)
(* what its history says, a snapshot that passes the checks is replayed to *)
(* its end and to the very stream it was taken of, and what a call answers *)
(* is of the stream it was asked about - for any payloads, sizes, limits   *)
(* and runners.                                                            *)
(***************************************************************************)
EXTENDS ReferenceTool, SequenceTheorems, WellFoundedInduction, TLAPS

-----------------------------------------------------------------------------
(* Sums and sequences                                                      *)

(* A set of numbers has a least one. *)
LEMMA LeastNumber ==
  ASSUME NEW T \in SUBSET Nat, T # {}
  PROVE  \E x \in T : \A y \in T : x <= y
<1>1. PICK x \in T : \A y \in T : ~(<<y, x>> \in OpToRel(<, Nat))
  BY NatLessThanWellFounded, WFMin
<1>2. \A y \in T : ~(y < x)
  BY <1>1 DEF OpToRel
<1>3. QED BY <1>2

(* A sample's parts. *)
LEMMA SampleParts ==
  ASSUME NEW x \in Sample
  PROVE  /\ x.at \in Time /\ x.available \in Time /\ x.value \in Values
         /\ x.at \in Nat /\ x.available \in Nat /\ Size(x.value) \in Nat
BY ReferenceAssumption DEF Sample, Time

(* The totals Totals defines by recursion exist for every history. *)
LEMMA TotalsAre ==
  ASSUME NEW h \in Seq(Sample)
  PROVE  /\ Totals(h)[0] = 0
         /\ \A n \in 1 .. Len(h) : Totals(h)[n] = Totals(h)[n - 1] + Size(h[n].value)
<1> DEFINE Adds(f, m) ==
             f = [n \in 0 .. m |-> IF n = 0 THEN 0 ELSE f[n - 1] + Size(h[n].value)]
           Missing == {m \in 0 .. Len(h) : ~\E f : Adds(f, m)}
<1>1. Missing = {}
  <2> SUFFICES ASSUME Missing # {} PROVE FALSE
    OBVIOUS
  <2>1. PICK m \in Missing : \A k \in Missing : m <= k
    <3>1. Missing \in SUBSET Nat
      OBVIOUS
    <3> HIDE DEF Missing
    <3>2. QED BY <3>1, LeastNumber
  <2>2. m # 0
    <3> DEFINE f == [n \in 0 .. 0 |-> 0]
    <3>1. Adds(f, 0)
      OBVIOUS
    <3> HIDE DEF Adds, f
    <3>2. QED BY <3>1
  <2>3. PICK f : Adds(f, m - 1)
    <3> HIDE DEF Adds
    <3> QED BY <2>1, <2>2
  <2> DEFINE g == [n \in 0 .. m |-> IF n = m THEN f[m - 1] + Size(h[m].value) ELSE f[n]]
  <2>4. Adds(g, m)
    <3>1. m \in Nat /\ m > 0
      BY <2>2
    <3>2. QED BY <2>3, <3>1
  <2> HIDE DEF Adds
  <2>5. QED BY <2>4
<1>2. \E f : Adds(f, Len(h))
  <2>1. Len(h) \in 0 .. Len(h)
    OBVIOUS
  <2> HIDE DEF Adds
  <2>2. QED BY <1>1, <2>1
<1> DEFINE f == Totals(h)
<1>3. Adds(f, Len(h))
  BY <1>2 DEF Totals
<1>4. QED
  <2> HIDE DEF f
  <2>1. f[0] = 0 /\ \A n \in 1 .. Len(h) : f[n] = f[n - 1] + Size(h[n].value)
    BY <1>3
  <2>2. QED BY <2>1 DEF f

(* Totals are natural numbers. *)
LEMMA TotalsNat ==
  ASSUME NEW h \in Seq(Sample)
  PROVE  \A n \in 0 .. Len(h) : Totals(h)[n] \in Nat
<1> DEFINE f == Totals(h)
           Wrong == {n \in 0 .. Len(h) : f[n] \notin Nat}
<1>1. f[0] = 0 /\ \A n \in 1 .. Len(h) : f[n] = f[n - 1] + Size(h[n].value)
  BY TotalsAre
<1>2. \A n \in 1 .. Len(h) : Size(h[n].value) \in Nat
  BY SampleParts
<1> HIDE DEF f
<1>3. Wrong = {}
  <2> SUFFICES ASSUME Wrong # {} PROVE FALSE
    OBVIOUS
  <2>1. PICK n \in Wrong : \A k \in Wrong : n <= k
    <3>1. Wrong \in SUBSET Nat
      OBVIOUS
    <3> HIDE DEF Wrong
    <3>2. QED BY <3>1, LeastNumber
  <2>2. n \in 1 .. Len(h) /\ f[n - 1] \in Nat
    BY <1>1, <2>1
  <2>3. QED BY <1>1, <1>2, <2>1, <2>2
<1>4. \A n \in 0 .. Len(h) : f[n] \in Nat
  BY <1>3
<1>5. QED BY <1>4 DEF f

(* No sample makes a total smaller. *)
LEMMA TotalsGrow ==
  ASSUME NEW h \in Seq(Sample), NEW m \in 0 .. Len(h)
  PROVE  \A n \in m .. Len(h) : Totals(h)[m] <= Totals(h)[n]
<1> DEFINE f == Totals(h)
           Wrong == {n \in m .. Len(h) : ~(f[m] <= f[n])}
<1>1. \A n \in 1 .. Len(h) : f[n] = f[n - 1] + Size(h[n].value)
  BY TotalsAre
<1>2. \A n \in 1 .. Len(h) : Size(h[n].value) \in Nat
  BY SampleParts
<1>3. \A n \in 0 .. Len(h) : f[n] \in Nat
  BY TotalsNat
<1> HIDE DEF f
<1>4. Wrong = {}
  <2> SUFFICES ASSUME Wrong # {} PROVE FALSE
    OBVIOUS
  <2>1. PICK n \in Wrong : \A k \in Wrong : n <= k
    <3>1. Wrong \in SUBSET Nat
      OBVIOUS
    <3> HIDE DEF Wrong
    <3>2. QED BY <3>1, LeastNumber
  <2>2. n # m
    BY <1>3, <2>1
  <2>3. n \in 1 .. Len(h) /\ n - 1 \in m .. Len(h) /\ f[m] <= f[n - 1]
    BY <2>1, <2>2
  <2>4. f[m] \in Nat /\ f[n] \in Nat /\ f[n - 1] \in Nat
    BY <1>3, <2>3
  <2>5. f[n] = f[n - 1] + Size(h[n].value) /\ Size(h[n].value) \in Nat
    BY <1>1, <1>2, <2>3
  <2>6. QED BY <2>1, <2>3, <2>4, <2>5
<1>5. \A n \in m .. Len(h) : f[m] <= f[n]
  BY <1>4
<1>6. QED BY <1>5 DEF f

(* The totals of a history are those of any history it begins. *)
LEMMA TotalsSame ==
  ASSUME NEW a \in Seq(Sample), NEW b \in Seq(Sample), Len(a) <= Len(b),
         \A i \in 1 .. Len(a) : a[i] = b[i]
  PROVE  Retained(a) = Totals(b)[Len(a)]
<1> DEFINE f == Totals(a)
           g == Totals(b)
           Apart == {n \in 0 .. Len(a) : f[n] # g[n]}
<1>1. /\ f[0] = g[0]
      /\ \A n \in 1 .. Len(a) : /\ f[n] = f[n - 1] + Size(a[n].value)
                                /\ g[n] = g[n - 1] + Size(a[n].value)
  <2>1. /\ f[0] = 0 /\ g[0] = 0
        /\ \A n \in 1 .. Len(a) : f[n] = f[n - 1] + Size(a[n].value)
        /\ \A n \in 1 .. Len(b) : g[n] = g[n - 1] + Size(b[n].value)
    BY TotalsAre
  <2> HIDE DEF f, g
  <2>2. \A n \in 1 .. Len(a) : n \in 1 .. Len(b)
    OBVIOUS
  <2>3. QED BY <2>1, <2>2
<1> HIDE DEF f, g
<1>2. Apart = {}
  <2> SUFFICES ASSUME Apart # {} PROVE FALSE
    OBVIOUS
  <2>1. PICK n \in Apart : \A k \in Apart : n <= k
    <3>1. Apart \in SUBSET Nat
      OBVIOUS
    <3> HIDE DEF Apart
    <3>2. QED BY <3>1, LeastNumber
  <2>2. n \in 1 .. Len(a) /\ f[n - 1] = g[n - 1] /\ f[n] # g[n]
    BY <1>1, <2>1
  <2> HIDE DEF Apart
  <2>3. f[n] = f[n - 1] + Size(a[n].value) /\ g[n] = g[n - 1] + Size(a[n].value)
    BY <1>1, <2>2, Zenon
  <2>4. QED BY <2>2, <2>3
<1>3. f[Len(a)] = g[Len(a)]
  BY <1>2
<1>4. QED BY <1>3 DEF f, g, Retained

(* What one more sample makes of a history. *)
LEMMA Appended ==
  ASSUME NEW S, NEW h \in Seq(S), NEW x \in S
  PROVE  /\ Append(h, x) \in Seq(S) /\ Len(Append(h, x)) = Len(h) + 1
         /\ Append(h, x)[Len(h) + 1] = x /\ Append(h, x) # <<>>
         /\ \A i \in 1 .. Len(h) : Append(h, x)[i] = h[i]
<1>1. /\ Append(h, x) \in Seq(S) /\ Len(Append(h, x)) = Len(h) + 1
      /\ Append(h, x)[Len(h) + 1] = x /\ Len(h) \in Nat
      /\ \A i \in 1 .. Len(h) : Append(h, x)[i] = h[i]
  OBVIOUS
<1>2. Len(<<>>) = 0
  OBVIOUS
<1>3. QED BY <1>1, <1>2

LEMMA RetainedNext ==
  ASSUME NEW h \in Seq(Sample), NEW x \in Sample
  PROVE  Retained(Append(h, x)) = Retained(h) + Size(x.value)
<1> DEFINE m == Append(h, x)
           n == Len(h)
<1>1. m \in Seq(Sample) /\ Len(m) = n + 1 /\ m[n + 1] = x /\ \A i \in 1 .. n : m[i] = h[i]
  BY Appended
<1> HIDE DEF m
<1>2. Retained(h) = Totals(m)[n]
  BY <1>1, TotalsSame
<1>3. Totals(m)[n + 1] = Totals(m)[n] + Size(x.value)
  <2>1. n + 1 \in 1 .. Len(m) /\ (n + 1) - 1 = n
    BY <1>1
  <2>2. QED BY <1>1, <2>1, TotalsAre
<1>4. QED BY <1>1, <1>2, <1>3 DEF Retained, m

-----------------------------------------------------------------------------
(* Streams                                                                 *)

(* What is live or under way is no sentinel. *)
LEMMA StreamRuns == \A s \in Stream : s # NoStream
<1> SUFFICES ASSUME NEW s \in Stream PROVE s # NoStream
  OBVIOUS
<1>1. DOMAIN s = {"series", "runner", "history", "bytes", "latest"}
  BY DEF Stream
<1>2. DOMAIN NoStream = {"series"}
  BY DEF NoStream
<1>3. QED BY <1>1, <1>2

LEMMA RestoreReplays == \A e, s : [entry |-> e, result |-> s] # Idle
<1> SUFFICES ASSUME NEW e, NEW s PROVE [entry |-> e, result |-> s] # Idle
  OBVIOUS
<1>1. DOMAIN [entry |-> e, result |-> s] = {"entry", "result"} /\ DOMAIN Idle = {"entry"}
  BY DEF Idle
<1>2. QED BY <1>1

(* What an accepted sample is. *)
LEMMA Accepted ==
  ASSUME NEW s, NEW x, NEW asOf
  PROVE  Refusal(s, x, asOf) = "Ok" <=>
           /\ TimeOk(x, asOf) /\ InOrder(x, s.history) /\ x.value \notin Malformed
           /\ HasRoom(s, x) /\ Takes(s.runner, x.value)
BY DEF Refusal

(* A new stream is sound (Stream::new). *)
LEMMA NewSound ==
  ASSUME NEW x \in Series
  PROVE  Sound(New(x)) /\ New(x).series = x /\ New(x).history = <<>>
<1> DEFINE s == New(x)
<1>1. /\ s.series = x /\ s.history = <<>> /\ s.runner = <<>> /\ s.bytes = 0
      /\ s.latest = NoRow
  BY DEF New
<1>2. NoRow \in Row
  BY ReferenceAssumption DEF NoRow, Row, Status, Time
<1>3. <<>> \in Seq(Values) /\ <<>> \in Seq(Sample) /\ Len(<<>>) = 0
  OBVIOUS
<1>4. s \in Stream
  BY <1>2, <1>3 DEF New, Stream
<1> HIDE DEF s
<1>5. Retained(<<>>) = 0
  BY <1>3, TotalsAre DEF Retained
<1>6. <<>> = [i \in DOMAIN <<>> |-> <<>>[i].value]
  OBVIOUS
<1>7. HistoryIsWhole(s)
  BY <1>1, <1>5, <1>6 DEF HistoryIsWhole
<1>8. Admissible(s.history)
  BY <1>1, <1>3 DEF Admissible
<1>9. Sound(s)
  BY <1>1, <1>3, <1>4, <1>7, <1>8, ReferenceAssumption DEF Sound
<1>10. QED BY <1>1, <1>9 DEF s

(* The history, one sample longer, is still admissible. *)
LEMMA AdmissibleNext ==
  ASSUME NEW h \in Seq(Sample), Admissible(h), NEW x \in Sample,
         x.at > 0, x.available >= x.at, InOrder(x, h), x.value \notin Malformed,
         Takes(RunnerAt(h, Len(h)), x.value)
  PROVE  Admissible(Append(h, x))
<1> DEFINE m == Append(h, x)
<1>1. /\ m \in Seq(Sample) /\ Len(m) = Len(h) + 1 /\ m[Len(h) + 1] = x
      /\ \A i \in 1 .. Len(h) : m[i] = h[i]
  BY Appended
<1>2. Len(h) \in Nat /\ \A i \in 1 .. Len(h) : h[i] \in Sample
  OBVIOUS
<1>3. \A i \in 1 .. Len(h) : h[i].at \in Nat /\ h[i].available \in Nat
  BY <1>2, SampleParts
<1>4. x.at \in Nat /\ x.available \in Nat
  BY SampleParts
<1> HIDE DEF m
<1>5. \A i \in 1 .. Len(h) : h[i].at < x.at /\ h[i].available <= x.available
  <2> SUFFICES ASSUME NEW i \in 1 .. Len(h)
               PROVE  h[i].at < x.at /\ h[i].available <= x.available
    OBVIOUS
  <2>1. x.at > h[Len(h)].at /\ x.available >= h[Len(h)].available
    <3>1. h # <<>>
      OBVIOUS
    <3>2. QED BY <3>1 DEF InOrder, Last
  <2>2. Len(h) \in 1 .. Len(h)
    BY <1>2
  <2>3. i = Len(h) \/ (h[i].at < h[Len(h)].at /\ h[i].available <= h[Len(h)].available)
    BY <2>2 DEF Admissible
  <2>4. QED BY <1>3, <1>4, <2>1, <2>2, <2>3
<1>6. ASSUME NEW i \in 1 .. Len(m)
      PROVE  /\ m[i].at > 0 /\ m[i].available >= m[i].at /\ m[i].value \notin Malformed
             /\ Takes(RunnerAt(m, i - 1), m[i].value)
  <2>1. RunnerAt(m, i - 1) = RunnerAt(h, i - 1)
    BY <1>1, <1>2 DEF RunnerAt
  <2>2. CASE i = Len(h) + 1
    BY <1>1, <1>2, <2>1, <2>2
  <2>3. CASE i # Len(h) + 1
    <3>1. i \in 1 .. Len(h) /\ m[i] = h[i]
      BY <1>1, <1>2, <2>3
    <3>2. QED BY <2>1, <3>1 DEF Admissible
  <2>4. QED BY <2>2, <2>3
<1>7. ASSUME NEW i \in 1 .. Len(m), NEW j \in 1 .. Len(m), i < j
      PROVE  m[i].at < m[j].at /\ m[i].available <= m[j].available
  <2>1. i \in 1 .. Len(h) /\ m[i] = h[i]
    BY <1>1, <1>2, <1>7
  <2>2. CASE j = Len(h) + 1
    BY <1>1, <1>5, <2>1, <2>2
  <2>3. CASE j # Len(h) + 1
    <3>1. j \in 1 .. Len(h) /\ m[j] = h[j]
      BY <1>1, <1>2, <2>3
    <3>2. QED BY <1>7, <2>1, <3>1 DEF Admissible
  <2>4. QED BY <2>2, <2>3
<1>8. Admissible(m)
  BY <1>6, <1>7 DEF Admissible
<1>9. QED BY <1>8 DEF m

(* A sample that update accepts leaves a sound stream (update_controlled). *)
LEMMA ConsumeSound ==
  ASSUME NEW s, Sound(s), NEW x \in Sample, NEW asOf, Refusal(s, x, asOf) = "Ok"
  PROVE  /\ Sound(Consume(s, x))
         /\ Consume(s, x).series = s.series
         /\ Consume(s, x).history = Append(s.history, x)
         /\ Consume(s, x).latest.seen = Len(s.history) + 1
         /\ Consume(s, x).latest.at = x.at /\ Consume(s, x).latest.available = x.available
<1> DEFINE h == Append(s.history, x)
           r == Append(s.runner, x.value)
           b == s.bytes + Size(x.value)
           row == [at |-> x.at, available |-> x.available, seen |-> Len(s.history) + 1,
                   status |-> RowStatus(r)]
           t == Consume(s, x)
<1>1. /\ s \in Stream /\ s.series \in Series /\ s.runner \in Seq(Values)
      /\ s.history \in Seq(Sample) /\ s.bytes \in Nat
      /\ HistoryIsWhole(s) /\ Admissible(s.history) /\ Len(s.history) \in Nat
  BY DEF Sound, Stream
<1>2. /\ TimeOk(x, asOf) /\ InOrder(x, s.history) /\ x.value \notin Malformed
      /\ HasRoom(s, x) /\ Takes(s.runner, x.value)
  BY Accepted
<1>3. /\ x.at \in Time /\ x.available \in Time /\ x.value \in Values
      /\ x.at \in Nat /\ x.available \in Nat /\ Size(x.value) \in Nat
  BY SampleParts
<1>4. /\ h \in Seq(Sample) /\ Len(h) = Len(s.history) + 1 /\ h # <<>>
      /\ h[Len(h)] = x /\ \A i \in 1 .. Len(s.history) : h[i] = s.history[i]
  BY <1>1, Appended
<1>5. /\ r \in Seq(Values) /\ Len(r) = Len(s.runner) + 1 /\ r[Len(s.runner) + 1] = x.value
      /\ \A i \in 1 .. Len(s.runner) : r[i] = s.runner[i]
  BY <1>1, <1>3, Appended
<1>6. row \in Row
  <2>1. RowStatus(r) \in Status
    BY DEF RowStatus, Status
  <2>2. QED BY <1>1, <1>3, <2>1 DEF Row
<1>7. t = [s EXCEPT !.runner = r, !.history = h, !.bytes = b, !.latest = row]
  BY <1>1 DEF Consume, Stream
<1>8. b \in Nat /\ b <= MaxBytes /\ Len(s.history) + 1 <= MaxSamples
  BY <1>1, <1>2, <1>3, ReferenceAssumption DEF HasRoom
<1>9. b = Retained(h)
  BY <1>1, RetainedNext DEF HistoryIsWhole
<1>10. s.runner = RunnerAt(s.history, Len(s.history))
  BY <1>1 DEF HistoryIsWhole, RunnerAt
<1>11. r = [i \in DOMAIN h |-> h[i].value]
  <2>1. Len(s.runner) = Len(s.history)
        /\ \A i \in 1 .. Len(s.history) : s.runner[i] = s.history[i].value
    BY <1>1, <1>10 DEF RunnerAt
  <2>2. DOMAIN h = 1 .. Len(s.history) + 1 /\ DOMAIN r = 1 .. Len(s.history) + 1
    BY <1>4, <1>5, <2>1
  <2> HIDE DEF r, h
  <2>3. \A i \in 1 .. Len(s.history) + 1 : r[i] = h[i].value
    BY <1>1, <1>4, <1>5, <2>1
  <2>4. r = [i \in DOMAIN r |-> r[i]]
    BY <1>5
  <2>5. QED BY <2>2, <2>3, <2>4
<1>12. Admissible(h)
  BY <1>1, <1>2, <1>10, AdmissibleNext DEF TimeOk
<1> HIDE DEF h, r, b, t, row
<1>13. /\ t \in Stream /\ t.series = s.series /\ t.runner = r /\ t.history = h
       /\ t.bytes = b /\ t.latest = row
  BY <1>1, <1>4, <1>5, <1>6, <1>7, <1>8 DEF Stream
<1>14. /\ row.at = x.at /\ row.available = x.available /\ row.seen = Len(s.history) + 1
       /\ row = [at |-> Last(h).at, available |-> Last(h).available, seen |-> Len(h),
                 status |-> RowStatus(r)]
  BY <1>4 DEF row, Last
<1>15. HistoryIsWhole(t)
  BY <1>4, <1>9, <1>11, <1>13, <1>14 DEF HistoryIsWhole
<1>16. Sound(t)
  BY <1>4, <1>8, <1>12, <1>13, <1>15 DEF Sound
<1>17. QED BY <1>13, <1>14, <1>16 DEF t, h

(* A sound stream is what its series and its history make of it. *)
LEMMA HistoryDetermines ==
  ASSUME NEW s, NEW t, Sound(s), Sound(t), s.series = t.series, s.history = t.history
  PROVE  s = t
<1>1. s \in Stream /\ t \in Stream /\ HistoryIsWhole(s) /\ HistoryIsWhole(t)
  BY DEF Sound
<1>2. s.runner = t.runner /\ s.bytes = t.bytes
  BY <1>1 DEF HistoryIsWhole
<1>3. s.latest = t.latest
  BY <1>1, <1>2 DEF HistoryIsWhole
<1>4. QED BY <1>1, <1>2, <1>3 DEF Stream

(* The time an owner is shown of a sound stream is that of its last sample. *)
LEMMA SoundReport ==
  ASSUME NEW s, Sound(s)
  PROVE  <<s.latest.seen, s.latest.at, s.latest.available>> = Promise!Describe(AsBars(s.history))
<1>1. s.history \in Seq(Sample) /\ HistoryIsWhole(s)
  BY DEF Sound, Stream
<1> DEFINE h == s.history
           l == AsBars(h)
<1>2. /\ Len(l) = Len(h) /\ Len(h) \in Nat /\ l \in Seq([bar: [closed: Time, available: Time]])
      /\ \A i \in 1 .. Len(h) : l[i].bar.closed = h[i].at /\ l[i].bar.available = h[i].available
  <2>1. l = [i \in 1 .. Len(h) |->
                [bar |-> [closed |-> h[i].at, available |-> h[i].available]]]
    BY <1>1 DEF AsBars
  <2>2. \A i \in 1 .. Len(h) : h[i].at \in Time /\ h[i].available \in Time
    BY <1>1, SampleParts
  <2> HIDE DEF l
  <2>3. Len(h) \in Nat
    BY <1>1
  <2>4. QED BY <2>1, <2>2, <2>3
<1> HIDE DEF l
<1>3. CASE h = <<>>
  <2>1. l = <<>> /\ s.latest = NoRow
    BY <1>1, <1>2, <1>3 DEF HistoryIsWhole
  <2>2. QED BY <2>1 DEF NoRow, Promise!Describe, l
<1>4. CASE h # <<>>
  <2>1. l # <<>> /\ Len(h) \in 1 .. Len(h)
    BY <1>1, <1>2, <1>4
  <2>2. s.latest = [at |-> Last(h).at, available |-> Last(h).available,
                    seen |-> Len(h), status |-> RowStatus(s.runner)]
    BY <1>1, <1>4 DEF HistoryIsWhole
  <2>3. QED BY <1>2, <2>1, <2>2 DEF Promise!Describe, Last, l
<1>5. QED BY <1>3, <1>4

-----------------------------------------------------------------------------
(* Replaying a snapshot                                                    *)

(* What a snapshot that passed the checks is: the one taken of a sound stream. *)
LEMMA RestoreAccepted ==
  ASSUME NEW e, Sealed(e), NEW x, RestoreRefusal(e.snapshot, x) = "Ok"
  PROVE  /\ e.snapshot.series = x /\ e.of.series = x
         /\ e.snapshot.history = e.of.history
         /\ e.snapshot.history \in Seq(Sample) /\ Admissible(e.snapshot.history)
         /\ WithinReplayLimits(e.snapshot.history)
<1>1. /\ e.snapshot.series = x /\ WithinReplayLimits(e.snapshot.history)
      /\ e.snapshot.checksum = <<e.snapshot.version, e.snapshot.series, e.snapshot.history>>
  BY DEF RestoreRefusal
<1>2. e.snapshot.checksum = <<1, e.of.series, e.of.history>> /\ Sound(e.of)
  BY DEF Sealed
<1>3. e.of.history \in Seq(Sample) /\ Admissible(e.of.history)
  BY <1>2 DEF Sound, Stream
<1>4. QED BY <1>1, <1>2, <1>3

(* A history within the limits holds no more bytes than a stream may. *)
LEMMA RetainedFits ==
  ASSUME NEW h \in Seq(Sample), WithinReplayLimits(h)
  PROVE  Retained(h) \in Nat /\ Retained(h) <= MaxBytes
<1>1. Retained(h) \in Nat /\ Len(h) \in Nat
  BY TotalsNat DEF Retained
<1>2. CASE h = <<>>
  <2>1. Retained(h) = 0
    BY <1>2, TotalsAre DEF Retained
  <2>2. QED BY <2>1, ReferenceAssumption
<1>3. CASE h # <<>>
  BY <1>1, <1>3, ReferenceAssumption DEF WithinReplayLimits, Encoded
<1>4. QED BY <1>2, <1>3

(* The sample a replay is at, and the history it is of. *)
LEMMA ReplayParts ==
  ASSUME StreamInv, Replaying
  PROVE  /\ restore.entry \in vault /\ Sealed(restore.entry)
         /\ Sound(restore.result) /\ restore.result.series = restore.entry.of.series
         /\ Pending = restore.entry.of.history
         /\ Pending \in Seq(Sample) /\ Admissible(Pending) /\ WithinReplayLimits(Pending)
         /\ restore.result.history \in Seq(Sample)
         /\ Len(restore.result.history) <= Len(Pending)
         /\ \A i \in 1 .. Len(restore.result.history) : restore.result.history[i] = Pending[i]
         /\ restore = [entry |-> restore.entry, result |-> restore.result]
<1>1. ReplayInv
  BY DEF StreamInv
<1>2. restore.entry \in vault /\ restore = [entry |-> restore.entry, result |-> restore.result]
  BY <1>1 DEF ReplayInv
<1>3. Sealed(restore.entry)
  BY <1>2 DEF StreamInv
<1>4. Sound(restore.result) /\ restore.result.history \in Seq(Sample)
  BY <1>1 DEF ReplayInv, Sound, Stream
<1>5. RestoreRefusal(restore.entry.snapshot, restore.result.series) = "Ok"
  BY <1>1 DEF ReplayInv
<1>6. /\ restore.result.series = restore.entry.of.series
      /\ Pending = restore.entry.of.history
      /\ Pending \in Seq(Sample) /\ Admissible(Pending) /\ WithinReplayLimits(Pending)
  BY <1>3, <1>5, RestoreAccepted DEF Pending
<1>7. QED
  BY <1>1, <1>2, <1>3, <1>4, <1>6 DEF ReplayInv

(* Update refuses no sample of a replay (restore_controlled). *)
LEMMA ReplayAccepted ==
  ASSUME StreamInv, Replaying, Unfinished
  PROVE  /\ NextSample \in Sample
         /\ Refusal(restore.result, NextSample, ReplayTime(Pending)) = "Ok"
<1> DEFINE h == Pending
           r == restore.result
           n == Len(r.history)
           x == h[n + 1]
<1>1. /\ h \in Seq(Sample) /\ Admissible(h) /\ WithinReplayLimits(h)
      /\ Sound(r) /\ r.history \in Seq(Sample) /\ \A i \in 1 .. n : r.history[i] = h[i]
  BY ReplayParts
<1>2. n \in Nat /\ Len(h) \in Nat /\ n < Len(h)
  BY <1>1 DEF Unfinished
<1>3. NextSample = x
  BY DEF NextSample
<1> HIDE DEF h, r
<1>4. n + 1 \in 1 .. Len(h) /\ Len(h) \in 1 .. Len(h) /\ h # <<>>
  BY <1>1, <1>2
<1>5. x \in Sample /\ h[Len(h)] \in Sample
  BY <1>1, <1>4
<1>6. /\ x.at \in Nat /\ x.available \in Nat /\ Size(x.value) \in Nat
      /\ h[Len(h)].available \in Nat
  BY <1>5, SampleParts
<1>7. TimeOk(x, ReplayTime(h))
  <2>1. x.at > 0 /\ x.available >= x.at
    BY <1>1, <1>4 DEF Admissible
  <2>2. x.available <= h[Len(h)].available
    <3>1. CASE n + 1 = Len(h)
      BY <1>6, <3>1
    <3>2. CASE n + 1 # Len(h)
      BY <1>1, <1>2, <1>4, <3>2 DEF Admissible
    <3>3. QED BY <3>1, <3>2
  <2>3. ReplayTime(h) = h[Len(h)].available
    BY <1>4 DEF ReplayTime, Last
  <2>4. QED BY <2>1, <2>2, <2>3 DEF TimeOk
<1>8. InOrder(x, r.history)
  <2> SUFFICES ASSUME r.history # <<>>
               PROVE  x.at > Last(r.history).at /\ x.available >= Last(r.history).available
    BY DEF InOrder
  <2>1. n \in 1 .. n /\ n \in 1 .. Len(h)
    BY <1>1, <1>2
  <2>2. Last(r.history) = h[n]
    BY <1>1, <2>1 DEF Last
  <2>3. h[n].at < x.at /\ h[n].available <= x.available
    BY <1>1, <1>2, <1>4, <2>1 DEF Admissible
  <2>4. h[n] \in Sample
    BY <1>1, <2>1
  <2>5. h[n].at \in Nat /\ h[n].available \in Nat
    BY <2>4, SampleParts
  <2>6. QED BY <1>6, <2>2, <2>3, <2>5
<1>9. x.value \notin Malformed
  BY <1>1, <1>4 DEF Admissible
<1>10. HasRoom(r, x)
  <2>1. n < MaxSamples
    BY <1>1, <1>2, ReferenceAssumption DEF WithinReplayLimits
  <2>2. r.bytes = Totals(h)[n]
    <3>1. r.bytes = Retained(r.history)
      BY <1>1 DEF Sound, HistoryIsWhole
    <3>2. Retained(r.history) = Totals(h)[n]
      BY <1>1, <1>2, TotalsSame
    <3>3. QED BY <3>1, <3>2
  <2>3. Totals(h)[n + 1] = Totals(h)[n] + Size(x.value)
    <3>1. (n + 1) - 1 = n
      BY <1>2
    <3>2. QED BY <1>1, <1>4, <3>1, TotalsAre
  <2>4. Totals(h)[n + 1] <= Retained(h)
    <3>1. n + 1 \in 0 .. Len(h) /\ Len(h) \in n + 1 .. Len(h)
      BY <1>2
    <3>2. QED BY <1>1, <3>1, TotalsGrow DEF Retained
  <2>5. Retained(h) \in Nat /\ Retained(h) <= MaxBytes
    BY <1>1, RetainedFits
  <2>6. Totals(h)[n] \in Nat
    BY <1>1, <1>2, TotalsNat
  <2>7. r.bytes + Size(x.value) <= MaxBytes
    <3>1. r.bytes + Size(x.value) = Totals(h)[n + 1]
      BY <2>2, <2>3
    <3>2. Totals(h)[n + 1] \in Nat
      BY <1>6, <2>3, <2>6
    <3>3. QED BY <2>4, <2>5, <3>1, <3>2, ReferenceAssumption
  <2>8. QED BY <2>1, <2>7 DEF HasRoom
<1>11. Takes(r.runner, x.value)
  <2>1. Takes(RunnerAt(h, n), x.value)
    <3>1. (n + 1) - 1 = n
      BY <1>2
    <3>2. QED BY <1>1, <1>4, <3>1 DEF Admissible
  <2>2. r.runner = RunnerAt(h, n)
    <3>1. r.runner = [i \in DOMAIN r.history |-> r.history[i].value]
      BY <1>1 DEF Sound, HistoryIsWhole
    <3>2. DOMAIN r.history = 1 .. n
      BY <1>1
    <3>3. QED BY <1>1, <3>1, <3>2 DEF RunnerAt
  <2>3. QED BY <2>1, <2>2
<1>12. Refusal(r, x, ReplayTime(h)) = "Ok"
  BY <1>7, <1>8, <1>9, <1>10, <1>11, Accepted
<1>13. QED BY <1>3, <1>5, <1>12 DEF h, r

(* What a replay ends with is the stream its snapshot was taken of. *)
LEMMA ReplayedExactly ==
  ASSUME StreamInv, Replaying, ~Unfinished
  PROVE  restore.result = restore.entry.of
<1>1. /\ Pending \in Seq(Sample) /\ Pending = restore.entry.of.history
      /\ Sound(restore.result) /\ restore.result.series = restore.entry.of.series
      /\ restore.result.history \in Seq(Sample) /\ Sealed(restore.entry)
      /\ Len(restore.result.history) <= Len(Pending)
      /\ \A i \in 1 .. Len(restore.result.history) : restore.result.history[i] = Pending[i]
  BY ReplayParts
<1>2. Len(restore.result.history) = Len(Pending)
  <2>1. Len(restore.result.history) \in Nat /\ Len(Pending) \in Nat
    BY <1>1
  <2>2. QED BY <1>1, <2>1 DEF Unfinished
<1>3. restore.result.history = Pending
  BY <1>1, <1>2, SeqEqual
<1>4. Sound(restore.entry.of)
  BY <1>1 DEF Sealed
<1>5. QED BY <1>1, <1>3, <1>4, HistoryDetermines

-----------------------------------------------------------------------------
(* The owner's calls                                                       *)

(* The live stream and the restore, once they are what the steps make of them. *)
LEMMA LiveStep ==
  ASSUME StreamInv, ~Replaying, UNCHANGED <<vault, restore>>,
         stream' = NoStream \/ Sound(stream')
  PROVE  StreamInv'
<1>1. ~Replaying'
  BY DEF Replaying
<1>2. Running' => Sound(stream')
  BY DEF Running
<1>3. Running' => Sound(stream)'
  BY <1>2
<1>4. \A e \in vault' : Sealed(e)'
  BY DEF StreamInv
<1>5. QED BY <1>1, <1>3, <1>4 DEF StreamInv

LEMMA CreateStep ==
  ASSUME StreamInv, NEW x \in Series, Create(x)
  PROVE  StreamInv'
BY NewSound, LiveStep DEF Create

LEMMA UpdateStep ==
  ASSUME StreamInv, NEW x \in Sample, NEW asOf, Update(x, asOf)
  PROVE  StreamInv'
BY ConsumeSound, LiveStep DEF Update, StreamInv

LEMMA ResetStep ==
  ASSUME StreamInv, Reset
  PROVE  StreamInv'
<1>1. stream.series \in Series
  BY DEF Reset, StreamInv, Sound, Stream
<1>2. QED BY <1>1, NewSound, LiveStep DEF Reset, StreamInv

(* The stream is dropped: by its owner, or with a call that answers nothing. *)
LEMMA DropStep ==
  ASSUME StreamInv, Running, stream' = NoStream, UNCHANGED <<vault, restore>>
  PROVE  StreamInv'
BY LiveStep DEF StreamInv

(* A call changes nothing but what it replies. *)
LEMMA IdleStep ==
  ASSUME StreamInv, UNCHANGED <<stream, vault, restore>>
  PROVE  StreamInv'
BY DEF StreamInv, Running, Replaying, ReplayInv, Pending

LEMMA SnapshotStep ==
  ASSUME StreamInv, TakeSnapshot
  PROVE  StreamInv'
<1> DEFINE e == [snapshot |-> SnapshotOf(stream), of |-> stream]
<1>1. /\ vault' = vault \cup {e} /\ UNCHANGED <<stream, restore>> /\ Running /\ ~Replaying
      /\ Sound(stream)
  BY DEF TakeSnapshot, StreamInv
<1>2. Sealed(e)
  <2>1. /\ stream \in Stream /\ stream.series \in Series /\ stream.history \in Seq(Sample)
    BY <1>1 DEF Sound, Stream
  <2>2. SnapshotOf(stream) \in Snapshot
    BY <2>1 DEF SnapshotOf, Snapshot
  <2>3. SnapshotOf(stream).checksum = <<1, stream.series, stream.history>>
    BY DEF SnapshotOf
  <2>4. QED BY <1>1, <2>1, <2>2, <2>3 DEF Sealed
<1> HIDE DEF e
<1>3. \A f \in vault' : Sealed(f)
  BY <1>1, <1>2 DEF StreamInv
<1>4. QED BY <1>1, <1>3 DEF StreamInv, Running, Replaying

(* A restore begins with nothing replayed, or is refused. *)
LEMMA RestoreStep ==
  ASSUME StreamInv, NEW e \in vault, NEW x \in Series, Restore(e, x)
  PROVE  StreamInv'
<1>1. ~Running' /\ UNCHANGED <<stream, vault>>
  BY DEF Restore, Running
<1>2. CASE RestoreRefusal(e.snapshot, x) # "Ok"
  BY <1>1, <1>2 DEF Restore, StreamInv, Replaying
<1>3. CASE RestoreRefusal(e.snapshot, x) = "Ok"
  <2>1. restore' = [entry |-> e, result |-> New(x)]
    BY <1>3 DEF Restore
  <2>2. Sound(New(x)) /\ New(x).series = x /\ New(x).history = <<>> /\ New(x) \in Stream
    BY NewSound DEF Sound
  <2>3. e.snapshot.history \in Seq(Sample)
    BY <1>3, RestoreAccepted DEF StreamInv
  <2>4. Len(<<>>) = 0 /\ Len(e.snapshot.history) \in Nat
    BY <2>3
  <2>5. restore'.entry = e /\ restore'.result = New(x)
    BY <2>1
  <2>6. ReplayInv'
    BY <1>1, <1>3, <2>1, <2>2, <2>4, <2>5 DEF ReplayInv, Pending
  <2>7. QED BY <1>1, <2>6 DEF StreamInv
<1>4. QED BY <1>2, <1>3

(* One more sample of the history is replayed. *)
LEMMA ReplayStep ==
  ASSUME StreamInv, ReplaySample
  PROVE  /\ StreamInv' /\ UNCHANGED <<stream, vault>> /\ Replaying'
         /\ restore'.entry = restore.entry
<1> DEFINE r == restore.result
           s == Consume(r, NextSample)
<1>1. Replaying /\ Unfinished /\ ~Running
  BY DEF ReplaySample, StreamInv
<1>2. NextSample \in Sample /\ Refusal(r, NextSample, ReplayTime(Pending)) = "Ok"
  BY <1>1, ReplayAccepted
<1>3. /\ restore = [entry |-> restore.entry, result |-> r] /\ Sound(r) /\ Sealed(restore.entry)
      /\ restore.entry \in vault /\ Pending \in Seq(Sample) /\ r.history \in Seq(Sample)
      /\ \A i \in 1 .. Len(r.history) : r.history[i] = Pending[i]
      /\ RestoreRefusal(restore.entry.snapshot, r.series) = "Ok"
  BY <1>1, ReplayParts DEF StreamInv, ReplayInv
<1>4. restore' = [restore EXCEPT !.result = s] /\ UNCHANGED <<stream, vault>>
  BY <1>2, <1>3 DEF ReplaySample
<1> DEFINE e == restore.entry
<1>5. restore' = [entry |-> e, result |-> s]
  <2> HIDE DEF s
  <2>1. \A a, b, c : [[entry |-> a, result |-> b] EXCEPT !.result = c]
                       = [entry |-> a, result |-> c]
    OBVIOUS
  <2>2. QED BY <1>3, <1>4, <2>1
<1>6. Sound(s) /\ s.series = r.series /\ s.history = Append(r.history, NextSample)
  BY <1>2, <1>3, ConsumeSound
<1> HIDE DEF s
<1>7. /\ Len(s.history) = Len(r.history) + 1 /\ s.history[Len(r.history) + 1] = NextSample
      /\ \A i \in 1 .. Len(r.history) : s.history[i] = r.history[i]
  BY <1>2, <1>3, <1>6, Appended
<1>8. /\ Len(s.history) <= Len(Pending)
      /\ \A i \in 1 .. Len(s.history) : s.history[i] = Pending[i]
  <2>1. Len(r.history) \in Nat /\ Len(Pending) \in Nat
    BY <1>3
  <2>2. Len(r.history) < Len(Pending) /\ NextSample = Pending[Len(r.history) + 1]
    BY <1>1 DEF Unfinished, NextSample
  <2> HIDE DEF r
  <2>3. QED BY <1>3, <1>7, <2>1, <2>2
<1>9. restore'.entry = e /\ restore'.result = s
  BY <1>5
<1>10. Pending' = Pending
  BY <1>9 DEF Pending
<1>11. s \in Stream
  BY <1>6 DEF Sound
<1>12. ReplayInv'
  <2>1. restore' \in [entry: vault', result: Stream]
    BY <1>3, <1>4, <1>5, <1>11
  <2>2. QED BY <1>3, <1>6, <1>8, <1>9, <1>10, <2>1 DEF ReplayInv
<1>13. Replaying'
  BY <1>5, RestoreReplays DEF Replaying
<1>14. ~Running'
  BY <1>1, <1>4 DEF Running
<1>15. \A f \in vault' : Sealed(f)
  BY <1>4 DEF StreamInv
<1>16. QED
  BY <1>4, <1>9, <1>12, <1>13, <1>14, <1>15 DEF StreamInv

LEMMA StopReplayStep ==
  ASSUME StreamInv, ReplayStopped
  PROVE  StreamInv'
BY DEF StreamInv, ReplayStopped, Replaying, Running

LEMMA RestoredStep ==
  ASSUME StreamInv, Restored
  PROVE  /\ StreamInv' /\ UNCHANGED vault /\ Running' /\ ~Replaying'
         /\ stream' = restore.entry.of
<1>1. stream' = restore.entry.of /\ restore' = Idle /\ UNCHANGED vault
  BY ReplayedExactly DEF Restored
<1>2. Sealed(restore.entry)
  BY ReplayParts DEF Restored
<1>3. Sound(stream') /\ stream' \in Stream
  BY <1>1, <1>2 DEF Sealed, Sound
<1>4. Running' /\ ~Replaying'
  BY <1>1, <1>3, StreamRuns DEF Running, Replaying
<1>5. \A f \in vault' : Sealed(f)
  BY <1>1 DEF StreamInv
<1>6. QED
  BY <1>1, <1>3, <1>4, <1>5 DEF StreamInv

(* Whatever damage does to a snapshot, its checksum is the one it was given. *)
LEMMA DamageStep ==
  ASSUME StreamInv, NEW e \in vault, NEW other \in vault, Damage(e, other)
  PROVE  StreamInv' /\ {AsBars(f.of.history) : f \in vault'} = {AsBars(f.of.history) : f \in vault}
<1>1. PICK damaged \in {[e.snapshot EXCEPT !.history = other.snapshot.history],
                        [e.snapshot EXCEPT !.series = other.snapshot.series],
                        [e.snapshot EXCEPT !.version = 0]} :
        /\ ~Replaying
        /\ vault' = (vault \ {e}) \cup {[e EXCEPT !.snapshot = damaged]}
        /\ UNCHANGED <<stream, restore>>
  BY DEF Damage
<1> DEFINE f == [e EXCEPT !.snapshot = damaged]
<1>2. Sealed(e) /\ Sealed(other)
  BY DEF StreamInv
<1>3. e \in [snapshot: Snapshot, of: Stream] /\ other.snapshot \in Snapshot
  BY <1>2 DEF Sealed
<1>4. damaged \in Snapshot /\ damaged.checksum = e.snapshot.checksum
  BY <1>1, <1>3 DEF Snapshot
<1>5. f \in [snapshot: Snapshot, of: Stream] /\ f.snapshot = damaged /\ f.of = e.of
  BY <1>3, <1>4
<1> HIDE DEF f
<1>6. Sealed(f)
  BY <1>2, <1>4, <1>5 DEF Sealed
<1>7. \A g \in vault' : Sealed(g)
  BY <1>1, <1>6 DEF StreamInv, f
<1>8. StreamInv'
  BY <1>1, <1>7 DEF StreamInv, Running, Replaying
<1>9. QED BY <1>1, <1>5, <1>8 DEF f

-----------------------------------------------------------------------------
(* The tools                                                               *)

LEMMA CallServes == \A c \in Call : c # NoCall
BY DEF Call, NoCall

(* Nobody is served after a call that ended; one that has not answered owes *)
(* its invariant only.                                                      *)
LEMMA CallEnds ==
  ASSUME StreamInv', call' = NoCall
  PROVE  ToolInv'
BY DEF ToolInv, Serving

LEMMA CallGoesOn ==
  ASSUME StreamInv', CallInv', call'.pc # "answered"
  PROVE  ToolInv'
BY DEF ToolInv, AnswersAsOf

(* A call begins at work. *)
LEMMA CallBegins ==
  ASSUME NEW action \in {"create", "advance", "inspect", "reset", "calculate"},
         NEW e \in [snapshot: Snapshot, of: Stream] \cup {NoEntry},
         NEW asOf \in Time, NEW samples \in Seq(Sample)
  PROVE  LET c == CallOf(action, e, asOf, samples)
         IN  /\ c \in Call /\ c.action = action /\ c.entry = e /\ c.asOf = asOf
             /\ c.samples = samples /\ c.done = 0 /\ c.pc = "work"
BY DEF CallOf, Call

(* A call on a new stream, of no samples yet. *)
LEMMA NewWork ==
  ASSUME NEW c \in Call, ~Restores(c), c.done = 0, NEW x \in Series,
         c.action = "create" => c.samples = <<>>
  PROVE  WorkInv(c, New(x))
<1>1. New(x).history = <<>> /\ New(x).series = x
  BY DEF New
<1>2. Len(<<>>) = 0 /\ c.samples \in Seq(Sample) /\ Base(c) = <<>>
  BY DEF Call, Base
<1>3. 0 <= Len(c.samples)
  <2>1. Len(c.samples) \in Nat
    BY <1>2
  <2>2. QED BY <2>1
<1>4. Follows(<<>>, c, 0) /\ Known(<<>>, c.asOf)
  BY <1>2 DEF Follows, Known
<1> HIDE DEF New
<1>5. c.action \notin {"advance", "inspect", "reset"}
  BY DEF Restores
<1>6. QED
  BY <1>1, <1>3, <1>4, <1>5 DEF WorkInv, Restores

LEMMA CallCreateInv ==
  ASSUME ToolInv, NEW x \in Series, CallCreate(x)
  PROVE  ToolInv'
<1>1. /\ Create(x) /\ call' = CallOf("create", NoEntry, 0, <<>>) /\ StreamInv
      /\ stream' = New(x) /\ ~Replaying'
  BY DEF CallCreate, ToolInv, Create, Replaying
<1>2. StreamInv'
  BY <1>1, CreateStep
<1>3. 0 \in Time /\ <<>> \in Seq(Sample)
  BY ReferenceAssumption DEF Time
<1>4. /\ call' \in Call /\ call'.action = "create" /\ call'.samples = <<>> /\ call'.done = 0
      /\ call'.pc = "work"
  <2> DEFINE c == CallOf("create", NoEntry, 0, <<>>)
  <2>1. /\ c \in Call /\ c.action = "create" /\ c.samples = <<>> /\ c.done = 0
        /\ c.pc = "work"
    BY <1>3 DEF CallOf, Call
  <2> HIDE DEF c
  <2>2. QED BY <1>1, <2>1 DEF c
<1>5. ~Restores(call')
  BY <1>4 DEF Restores
<1>6. WorkInv(call', New(x))
  BY <1>4, <1>5, NewWork
<1>7. Running'
  BY <1>1, NewSound, StreamRuns DEF Sound, Running
<1>8. CallInv'
  BY <1>1, <1>4, <1>5, <1>6, <1>7 DEF CallInv
<1>9. QED BY <1>2, <1>4, <1>8, CallGoesOn

LEMMA CallCalculateInv ==
  ASSUME ToolInv, ~Serving, NEW x \in Series, NEW asOf \in Time, NEW samples \in Lists,
         CallCalculate(x, asOf, samples)
  PROVE  ToolInv'
<1>1. CASE Calculable(samples)
  <2>1. /\ Create(x) /\ call' = CallOf("calculate", NoEntry, asOf, samples) /\ StreamInv
        /\ stream' = New(x) /\ ~Replaying'
    BY <1>1 DEF CallCalculate, ToolInv, Create, Replaying
  <2>2. StreamInv'
    BY <2>1, CreateStep
  <2>3. samples \in Seq(Sample)
    BY ToolAssumption
  <2>4. /\ call' \in Call /\ call'.action = "calculate" /\ call'.done = 0 /\ call'.pc = "work"
    BY <2>1, <2>3, CallBegins
  <2>5. ~Restores(call')
    BY <2>4 DEF Restores
  <2>6. WorkInv(call', New(x))
    BY <2>4, <2>5, NewWork
  <2>7. Running'
    BY <2>1, NewSound, StreamRuns DEF Sound, Running
  <2>8. CallInv'
    BY <2>1, <2>4, <2>5, <2>6, <2>7 DEF CallInv
  <2>9. QED BY <2>2, <2>4, <2>8, CallGoesOn
<1>2. CASE ~Calculable(samples)
  <2>1. UNCHANGED <<stream, vault, restore, call>>
    BY <1>2 DEF CallCalculate, Refuse
  <2>2. StreamInv'
    BY <2>1, IdleStep DEF ToolInv
  <2>3. QED BY <2>1, <2>2 DEF ToolInv, Serving
<1>3. QED BY <1>1, <1>2

LEMMA CallRestoreInv ==
  ASSUME ToolInv, ~Serving, NEW action \in {"advance", "inspect", "reset"},
         NEW e \in vault, NEW x \in Series, NEW asOf \in Time, NEW samples \in Seq(Sample),
         action \in {"inspect", "reset"} => samples = <<>>,
         CallRestore(action, e, x, asOf, samples)
  PROVE  ToolInv'
<1> DEFINE foreseen == action = "advance" /\ Foreseen(e.snapshot, asOf)
<1>1. CASE UNCHANGED <<stream, vault, restore, call>>
  <2>1. StreamInv'
    BY <1>1, IdleStep DEF ToolInv
  <2>2. QED BY <1>1, <2>1 DEF ToolInv, Serving
<1>2. CASE /\ ~foreseen /\ Restore(e, x)
           /\ call' = IF RestoreRefusal(e.snapshot, x) = "Ok"
                      THEN CallOf(action, e, asOf, samples) ELSE NoCall
  <2>1. StreamInv /\ Sealed(e)
    BY DEF ToolInv, StreamInv
  <2>2. StreamInv'
    BY <1>2, <2>1, RestoreStep
  <2>3. CASE RestoreRefusal(e.snapshot, x) # "Ok"
    BY <1>2, <2>2, <2>3, CallEnds
  <2>4. CASE RestoreRefusal(e.snapshot, x) = "Ok"
    <3>1. e \in [snapshot: Snapshot, of: Stream]
      BY <2>1 DEF Sealed
    <3>2. call' = CallOf(action, e, asOf, samples) /\ restore' = [entry |-> e, result |-> New(x)]
      BY <1>2, <2>4 DEF Restore
    <3>3. /\ call' \in Call /\ call'.action = action /\ call'.entry = e /\ call'.asOf = asOf
          /\ call'.samples = samples /\ call'.done = 0 /\ call'.pc = "work"
      BY <3>1, <3>2, CallBegins
    <3>4. Replaying' /\ restore'.entry = e
      BY <3>2, RestoreReplays DEF Replaying
    <3>5. ~Running'
      BY <1>2 DEF Restore, Running
    <3>6. Restores(call')
      BY <3>3 DEF Restores
    <3>7. CallInv'
      BY <1>2, <2>1, <3>3, <3>4, <3>5, <3>6 DEF CallInv
    <3>8. QED BY <2>2, <3>3, <3>7, CallGoesOn
  <2>5. QED BY <2>3, <2>4
<1>3. QED
  BY <1>1, <1>2 DEF CallRestore, Refuse

(* What is known of the last sample is known of all before it. *)
LEMMA KnownFromLast ==
  ASSUME NEW h \in Seq(Sample), Admissible(h), NEW asOf \in Time,
         h # <<>> => Last(h).available <= asOf
  PROVE  Known(h, asOf)
<1> SUFFICES ASSUME NEW i \in 1 .. Len(h) PROVE h[i].available <= asOf
  BY DEF Known
<1>1. h # <<>> /\ Len(h) \in 1 .. Len(h)
  OBVIOUS
<1>2. h[i].available \in Nat /\ h[Len(h)].available \in Nat /\ asOf \in Nat
  <2>1. h[i] \in Sample /\ h[Len(h)] \in Sample
    BY <1>1
  <2>2. QED BY <2>1, SampleParts, ReferenceAssumption DEF Time
<1>3. h[Len(h)].available <= asOf
  BY <1>1 DEF Last
<1>4. i = Len(h) \/ h[i].available <= h[Len(h)].available
  BY <1>1 DEF Admissible
<1>5. QED BY <1>2, <1>3, <1>4

LEMMA ServeReplayInv ==
  ASSUME ToolInv, Serving, ServeReplay
  PROVE  ToolInv'
<1>1. StreamInv /\ CallInv
  BY DEF ToolInv
<1>2. CASE ReplaySample /\ call' = IF restore' = Idle THEN NoCall ELSE call
  <2>1. StreamInv' /\ UNCHANGED stream /\ Replaying' /\ restore'.entry = restore.entry
    BY <1>1, <1>2, ReplayStep
  <2>2. call' = call /\ Replaying /\ ~Running /\ ~Running'
    BY <1>1, <1>2, <2>1 DEF Replaying, ReplaySample, StreamInv, Running
  <2>3. call.pc = "work"
    BY <1>1, <2>2 DEF CallInv
  <2>4. CallInv'
    BY <1>1, <2>1, <2>2, <2>3 DEF CallInv
  <2>5. QED BY <2>1, <2>2, <2>3, <2>4, CallGoesOn
<1>3. CASE ReplayStopped /\ call' = IF restore' = Idle THEN NoCall ELSE call
  BY <1>1, <1>3, StopReplayStep, CallEnds DEF ReplayStopped
<1>4. CASE Restored /\ UNCHANGED call
  <2>1. StreamInv' /\ Running' /\ ~Replaying' /\ stream' = restore.entry.of /\ Replaying
    BY <1>1, <1>4, RestoredStep DEF Restored
  <2>2. /\ call \in Call /\ Restores(call) /\ Sealed(call.entry) /\ restore.entry = call.entry
        /\ call.pc = "work" /\ call.done = 0
        /\ call.action = "advance" => ~Foreseen(call.entry.snapshot, call.asOf)
        /\ call.action \in {"inspect", "reset"} => call.samples = <<>>
    BY <1>1, <2>1 DEF CallInv
  <2> DEFINE h == call.entry.of.history
  <2>3. /\ h \in Seq(Sample) /\ Admissible(h) /\ call.entry.snapshot.history = h
    BY <1>1, <2>1, <2>2, ReplayParts DEF Pending
  <2>4. call.asOf \in Time /\ call.asOf \in Nat /\ call.samples \in Seq(Sample)
    BY <2>2, ReferenceAssumption DEF Call, Time
  <2>5. call.action = "advance" => Known(h, call.asOf)
    <3> SUFFICES ASSUME call.action = "advance" PROVE Known(h, call.asOf)
      OBVIOUS
    <3> HIDE DEF h
    <3>1. h # <<>> => Last(h).available <= call.asOf
      <4> SUFFICES ASSUME h # <<>> PROVE Last(h).available <= call.asOf
        OBVIOUS
      <4>1. Len(h) \in 1 .. Len(h)
        BY <2>3
      <4>2. h[Len(h)] \in Sample
        BY <2>3, <4>1
      <4>3. Last(h).available \in Nat
        BY <4>2, SampleParts DEF Last
      <4>4. QED BY <2>2, <2>3, <2>4, <4>3 DEF Foreseen
    <3>2. QED BY <2>3, <2>4, <3>1, KnownFromLast
  <2>6. Follows(h, call, 0)
    <3>1. Base(call) = h /\ Len(h) \in Nat
      BY <2>2, <2>3 DEF Base
    <3> HIDE DEF h
    <3>2. QED BY <3>1 DEF Follows
  <2>7. call.action \in {"advance", "inspect", "reset"}
    BY <2>2 DEF Restores
  <2>8. WorkInv(call, call.entry.of)
    BY <2>2, <2>4, <2>5, <2>6, <2>7 DEF WorkInv
  <2>9. CallInv'
    BY <1>4, <2>1, <2>2, <2>8 DEF CallInv
  <2>10. QED BY <1>4, <2>1, <2>2, <2>9, CallGoesOn
<1>5. QED BY <1>2, <1>3, <1>4 DEF ServeReplay

(* A call that is abandoned leaves no stream and answers nothing. *)
LEMMA AbandonInv ==
  ASSUME ToolInv, Running, NEW code, Abandon(code)
  PROVE  ToolInv'
BY DropStep, CallEnds DEF Abandon, ToolInv

(* A sample of the call that update takes joins the history. *)
LEMMA UpdateWork ==
  ASSUME NEW c \in Call, NEW s, Sound(s), WorkInv(c, s), c.done < Len(c.samples),
         Restores(c) => Sealed(c.entry),
         NEW t, Sound(t), t.series = s.series,
         t.history = Append(s.history, c.samples[c.done + 1]),
         c.samples[c.done + 1].available <= c.asOf
  PROVE  LET d == [c EXCEPT !.done = @ + 1]
         IN  /\ d \in Call /\ WorkInv(d, t) /\ d.pc = c.pc /\ d.entry = c.entry
             /\ d.action = c.action
<1> DEFINE n == c.done + 1
           x == c.samples[n]
           d == [c EXCEPT !.done = n]
           b == Len(Base(c))
<1>1. /\ c.done \in Nat /\ c.samples \in Seq(Sample) /\ Len(c.samples) \in Nat
      /\ s.history \in Seq(Sample)
  BY DEF Call, Sound, Stream
<1>2. n \in Nat /\ n \in 1 .. Len(c.samples) /\ n <= Len(c.samples)
  BY <1>1
<1>3. x \in Sample
  BY <1>1, <1>2
<1>4. [c EXCEPT !.done = @ + 1] = d
  BY DEF Call
<1> HIDE DEF x
<1>5. b \in Nat /\ Follows(s.history, c, c.done)
  <2>1. Restores(c) => c.entry.of.history \in Seq(Sample)
    BY DEF Sealed, Sound, Stream
  <2>2. Base(c) \in Seq(Sample)
    BY <2>1 DEF Base
  <2>3. QED BY <2>2 DEF WorkInv
<1>6. /\ Len(t.history) = Len(s.history) + 1 /\ t.history[Len(s.history) + 1] = x
      /\ \A i \in 1 .. Len(s.history) : t.history[i] = s.history[i]
  BY <1>1, <1>3, Appended DEF x
<1>7. Len(s.history) = b + c.done
  BY <1>5 DEF Follows
<1> HIDE DEF n
<1>8. /\ d \in Call /\ d.done = n /\ d.pc = c.pc /\ d.entry = c.entry /\ d.action = c.action
      /\ d.samples = c.samples /\ d.asOf = c.asOf
  BY <1>2 DEF Call
<1> HIDE DEF d
<1>9. Restores(d) = Restores(c) /\ Base(d) = Base(c)
  BY <1>8 DEF Restores, Base
<1>10. Follows(t.history, d, n)
  <2>1. Len(t.history) = b + n
    BY <1>1, <1>5, <1>6, <1>7 DEF n
  <2>2. ASSUME NEW i \in 1 .. b PROVE t.history[i] = Base(c)[i]
    <3>1. i \in 1 .. Len(s.history)
      BY <1>1, <1>5, <1>7
    <3>2. s.history[i] = Base(c)[i]
      BY <1>5 DEF Follows
    <3>3. QED BY <1>6, <3>1, <3>2
  <2>3. ASSUME NEW i \in 1 .. n PROVE t.history[b + i] = c.samples[i]
    <3>1. CASE i = n
      <4>1. b + i = Len(s.history) + 1
        BY <1>1, <1>5, <1>7, <3>1 DEF n
      <4>2. QED BY <1>6, <3>1, <4>1 DEF x
    <3>2. CASE i # n
      <4>1. i \in 1 .. c.done /\ b + i \in 1 .. Len(s.history)
        BY <1>1, <1>5, <1>7, <3>2 DEF n
      <4>2. s.history[b + i] = c.samples[i]
        BY <1>5, <4>1 DEF Follows
      <4>3. QED BY <1>6, <4>1, <4>2
    <3>3. QED BY <3>1, <3>2
  <2>4. QED
    BY <1>8, <1>9, <2>1, <2>2, <2>3 DEF Follows
<1>11. c.action \in {"advance", "calculate"} => Known(t.history, c.asOf)
  <2> SUFFICES ASSUME Known(s.history, c.asOf), NEW i \in 1 .. Len(t.history)
               PROVE  t.history[i].available <= c.asOf
    BY DEF WorkInv, Known
  <2>1. CASE i = Len(s.history) + 1
    BY <1>6, <2>1 DEF x, n
  <2>2. CASE i # Len(s.history) + 1
    <3>1. i \in 1 .. Len(s.history)
      BY <1>1, <1>6, <2>2
    <3>2. QED BY <1>6, <3>1 DEF Known
  <2>3. QED BY <2>1, <2>2
<1>12. c.action \notin {"create", "inspect", "reset"}
  <2>1. c.samples # <<>>
    BY <1>1, <1>2
  <2>2. QED BY <2>1 DEF WorkInv
<1>13. WorkInv(d, t)
  BY <1>2, <1>8, <1>9, <1>10, <1>11, <1>12 DEF WorkInv
<1>14. QED BY <1>4, <1>8, <1>13

LEMMA ServeUpdateInv ==
  ASSUME ToolInv, Serving, ServeUpdate
  PROVE  ToolInv'
<1>1. /\ StreamInv /\ CallInv /\ Running /\ call.pc = "work" /\ Sound(stream) /\ ~Replaying
      /\ call.done < Len(call.samples)
  BY DEF ToolInv, ServeUpdate, Working, StreamInv
<1>2. CASE Update(NextOfCall, call.asOf) /\ call' = [call EXCEPT !.done = @ + 1]
  <2>1. call \in Call /\ WorkInv(call, stream) /\ (Restores(call) => Sealed(call.entry))
    BY <1>1 DEF CallInv
  <2>2. NextOfCall \in Sample
    <3>1. call.samples \in Seq(Sample) /\ call.done \in Nat
      BY <2>1 DEF Call
    <3>2. call.done + 1 \in 1 .. Len(call.samples)
      BY <1>1, <3>1
    <3>3. QED BY <3>1, <3>2 DEF NextOfCall
  <2>3. /\ Refusal(stream, NextOfCall, call.asOf) = "Ok" /\ stream' = Consume(stream, NextOfCall)
        /\ UNCHANGED <<vault, restore>>
    BY <1>2 DEF Update
  <2>4. /\ Sound(stream') /\ stream'.series = stream.series
        /\ stream'.history = Append(stream.history, call.samples[call.done + 1])
    BY <1>1, <2>2, <2>3, ConsumeSound DEF NextOfCall
  <2>5. call.samples[call.done + 1].available <= call.asOf
    BY <2>3, Accepted DEF TimeOk, NextOfCall
  <2>6. /\ call' \in Call /\ WorkInv(call', stream') /\ call'.pc = "work"
        /\ call'.entry = call.entry /\ call'.action = call.action
    BY <1>1, <1>2, <2>1, <2>4, <2>5, UpdateWork
  <2>7. Running' /\ ~Replaying'
    BY <1>1, <2>3, <2>4, StreamRuns DEF Running, Replaying, Sound
  <2>8. StreamInv'
    BY <1>1, <1>2, <2>2, UpdateStep
  <2>9. Restores(call') = Restores(call)
    BY <2>6 DEF Restores
  <2>10. CallInv'
    BY <2>1, <2>6, <2>7, <2>9 DEF CallInv
  <2>11. QED BY <2>6, <2>8, <2>10, CallGoesOn
<1>3. CASE Abandon(Refusal(stream, NextOfCall, call.asOf))
  BY <1>1, <1>3, AbandonInv
<1>4. QED BY <1>2, <1>3 DEF ServeUpdate

LEMMA ServeResetInv ==
  ASSUME ToolInv, Serving, ServeReset
  PROVE  ToolInv'
<1>1. /\ StreamInv /\ CallInv /\ Running /\ call.pc = "work" /\ Sound(stream) /\ ~Replaying
      /\ call.action = "reset" /\ Reset /\ call' = [call EXCEPT !.pc = "answer"]
  BY DEF ToolInv, ServeReset, Working, StreamInv
<1>2. /\ call \in Call /\ Restores(call) /\ Sealed(call.entry)
      /\ stream.series = call.entry.of.series
  BY <1>1 DEF CallInv, Restores, WorkInv
<1>3. stream' = New(call.entry.of.series) /\ UNCHANGED <<vault, restore>>
  BY <1>1, <1>2 DEF Reset
<1>4. StreamInv'
  BY <1>1, ResetStep
<1>5. /\ call' \in Call /\ call'.pc = "answer" /\ call'.action = "reset"
      /\ call'.entry = call.entry
  BY <1>1, <1>2 DEF Call
<1>6. call.entry.of.series \in Series
  BY <1>2 DEF Sealed, Stream
<1>7. Running' /\ ~Replaying'
  BY <1>1, <1>3, <1>6, NewSound, StreamRuns DEF Running, Replaying, Sound
<1>8. CallInv'
  BY <1>2, <1>3, <1>5, <1>7 DEF CallInv
<1>9. QED BY <1>4, <1>5, <1>8, CallGoesOn

(* What a call at work that has taken all its samples may answer. *)
LEMMA WorkAnswers ==
  ASSUME NEW c \in Call, NEW s, Sound(s), WorkInv(c, s), c.done = Len(c.samples),
         c.action # "reset", Restores(c) => Sealed(c.entry)
  PROVE  /\ c.action = "advance" => s.series = c.entry.of.series
         /\ c.action \in {"advance", "calculate"} =>
              /\ s.history = (IF c.action = "advance" THEN c.entry.of.history ELSE <<>>)
                               \o c.samples
              /\ \A i \in DOMAIN s.history : s.history[i].available <= c.asOf
         /\ c.action = "inspect" => s = c.entry.of
         /\ c.action = "create"  => s = New(s.series)
<1>1. c.samples \in Seq(Sample) /\ s.history \in Seq(Sample)
  BY DEF Call, Sound, Stream
<1>2. Restores(c) => c.entry.of.history \in Seq(Sample)
  BY DEF Sealed, Sound, Stream
<1>3. Base(c) \in Seq(Sample)
  BY <1>2 DEF Base
<1>4. s.history = Base(c) \o c.samples
  <2> DEFINE t == Base(c) \o c.samples
  <2>1. /\ t \in Seq(Sample) /\ Len(t) = Len(Base(c)) + Len(c.samples)
        /\ \A i \in 1 .. Len(t) :
             t[i] = IF i <= Len(Base(c)) THEN Base(c)[i] ELSE c.samples[i - Len(Base(c))]
    BY <1>1, <1>3
  <2>2. Follows(s.history, c, Len(c.samples))
    BY DEF WorkInv
  <2>3. Len(s.history) = Len(t)
    BY <2>1, <2>2 DEF Follows
  <2>4. Len(Base(c)) \in Nat /\ Len(c.samples) \in Nat
    BY <1>1, <1>3
  <2> HIDE DEF t
  <2>5. ASSUME NEW i \in 1 .. Len(t) PROVE s.history[i] = t[i]
    <3>1. CASE i <= Len(Base(c))
      BY <2>1, <2>2, <2>4, <3>1 DEF Follows
    <3>2. CASE ~(i <= Len(Base(c)))
      <4> DEFINE k == i - Len(Base(c))
      <4>1. k \in 1 .. Len(c.samples) /\ Len(Base(c)) + k = i
        BY <2>1, <2>4, <3>2
      <4>2. s.history[Len(Base(c)) + k] = c.samples[k]
        BY <2>2, <4>1 DEF Follows
      <4>3. QED BY <2>1, <3>2, <4>1, <4>2
    <3>3. QED BY <3>1, <3>2
  <2>6. s.history = t
    BY <1>1, <2>1, <2>3, <2>5, SeqEqual
  <2>7. QED BY <2>6 DEF t
<1>5. /\ c.action = "advance" => Base(c) = c.entry.of.history
      /\ c.action = "calculate" => Base(c) = <<>>
  BY DEF Base, Restores
<1>6. c.action \in {"advance", "calculate"} =>
        \A i \in DOMAIN s.history : s.history[i].available <= c.asOf
  BY <1>1 DEF WorkInv, Known
<1>7. c.action = "advance" => s.series = c.entry.of.series
  BY DEF WorkInv, Restores
<1>8. /\ c.action = "inspect" => s = c.entry.of
      /\ c.action = "create"  => s = New(s.series)
  BY DEF WorkInv
<1>9. c.action = "advance" => s.history = c.entry.of.history \o c.samples
  BY <1>4, <1>5
<1>10. c.action = "calculate" => s.history = <<>> \o c.samples
  BY <1>4, <1>5
<1>11. QED BY <1>6, <1>7, <1>8, <1>9, <1>10

LEMMA ServeAnswerInv ==
  ASSUME ToolInv, Serving, ServeAnswer
  PROVE  ToolInv'
<1>1. /\ StreamInv /\ CallInv /\ Running /\ Sound(stream) /\ ~Replaying /\ call \in Call
      /\ UNCHANGED <<stream, restore>> /\ call' = [call EXCEPT !.pc = "answered"]
      /\ Restores(call) => Sealed(call.entry)
  BY DEF ToolInv, ServeAnswer, StreamInv, TakeSnapshot, CallInv
<1>2. StreamInv'
  <2>1. TakeSnapshot \/ UNCHANGED <<stream, vault, restore>>
    BY DEF ServeAnswer
  <2>2. QED BY <1>1, <2>1, SnapshotStep, IdleStep
<1>3. /\ call' \in Call /\ call'.pc = "answered" /\ call'.action = call.action
      /\ call'.entry = call.entry /\ call'.samples = call.samples /\ call'.asOf = call.asOf
  BY <1>1 DEF Call
<1>4. Running' /\ ~Replaying' /\ Restores(call') = Restores(call)
  BY <1>1, <1>3 DEF Running, Replaying, Restores
<1>5. CallInv'
  BY <1>1, <1>3, <1>4 DEF CallInv
<1>6. AnswersAsOf'
  <2>1. CASE call.pc = "answer"
    <3>1. call.action = "reset" /\ stream = New(call.entry.of.series)
      BY <1>1, <2>1 DEF CallInv
    <3>2. QED BY <1>1, <1>3, <3>1 DEF AnswersAsOf
  <2>2. CASE call.pc = "work" /\ call.action # "reset" /\ call.done = Len(call.samples)
    <3>1. WorkInv(call, stream)
      BY <1>1, <2>2 DEF CallInv
    <3>2. QED
      BY <1>1, <1>3, <2>2, <3>1, WorkAnswers DEF AnswersAsOf
  <2>3. QED BY <2>1, <2>2 DEF ServeAnswer
<1>7. QED BY <1>2, <1>5, <1>6 DEF ToolInv

LEMMA ServeEndInv ==
  ASSUME ToolInv, ServeEnd
  PROVE  ToolInv'
BY DropStep, CallEnds DEF ServeEnd, Drop, ToolInv

(* An owner that is no call of a tool. *)
LEMMA OwnerStep ==
  ASSUME StreamInv, Next
  PROVE  StreamInv'
<1>1. ASSUME NEW x \in Series, Create(x) PROVE StreamInv'
  BY <1>1, CreateStep
<1>2. ASSUME NEW x \in Offers, NEW asOf \in Time, Update(x, asOf) PROVE StreamInv'
  BY <1>2, UpdateStep, OffersAssumption
<1>3. ASSUME NEW x \in Offers, NEW asOf \in Time, UpdateRefused(x, asOf) PROVE StreamInv'
  BY <1>3, IdleStep DEF UpdateRefused
<1>4. ASSUME NEW x \in Offers, NEW asOf \in Time, UpdateStopped(x, asOf) PROVE StreamInv'
  BY <1>4, IdleStep DEF UpdateStopped, AfterStop
<1>5. CASE Reset
  BY <1>5, ResetStep
<1>6. CASE TakeSnapshot
  BY <1>6, SnapshotStep
<1>7. CASE Drop
  BY <1>7, DropStep DEF Drop
<1>8. ASSUME NEW e \in vault, NEW x \in Series, Restore(e, x) PROVE StreamInv'
  BY <1>8, RestoreStep
<1>9. CASE ReplaySample
  BY <1>9, ReplayStep
<1>10. CASE ReplayStopped
  BY <1>10, StopReplayStep
<1>11. CASE Restored
  BY <1>11, RestoredStep
<1>12. ASSUME NEW e \in vault, NEW other \in vault, Damage(e, other) PROVE StreamInv'
  BY <1>12, DamageStep
<1>13. QED
  BY <1>1, <1>2, <1>3, <1>4, <1>5, <1>6, <1>7, <1>8, <1>9, <1>10, <1>11, <1>12 DEF Next

LEMMA ToolInitInv == ToolInit => ToolInv
BY DEF ToolInit, Init, ToolInv, StreamInv, Running, Replaying, Serving

LEMMA ToolNextInv == ToolInv /\ [ToolNext]_toolVars => ToolInv'
<1> SUFFICES ASSUME ToolInv, [ToolNext]_toolVars PROVE ToolInv'
  OBVIOUS
<1>1. CASE ~Serving /\ Next /\ UNCHANGED call
  BY <1>1, OwnerStep, CallEnds DEF Serving, ToolInv
<1>2. ASSUME NEW x \in Series, CallCreate(x) PROVE ToolInv'
  BY <1>2, CallCreateInv
<1>3. ASSUME ~Serving, NEW e \in vault, NEW x \in Series, NEW asOf \in Time,
             NEW samples \in Lists, CallRestore("advance", e, x, asOf, samples)
      PROVE  ToolInv'
  BY <1>3, CallRestoreInv, ToolAssumption
<1>4. ASSUME ~Serving, NEW e \in vault, NEW x \in Series, NEW action \in {"inspect", "reset"},
             CallRestore(action, e, x, 0, <<>>)
      PROVE  ToolInv'
  <2>1. 0 \in Time /\ <<>> \in Seq(Sample)
    BY ReferenceAssumption DEF Time
  <2>2. QED BY <1>4, <2>1, CallRestoreInv
<1>5. ASSUME ~Serving, NEW x \in Series, NEW asOf \in Time, NEW samples \in Lists,
             CallCalculate(x, asOf, samples)
      PROVE  ToolInv'
  BY <1>5, CallCalculateInv
<1>6. CASE Serving /\ ServeReplay
  BY <1>6, ServeReplayInv
<1>7. CASE Serving /\ ServeUpdate
  BY <1>7, ServeUpdateInv
<1>8. CASE ServeTooLong
  BY <1>8, AbandonInv DEF ServeTooLong, Working
<1>9. CASE Serving /\ ServeReset
  BY <1>9, ServeResetInv
<1>10. CASE ServeStopped
  BY <1>10, AbandonInv DEF ServeStopped
<1>11. CASE Serving /\ ServeAnswer
  BY <1>11, ServeAnswerInv
<1>12. CASE ServeEnd
  BY <1>12, ServeEndInv
<1>13. CASE UNCHANGED toolVars
  <2>1. UNCHANGED <<stream, vault, restore>> /\ call' = call
    BY <1>13 DEF toolVars, vars
  <2>2. StreamInv' /\ Serving' = Serving /\ Running' = Running /\ Replaying' = Replaying
    BY <2>1, IdleStep DEF ToolInv, Serving, Running, Replaying
  <2>3. CallInv' = CallInv /\ AnswersAsOf' = AnswersAsOf
    BY <2>1, <2>2 DEF CallInv, AnswersAsOf
  <2>4. QED BY <2>2, <2>3 DEF ToolInv
<1>14. QED
  BY <1>1, <1>2, <1>3, <1>4, <1>5, <1>6, <1>7, <1>8, <1>9, <1>10, <1>11, <1>12, <1>13
     DEF ToolNext

(* The inductive invariant: streams are sound, snapshots are sealed, a replay *)
(* has passed its checks, and a call is where its request says.               *)
THEOREM ToolInvariance == ToolSpec => []ToolInv
BY ToolInitInv, ToolNextInv, PTL DEF ToolSpec

-----------------------------------------------------------------------------
(* What it gives                                                           *)

(* A stream is what its history says, and nothing else remains of refused or *)
(* stopped updates, resets, or a restore under way.                          *)
THEOREM HistoryTellsAll == ToolSpec => []HistoryIsAll
<1>1. ToolInv => HistoryIsAll
  BY DEF ToolInv, StreamInv, ReplayInv, Sound, HistoryIsAll
<1>2. QED BY <1>1, ToolInvariance, PTL

(* A snapshot that has passed the checks is replayed to its end. *)
THEOREM ReplayCompletes == ToolSpec => []ReplayNeverRefuses
<1>1. ToolInv => ReplayNeverRefuses
  BY ReplayAccepted DEF ToolInv, ReplayNeverRefuses
<1>2. QED BY <1>1, ToolInvariance, PTL

(* What a call answers is of the stream it was asked about, at its time. *)
THEOREM AnswersAreAsOf == ToolSpec => []AnswersAsOf
<1>1. ToolInv => AnswersAsOf
  BY DEF ToolInv, AnswersAsOf
<1>2. QED BY <1>1, ToolInvariance, PTL

(* What is restored is the stream the snapshot was taken of. *)
THEOREM ExactRestores == ToolSpec => RestoresExactly
<1>1. ToolInv /\ [ToolNext]_toolVars => [Restored => stream' = restore.entry.of]_vars
  BY RestoredStep DEF ToolInv
<1>2. QED BY <1>1, ToolInvariance, PTL DEF ToolSpec, RestoresExactly

-----------------------------------------------------------------------------
(* The promise                                                             *)

(* What an owner is shown of its stream, and what it can come back to. *)
Log    == IF Running THEN AsBars(stream.history) ELSE <<>>
Report == IF Running THEN <<stream.latest.seen, stream.latest.at, stream.latest.available>>
                     ELSE <<0, 0, 0>>
Saved  == {AsBars(e.of.history) : e \in vault}

LEMMA ReportDescribes == StreamInv => Report = Promise!Describe(Log)
<1> SUFFICES ASSUME StreamInv PROVE Report = Promise!Describe(Log)
  OBVIOUS
<1>1. CASE Running
  BY <1>1, SoundReport DEF StreamInv, Report, Log
<1>2. CASE ~Running
  BY <1>2 DEF Report, Log, Promise!Describe
<1>3. QED BY <1>1, <1>2

LEMMA ReportDescribesNext == StreamInv' => Report' = Promise!Describe(Log')
<1>1. (StreamInv => Report = Promise!Describe(Log))'
  BY ReportDescribes, PTL
<1>2. (Promise!Describe(Log))' = Promise!Describe(Log')
  BY DEF Promise!Describe
<1>3. QED BY <1>1, <1>2

(* No bar is shown of an empty history, and one more of a longer one. *)
LEMMA BarsOf ==
  ASSUME NEW h \in Seq(Sample), NEW x \in Sample
  PROVE  /\ AsBars(<<>>) = <<>>
         /\ AsBars(Append(h, x))
              = Append(AsBars(h), [bar |-> [closed |-> x.at, available |-> x.available]])
         /\ Len(AsBars(h)) = Len(h)
         /\ \A i \in 1 .. Len(h) :
              AsBars(h)[i] = [bar |-> [closed |-> h[i].at, available |-> h[i].available]]
<1> DEFINE shown(y) == [bar |-> [closed |-> y.at, available |-> y.available]]
           E == {shown(y) : y \in Sample}
           m == Append(h, x)
           a == AsBars(h)
           b == AsBars(m)
<1>1. AsBars(<<>>) = <<>>
  BY DEF AsBars
<1>2. /\ m \in Seq(Sample) /\ Len(m) = Len(h) + 1 /\ m[Len(h) + 1] = x
      /\ \A i \in 1 .. Len(h) : m[i] = h[i]
  BY Appended
<1>3. a = [i \in 1 .. Len(h) |-> shown(h[i])] /\ b = [i \in 1 .. Len(m) |-> shown(m[i])]
  BY <1>2 DEF AsBars
<1>4. \A i \in 1 .. Len(h) : h[i] \in Sample
  OBVIOUS
<1>5. \A i \in 1 .. Len(m) : m[i] \in Sample
  BY <1>2
<1> HIDE DEF m, a, b
<1>6. Len(h) \in Nat /\ Len(m) \in Nat
  BY <1>2
<1>7. /\ \A i \in 1 .. Len(h) : shown(h[i]) \in E
      /\ \A i \in 1 .. Len(m) : shown(m[i]) \in E
  BY <1>4, <1>5
<1>8. shown(x) \in E
  OBVIOUS
<1> HIDE DEF shown, E
<1>9. a \in Seq(E) /\ Len(a) = Len(h) /\ \A i \in 1 .. Len(h) : a[i] = shown(h[i])
  BY <1>3, <1>6, <1>7
<1>10. b \in Seq(E) /\ Len(b) = Len(m) /\ \A i \in 1 .. Len(m) : b[i] = shown(m[i])
  BY <1>3, <1>6, <1>7
<1>11. b = Append(a, shown(x))
  <2> DEFINE c == Append(a, shown(x))
  <2>1. /\ c \in Seq(E) /\ Len(c) = Len(a) + 1 /\ c[Len(a) + 1] = shown(x)
        /\ \A i \in 1 .. Len(a) : c[i] = a[i]
    BY <1>8, <1>9, Appended
  <2> HIDE DEF c
  <2>2. \A i \in 1 .. Len(b) : b[i] = c[i]
    <3> SUFFICES ASSUME NEW i \in 1 .. Len(b) PROVE b[i] = c[i]
      OBVIOUS
    <3>1. CASE i = Len(h) + 1
      BY <1>2, <1>9, <1>10, <2>1, <3>1
    <3>2. CASE i # Len(h) + 1
      <4>1. i \in 1 .. Len(h)
        BY <1>2, <1>6, <1>10, <3>2
      <4>2. b[i] = shown(m[i]) /\ m[i] = h[i] /\ c[i] = a[i] /\ a[i] = shown(h[i])
        BY <1>2, <1>9, <1>10, <2>1, <4>1
      <4>3. QED BY <4>2
    <3>3. QED BY <3>1, <3>2
  <2>3. b = c
    BY <1>2, <1>9, <1>10, <2>1, <2>2, SeqEqual
  <2>4. QED BY <2>3 DEF c
<1>12. QED BY <1>1, <1>9, <1>11 DEF shown, a, b, m

(* The owner's calls are the steps of the log. *)
LEMMA BeginStep ==
  ASSUME StreamInv', ~Running, Running', UNCHANGED vault,
         Log' \in Saved \cup {<<>>}
  PROVE  Promise!Next
<1>1. PICK l : l = Log'
  OBVIOUS
<1>2. Report' = Promise!Describe(l)
  BY <1>1, ReportDescribesNext
<1>3. UNCHANGED Saved
  BY DEF Saved
<1>4. Promise!Begin(l)
  BY <1>1, <1>2, <1>3 DEF Promise!Begin, Log, Report, Saved
<1>5. QED BY <1>1, <1>4 DEF Promise!Next, Saved

LEMMA ExtendStep ==
  ASSUME StreamInv, StreamInv', NEW x \in Sample, NEW asOf, Update(x, asOf)
  PROVE  Promise!Next
<1> DEFINE e == [bar |-> [closed |-> x.at, available |-> x.available]]
<1>1. /\ Running /\ Sound(stream) /\ Refusal(stream, x, asOf) = "Ok"
      /\ stream' = Consume(stream, x) /\ UNCHANGED vault
  BY DEF Update, StreamInv
<1>2. stream' \in Stream /\ stream'.history = Append(stream.history, x)
  BY <1>1, ConsumeSound DEF Sound
<1>3. stream.history \in Seq(Sample) /\ InOrder(x, stream.history)
  BY <1>1, Accepted DEF Sound, Stream
<1>4. Running'
  BY <1>2, StreamRuns DEF Running
<1>5. Log = AsBars(stream.history) /\ Log' = AsBars(stream.history')
  BY <1>1, <1>4 DEF Log
<1>6. Log' = Append(Log, e)
  BY <1>2, <1>3, <1>5, BarsOf
<1>7. x.at \in Time /\ x.available \in Time
  BY SampleParts
<1>8. e \in [bar: [closed: Time, available: Time]]
  BY <1>7
<1>9. e.bar.closed = x.at /\ e.bar.available = x.available
  OBVIOUS
<1> HIDE DEF e
<1>10. Promise!After(e, Log)
  <2> SUFFICES ASSUME Log # <<>>
               PROVE  /\ e.bar.closed > Log[Len(Log)].bar.closed
                      /\ e.bar.available >= Log[Len(Log)].bar.available
    BY DEF Promise!After
  <2> DEFINE h == stream.history
             n == Len(h)
  <2>1. Len(Log) = n /\ \A i \in 1 .. n : Log[i].bar.closed = h[i].at /\ Log[i].bar.available = h[i].available
    <3>1. /\ Len(Log) = n
          /\ \A i \in 1 .. n :
               Log[i] = [bar |-> [closed |-> h[i].at, available |-> h[i].available]]
      BY <1>3, <1>5, BarsOf, Zenon
    <3>2. \A a, b : [bar |-> [closed |-> a, available |-> b]].bar.closed = a
                    /\ [bar |-> [closed |-> a, available |-> b]].bar.available = b
      OBVIOUS
    <3> HIDE DEF n, h
    <3>3. QED BY <3>1, <3>2
  <2>2. h # <<>>
    BY <1>3, <1>5, BarsOf
  <2>3. n \in 1 .. n
    BY <1>3, <2>2
  <2>4. x.at > h[n].at /\ x.available >= h[n].available
    BY <1>3, <2>2 DEF InOrder, Last
  <2>5. QED BY <1>9, <2>1, <2>3, <2>4
<1>11. Report' = Promise!Describe(Log')
  BY ReportDescribesNext
<1>12. UNCHANGED Saved
  BY <1>1 DEF Saved
<1>13. (Promise!Describe(Log))' = Promise!Describe(Log')
  BY DEF Promise!Describe
<1>14. Promise!Extend(e)
  BY <1>1, <1>4, <1>6, <1>10, <1>11, <1>12 DEF Promise!Extend, Log, Report, Saved
<1>15. QED BY <1>8, <1>14 DEF Promise!Next

LEMMA ClearStep ==
  ASSUME StreamInv, StreamInv', Reset
  PROVE  Promise!Next
<1>1. Running /\ Sound(stream) /\ stream' = New(stream.series) /\ UNCHANGED vault
  BY DEF Reset, StreamInv
<1>2. stream.series \in Series
  BY <1>1 DEF Sound, Stream
<1>3. stream' \in Stream /\ stream'.history = <<>>
  BY <1>1, <1>2, NewSound DEF Sound
<1>4. Running'
  BY <1>3, StreamRuns DEF Running
<1>5. Log' = <<>>
  BY <1>3, <1>4 DEF Log, AsBars
<1>6. Report' = Promise!Describe(<<>>)
  BY <1>5, ReportDescribesNext
<1>7. UNCHANGED Saved
  BY <1>1 DEF Saved
<1>8. Promise!Clear
  BY <1>1, <1>4, <1>5, <1>6, <1>7 DEF Promise!Clear, Log, Report, Saved
<1>9. QED BY <1>8 DEF Promise!Next

LEMMA SaveStep ==
  ASSUME TakeSnapshot
  PROVE  Promise!Next
<1> DEFINE e == [snapshot |-> SnapshotOf(stream), of |-> stream]
<1>1. Running /\ vault' = vault \cup {e} /\ UNCHANGED stream /\ e.of = stream
  BY DEF TakeSnapshot
<1> HIDE DEF e
<1>2. UNCHANGED <<Running, Log, Report>>
  BY <1>1 DEF Running, Log, Report
<1>3. Log = AsBars(stream.history)
  BY <1>1 DEF Log
<1>4. Saved' = Saved \cup {Log}
  BY <1>1, <1>3 DEF Saved
<1>5. Promise!Save
  BY <1>1, <1>2, <1>4 DEF Promise!Save, Log, Report, Saved
<1>6. QED BY <1>5 DEF Promise!Next

(* The stream is lost to its owner. *)
LEMMA LoseStep ==
  ASSUME Running, stream' = NoStream, UNCHANGED vault
  PROVE  Promise!Next
<1>1. ~Running' /\ UNCHANGED Saved
  BY DEF Running, Saved
<1>2. Log' = <<>> /\ Report' = <<0, 0, 0>>
  BY <1>1 DEF Log, Report
<1>3. Promise!Lose
  BY <1>1, <1>2 DEF Promise!Lose, Promise!Describe, Log, Report, Saved
<1>4. QED BY <1>3 DEF Promise!Next

(* The owner sees nothing. *)
LEMMA HiddenStep ==
  ASSUME UNCHANGED stream, UNCHANGED Saved
  PROVE  UNCHANGED Promise!vars
BY DEF Promise!vars, Running, Saved

LEMMA CreateBegins ==
  ASSUME StreamInv', NEW x \in Series, Create(x)
  PROVE  Promise!Next
<1>1. stream' = New(x) /\ ~Running /\ UNCHANGED vault
  BY DEF Create
<1>2. stream' \in Stream /\ stream'.history = <<>>
  BY <1>1, NewSound DEF Sound
<1>3. Running'
  BY <1>2, StreamRuns DEF Running
<1>4. Log' = <<>>
  BY <1>2, <1>3 DEF Log, AsBars
<1>5. QED BY <1>1, <1>3, <1>4, BeginStep

LEMMA RestoredBegins ==
  ASSUME StreamInv, StreamInv', Restored
  PROVE  Promise!Next
<1>1. Running' /\ UNCHANGED vault /\ stream' = restore.entry.of
  BY RestoredStep
<1>2. ~Running /\ restore.entry \in vault
  BY ReplayParts DEF Restored, StreamInv
<1>3. Log' = AsBars(restore.entry.of.history)
  BY <1>1 DEF Log
<1>4. Log' \in Saved
  BY <1>2, <1>3 DEF Saved
<1>5. QED BY <1>1, <1>2, <1>4, BeginStep

LEMMA HistoryStep ==
  ASSUME UNCHANGED <<stream, vault>>
  PROVE  UNCHANGED Promise!vars
BY HiddenStep DEF Saved

(* An owner that is no call of a tool. *)
LEMMA OwnerKeeps ==
  ASSUME StreamInv, StreamInv', Next
  PROVE  Promise!Next \/ UNCHANGED Promise!vars
<1>1. ASSUME NEW x \in Series, Create(x) PROVE Promise!Next
  BY <1>1, CreateBegins
<1>2. ASSUME NEW x \in Offers, NEW asOf \in Time, Update(x, asOf) PROVE Promise!Next
  BY <1>2, ExtendStep, OffersAssumption
<1>3. ASSUME NEW x \in Offers, NEW asOf \in Time,
             UpdateRefused(x, asOf) \/ UpdateStopped(x, asOf)
      PROVE  UNCHANGED Promise!vars
  BY <1>3, HistoryStep DEF UpdateRefused, UpdateStopped, AfterStop
<1>4. CASE Reset
  BY <1>4, ClearStep
<1>5. CASE TakeSnapshot
  BY <1>5, SaveStep
<1>6. CASE Drop
  BY <1>6, LoseStep DEF Drop
<1>7. ASSUME NEW e \in vault, NEW x \in Series, Restore(e, x) PROVE UNCHANGED Promise!vars
  BY <1>7, HistoryStep DEF Restore
<1>8. CASE ReplaySample \/ ReplayStopped
  BY <1>8, HistoryStep DEF ReplaySample, ReplayStopped
<1>9. CASE Restored
  BY <1>9, RestoredBegins
<1>10. ASSUME NEW e \in vault, NEW other \in vault, Damage(e, other)
       PROVE  UNCHANGED Promise!vars
  <2>1. UNCHANGED stream
    BY <1>10 DEF Damage
  <2>2. UNCHANGED Saved
    BY <1>10, DamageStep DEF Saved
  <2>3. QED BY <2>1, <2>2, HiddenStep
<1>11. QED
  BY <1>1, <1>2, <1>3, <1>4, <1>5, <1>6, <1>7, <1>8, <1>9, <1>10 DEF Next

(* The same owner, in a call of a tool. *)
LEMMA ToolKeeps ==
  ASSUME ToolInv, ToolInv', [ToolNext]_toolVars
  PROVE  Promise!Next \/ UNCHANGED Promise!vars
<1>0. StreamInv /\ StreamInv'
  BY DEF ToolInv
<1>1. CASE Next
  BY <1>0, <1>1, OwnerKeeps
<1>2. ASSUME NEW x \in Series, Create(x) PROVE Promise!Next
  BY <1>0, <1>2, CreateBegins
<1>3. ASSUME NEW code, Refuse(code) \/ (Running /\ Abandon(code))
      PROVE  Promise!Next \/ UNCHANGED Promise!vars
  <2>1. CASE Refuse(code)
    BY <2>1, HistoryStep DEF Refuse
  <2>2. CASE Running /\ Abandon(code)
    BY <2>2, LoseStep DEF Abandon
  <2>3. QED BY <1>3, <2>1, <2>2
<1>4. ASSUME NEW action, NEW e, NEW x, NEW asOf, NEW samples,
             CallRestore(action, e, x, asOf, samples)
      PROVE  UNCHANGED Promise!vars
  BY <1>4, HistoryStep DEF CallRestore, Refuse, Restore
<1>5. CASE \E x \in Series : CallCreate(x)
  BY <1>2, <1>5 DEF CallCreate
<1>6. ASSUME NEW x \in Series, NEW asOf, NEW samples, CallCalculate(x, asOf, samples)
      PROVE  Promise!Next \/ UNCHANGED Promise!vars
  BY <1>2, <1>3, <1>6 DEF CallCalculate
<1>7. CASE ServeReplay
  <2>1. CASE ReplaySample \/ ReplayStopped
    BY <2>1, HistoryStep DEF ReplaySample, ReplayStopped
  <2>2. CASE Restored
    BY <1>0, <2>2, RestoredBegins
  <2>3. QED BY <1>7, <2>1, <2>2 DEF ServeReplay
<1>8. CASE Serving /\ ServeUpdate
  <2>1. Running /\ call \in Call /\ call.done < Len(call.samples)
    BY <1>8 DEF ToolInv, CallInv, ServeUpdate, Working
  <2>2. NextOfCall \in Sample
    <3>1. call.samples \in Seq(Sample) /\ call.done \in Nat
      BY <2>1 DEF Call
    <3>2. call.done + 1 \in 1 .. Len(call.samples)
      BY <2>1, <3>1
    <3>3. QED BY <3>1, <3>2 DEF NextOfCall
  <2>3. CASE Update(NextOfCall, call.asOf)
    <3>1. PICK x, asOf : x = NextOfCall /\ asOf = call.asOf
      OBVIOUS
    <3>2. Update(x, asOf) /\ x \in Sample
      BY <2>2, <2>3, <3>1
    <3>3. QED BY <1>0, <3>2, ExtendStep
  <2>4. CASE Abandon(Refusal(stream, NextOfCall, call.asOf))
    <3>1. PICK code : code = Refusal(stream, NextOfCall, call.asOf)
      OBVIOUS
    <3>2. QED BY <1>3, <2>1, <2>4, <3>1
  <2>5. QED BY <1>8, <2>3, <2>4 DEF ServeUpdate
<1>9. CASE ServeTooLong \/ ServeStopped
  BY <1>3, <1>9 DEF ServeTooLong, ServeStopped, Working
<1>10. CASE ServeReset
  BY <1>0, <1>10, ClearStep DEF ServeReset
<1>11. CASE ServeAnswer
  <2>1. TakeSnapshot \/ UNCHANGED <<stream, vault>>
    BY <1>11 DEF ServeAnswer
  <2>2. QED BY <2>1, SaveStep, HistoryStep
<1>12. CASE ServeEnd
  BY <1>12, LoseStep DEF ServeEnd, Drop
<1>13. CASE UNCHANGED toolVars
  BY <1>13, HistoryStep DEF toolVars, vars
<1>14. QED
  BY <1>1, <1>4, <1>5, <1>6, <1>7, <1>8, <1>9, <1>10, <1>11, <1>12, <1>13 DEF ToolNext

(* A stream over a replayed history implements SeriesLog, the promise the *)
(* native engine's stream implements too.                                 *)
THEOREM LogRefinement == ToolSpec => ImplementsSeriesLog
<1>1. ToolInit => Promise!Init
  BY DEF ToolInit, Init, Promise!Init, Running, Promise!Describe
<1>2. ToolInv /\ ToolInv' /\ [ToolNext]_toolVars => [Promise!Next]_(Promise!vars)
  BY ToolKeeps
<1>3. QED
  BY <1>1, <1>2, ToolInvariance, PTL DEF ToolSpec, Promise!Spec, ImplementsSeriesLog
=============================================================================
