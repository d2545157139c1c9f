---------------------------- MODULE ServerProofs ----------------------------
(***************************************************************************)
(* Proofs about the parts of the server that a client meets: Gateway, for  *)
(* every set of requests and number of permits; and the indicator_stream   *)
(* tool - what a call may be in between two of its checkpoints, what its   *)
(* answer is then worth, and that callers only ever see whole answers -    *)
(* for any requests, snapshots and limits.                                 *)
(***************************************************************************)
EXTENDS Gateway, StreamTool, StreamStateProofs, FiniteSetTheorems, SequenceTheorems

-----------------------------------------------------------------------------
(* The gateway: who owns a permit                                          *)

(* Counting the closures that own a permit. *)
LEMMA HolderTaken ==
  ASSUME NEW S, IsFiniteSet(S), NEW r, r \notin S
  PROVE  Cardinality(S \cup {r}) = Cardinality(S) + 1
BY FS_AddElement

LEMMA HolderGone ==
  ASSUME NEW S, IsFiniteSet(S), NEW r \in S
  PROVE  Cardinality(S \ {r}) = Cardinality(S) - 1
BY FS_RemoveElement

LEMMA HoldersFinite == IsFiniteSet(Holders) /\ Cardinality(Holders) \in Nat
<1>1. IsFiniteSet(Requests) BY GatewayAssumption
<1>2. Holders \subseteq Requests BY DEF Holders
<1> QED BY <1>1, <1>2, FS_Subset, FS_CardinalityType

(* What each kind of step does to the set of holders. *)
LEMMA HoldersGrow ==
  ASSUME TypeOK, NEW r \in Requests, worker[r] = "none",
         worker' = [worker EXCEPT ![r] = "queued"]
  PROVE  r \notin Holders /\ Holders' = Holders \cup {r}
BY DEF TypeOK, Holders, Holds

LEMMA HoldersShrink ==
  ASSUME TypeOK, NEW r \in Requests, Holds(r),
         worker' = [worker EXCEPT ![r] = "ended"]
  PROVE  r \in Holders /\ Holders' = Holders \ {r}
BY DEF TypeOK, Holders, Holds

LEMMA HoldersStay ==
  ASSUME TypeOK, NEW r \in Requests, Holds(r), NEW w \in {"running", "encoding"},
         worker' = [worker EXCEPT ![r] = w]
  PROVE  Holders' = Holders
BY DEF TypeOK, Holders, Holds

-----------------------------------------------------------------------------

LEMMA InitInv == GatewayInit => Inv
<1> SUFFICES ASSUME GatewayInit PROVE Inv
  OBVIOUS
<1>1. TypeOK
  BY GatewayAssumption DEF GatewayInit, TypeOK, Handler, Worker, Outcome, Reply
<1>2. Holders = {}
  BY DEF GatewayInit, Holders, Holds
<1>3. PermitsConserved
  BY <1>2, FS_EmptySet, GatewayAssumption DEF GatewayInit, PermitsConserved
<1>4. WorkersAwaited
  BY DEF GatewayInit, WorkersAwaited, Holds
<1>5. RefusedNeverRuns
  BY DEF GatewayInit, RefusedNeverRuns
<1> QED BY <1>1, <1>3, <1>4, <1>5 DEF Inv

(* The permits and the workers, for each step. *)
LEMMA NextPermits ==
  ASSUME Inv, [GatewayNext]_gatewayVars
  PROVE  PermitsConserved' /\ permits' \in 0 .. Permits
<1> USE GatewayAssumption
<1>0. /\ TypeOK /\ PermitsConserved /\ WorkersAwaited
      /\ IsFiniteSet(Holders) /\ Cardinality(Holders) \in Nat
  BY HoldersFinite DEF Inv
<1>1. /\ IsFiniteSet(Holders)' /\ Cardinality(Holders') \in Nat
  <2>1. IsFiniteSet(Requests) OBVIOUS
  <2>2. Holders' \subseteq Requests BY DEF Holders
  <2> QED BY <2>1, <2>2, FS_Subset, FS_CardinalityType
<1>2. permits' \in Nat /\ PermitsConserved' => permits' \in 0 .. Permits
  BY <1>1 DEF PermitsConserved
<1>3. permits \in Nat
  BY <1>0 DEF TypeOK
<1>4. ASSUME Holders' = Holders, permits' = permits
      PROVE  PermitsConserved' /\ permits' \in 0 .. Permits
  BY <1>0, <1>2, <1>3, <1>4 DEF PermitsConserved
<1>5. ASSUME NEW r \in Requests, worker[r] = "none", permits > 0, permits' = permits - 1,
             worker' = [worker EXCEPT ![r] = "queued"]
      PROVE  PermitsConserved' /\ permits' \in 0 .. Permits
  <2>1. Cardinality(Holders') = Cardinality(Holders) + 1
    BY <1>0, <1>5, HoldersGrow, HolderTaken
  <2> QED BY <1>0, <1>2, <1>3, <1>5, <2>1 DEF PermitsConserved
<1>6. ASSUME NEW r \in Requests, Holds(r), permits' = permits + 1,
             worker' = [worker EXCEPT ![r] = "ended"]
      PROVE  PermitsConserved' /\ permits' \in 0 .. Permits
  <2>1. Cardinality(Holders') = Cardinality(Holders) - 1
    BY <1>0, <1>6, HoldersShrink, HolderGone
  <2> QED BY <1>0, <1>2, <1>3, <1>6, <2>1 DEF PermitsConserved
<1>7. CASE worker' = worker /\ permits' = permits
  BY <1>4, <1>7 DEF Holders, Holds
<1>8. ASSUME NEW r \in Requests, Admit(r) PROVE PermitsConserved' /\ permits' \in 0 .. Permits
  <2>1. worker[r] = "none" BY <1>0, <1>8 DEF Admit, WorkersAwaited
  <2> QED BY <1>5, <1>8, <2>1 DEF Admit
<1>9. ASSUME NEW r \in Requests, Start(r) \/ StopAtCheckpoint(r) \/ Compute(r)
      PROVE  PermitsConserved' /\ permits' \in 0 .. Permits
  <2>1. /\ Holds(r) /\ permits' = permits
        /\ \E w \in {"running", "encoding"} : worker' = [worker EXCEPT ![r] = w]
    BY <1>9 DEF Start, StopAtCheckpoint, Compute, Holds
  <2> QED BY <1>0, <1>4, <2>1, HoldersStay
<1>10. ASSUME NEW r \in Requests, Panic(r) \/ End(r) \/ DropQueued(r)
       PROVE  PermitsConserved' /\ permits' \in 0 .. Permits
  <2>1. /\ Holds(r) /\ permits' = permits + 1
        /\ worker' = [worker EXCEPT ![r] = "ended"]
    BY <1>10 DEF Panic, End, DropQueued, Holds
  <2> QED BY <1>6, <2>1
<1>11. ASSUME NEW r \in Requests,
              \/ Refuse(r) \/ Answer(r) \/ EncodeV1(r) \/ AnswerV1(r) \/ DropHandler(r)
              \/ Expire(r) \/ CancelNotification(r)
       PROVE  worker' = worker /\ permits' = permits
  BY <1>11 DEF Refuse, Answer, EncodeV1, AnswerV1, DropHandler, Expire, CancelNotification
<1>12. CASE Disconnect \/ Quiet \/ UNCHANGED gatewayVars
  BY <1>7, <1>12 DEF Disconnect, Quiet, gatewayVars
<1> QED BY <1>7, <1>8, <1>9, <1>10, <1>11, <1>12 DEF GatewayNext

LEMMA NextInv == Inv /\ [GatewayNext]_gatewayVars => Inv'
<1> SUFFICES ASSUME Inv, [GatewayNext]_gatewayVars PROVE Inv'
  OBVIOUS
<1>1. PermitsConserved' /\ permits' \in 0 .. Permits
  BY NextPermits
<1> USE DEF TypeOK, Handler, Worker, Outcome, Reply, WorkersAwaited, RefusedNeverRuns, Holds
<1>0. TypeOK /\ WorkersAwaited /\ RefusedNeverRuns BY DEF Inv
<1> DEFINE Rest == /\ (permits' \in 0 .. Permits => TypeOK') /\ WorkersAwaited' /\ RefusedNeverRuns'
<1>2. ASSUME NEW r \in Requests, Admit(r) PROVE Rest BY <1>0, <1>2 DEF Admit
<1>3. ASSUME NEW r \in Requests, Refuse(r) PROVE Rest BY <1>0, <1>3 DEF Refuse
<1>4. ASSUME NEW r \in Requests, Answer(r) PROVE Rest
  BY <1>0, <1>4 DEF Answer, ReplyFor
<1>5. ASSUME NEW r \in Requests, EncodeV1(r) PROVE Rest BY <1>0, <1>5 DEF EncodeV1
<1>6. ASSUME NEW r \in Requests, AnswerV1(r) PROVE Rest BY <1>0, <1>6 DEF AnswerV1
<1>7. ASSUME NEW r \in Requests, DropHandler(r) PROVE Rest BY <1>0, <1>7 DEF DropHandler
<1>8. ASSUME NEW r \in Requests, Start(r) PROVE Rest BY <1>0, <1>8 DEF Start
<1>9. ASSUME NEW r \in Requests, StopAtCheckpoint(r) PROVE Rest
  BY <1>0, <1>9 DEF StopAtCheckpoint, Verdict
<1>10. ASSUME NEW r \in Requests, Compute(r) PROVE Rest BY <1>0, <1>10 DEF Compute
<1>11. ASSUME NEW r \in Requests, Panic(r) PROVE Rest BY <1>0, <1>11 DEF Panic
<1>12. ASSUME NEW r \in Requests, End(r) PROVE Rest BY <1>0, <1>12 DEF End
<1>13. ASSUME NEW r \in Requests, DropQueued(r) PROVE Rest BY <1>0, <1>13 DEF DropQueued
<1>14. ASSUME NEW r \in Requests, Expire(r) \/ CancelNotification(r) PROVE Rest
  BY <1>0, <1>14 DEF Expire, CancelNotification
<1>15. ASSUME Disconnect PROVE Rest BY <1>0, <1>15 DEF Disconnect
<1>16. ASSUME Quiet \/ UNCHANGED gatewayVars PROVE Rest BY <1>0, <1>16 DEF Quiet, gatewayVars
<1>17. Rest
  <2> HIDE DEF Rest
  <2> QED BY <1>2, <1>3, <1>4, <1>5, <1>6, <1>7, <1>8, <1>9, <1>10, <1>11, <1>12, <1>13,
             <1>14, <1>15, <1>16 DEF GatewayNext
<1> HIDE DEF TypeOK, WorkersAwaited, RefusedNeverRuns
<1> QED BY <1>1, <1>17 DEF Inv

(* The inductive invariant of the gateway. *)
THEOREM Invariance == GatewaySpec => []Inv
BY InitInv, NextInv, PTL DEF GatewaySpec

(* The type invariant holds of every run of the gateway. *)
THEOREM TypeCorrect == GatewaySpec => []TypeOK
<1>1. Inv => TypeOK BY DEF Inv
<1> QED BY <1>1, Invariance, PTL

(* However handlers, workers, deadlines, cancellations, panics and the end of *)
(* the connection interleave, every permit of the semaphore is free or owned  *)
(* by one unfinished closure: at most Permits calculations run at a time.     *)
THEOREM PermitsNeverLost == GatewaySpec => []PermitsConserved
<1>1. Inv => PermitsConserved BY DEF Inv
<1> QED BY <1>1, Invariance, PTL

(* A request is refused only while as many others wait for their answers. *)
THEOREM RefusalsJustified == GatewaySpec => RefusedOnlyWhenFull
<1> DEFINE Act == \A r \in Requests : Refuse(r) => Cardinality(Unanswered) >= Permits
<1>1. ASSUME Inv, NEW r \in Requests, Refuse(r) PROVE Cardinality(Unanswered) >= Permits
  <2>1. Holders \subseteq Unanswered
    BY <1>1 DEF Inv, WorkersAwaited, Holders, Unanswered, Refuse
  <2>2. IsFiniteSet(Unanswered)
    <3>1. IsFiniteSet(Requests) BY GatewayAssumption
    <3>2. Unanswered \subseteq Requests BY DEF Unanswered
    <3> QED BY <3>1, <3>2, FS_Subset
  <2>3. Cardinality(Holders) <= Cardinality(Unanswered)
    BY <2>1, <2>2, FS_Subset
  <2>4. Cardinality(Holders) = Permits
    BY <1>1, HoldersFinite, GatewayAssumption DEF Inv, PermitsConserved, Refuse
  <2> QED BY <2>3, <2>4
<1>2. Inv => Act BY <1>1
<1> HIDE DEF Act
<1>3. Inv /\ [GatewayNext]_gatewayVars => [Act]_gatewayVars BY <1>2
<1>4. [][Act]_gatewayVars => RefusedOnlyWhenFull BY DEF Act, RefusedOnlyWhenFull
<1> QED BY <1>3, <1>4, Invariance, PTL DEF GatewaySpec

-----------------------------------------------------------------------------
(* Refinement                                                              *)

Turned == {r \in Requests : replies[r] = "LimitExceeded"}

(* The instance counts as this module does. *)
LEMMA SameCount == \A S : Pool!Cardinality(S) = Cardinality(S)
BY DEF Pool!Cardinality, Cardinality

(* The answers of admitted calls are never those of refused ones. *)
LEMMA AnswersAreNoRefusals ==
  ASSUME Inv, NEW r \in Requests, replies[r] # "LimitExceeded",
         NEW x, x # "LimitExceeded", replies' = [replies EXCEPT ![r] = x]
  PROVE  Turned' = Turned
BY DEF Inv, TypeOK, Turned

LEMMA PoolStep ==
  ASSUME Inv, [GatewayNext]_gatewayVars
  PROVE  [Pool!Next]_(Pool!vars)
<1> DEFINE Step == (\E r \in Requests : Pool!Admit(r) \/ Pool!Refuse(r) \/ Pool!Release(r))
                   \/ (Holders' = Holders /\ Turned' = Turned)
<1>0. TypeOK /\ PermitsConserved /\ WorkersAwaited /\ RefusedNeverRuns
  BY DEF Inv
<1>a. Cardinality(Holders) = Permits - permits
  BY <1>0, HoldersFinite, GatewayAssumption DEF PermitsConserved, TypeOK
<1>b. worker' = worker => Holders' = Holders
  BY DEF Holders, Holds
<1>c. replies' = replies => Turned' = Turned
  BY DEF Turned
<1>1. ASSUME NEW r \in Requests, Admit(r) PROVE Pool!Admit(r)
  <2>1. worker[r] = "none" /\ replies[r] # "LimitExceeded"
    BY <1>0, <1>1 DEF Admit, WorkersAwaited, RefusedNeverRuns
  <2>2. r \notin Holders /\ Holders' = Holders \cup {r}
    BY <1>0, <1>1, <2>1, HoldersGrow DEF Admit
  <2>3. permits \in Nat /\ permits > 0
    BY <1>0, <1>1 DEF Admit, TypeOK
  <2>4. Cardinality(Holders) < Permits
    BY <1>a, <2>3, GatewayAssumption
  <2>5. r \notin Turned /\ Turned' = Turned
    BY <1>1, <1>c, <2>1 DEF Admit, Turned
  <2> QED BY <2>2, <2>4, <2>5, SameCount DEF Pool!Admit, Turned
<1>2. ASSUME NEW r \in Requests, Refuse(r) PROVE Pool!Refuse(r)
  <2>1. worker[r] = "none" /\ replies[r] # "LimitExceeded"
    BY <1>0, <1>2 DEF Refuse, WorkersAwaited, RefusedNeverRuns
  <2>2. Holders' = Holders /\ r \notin Holders
    BY <1>2, <1>b, <2>1 DEF Refuse, Holders, Holds
  <2>3. Cardinality(Holders) = Permits
    BY <1>a, <1>2, GatewayAssumption DEF Refuse
  <2>4. r \notin Turned /\ Turned' = Turned \cup {r}
    BY <1>0, <1>2, <2>1 DEF Refuse, Turned, TypeOK
  <2> QED BY <2>2, <2>3, <2>4, SameCount DEF Pool!Refuse, Turned
<1>3. ASSUME NEW r \in Requests, Panic(r) \/ End(r) \/ DropQueued(r) PROVE Pool!Release(r)
  <2>1. Holds(r) /\ worker' = [worker EXCEPT ![r] = "ended"] /\ replies' = replies
    BY <1>3 DEF Panic, End, DropQueued, Holds
  <2> QED BY <1>0, <1>c, <2>1, HoldersShrink DEF Pool!Release, Turned
<1>4. ASSUME NEW r \in Requests, Start(r) \/ StopAtCheckpoint(r) \/ Compute(r)
      PROVE  Holders' = Holders /\ Turned' = Turned
  <2>1. /\ Holds(r) /\ replies' = replies
        /\ \E w \in {"running", "encoding"} : worker' = [worker EXCEPT ![r] = w]
    BY <1>4 DEF Start, StopAtCheckpoint, Compute, Holds
  <2> QED BY <1>0, <1>c, <2>1, HoldersStay
<1>5. ASSUME NEW r \in Requests, Answer(r) \/ AnswerV1(r)
      PROVE  Holders' = Holders /\ Turned' = Turned
  <2>1. worker' = worker /\ replies[r] # "LimitExceeded"
    BY <1>0, <1>5 DEF Answer, AnswerV1, RefusedNeverRuns
  <2>2. \E x : x # "LimitExceeded" /\ replies' = [replies EXCEPT ![r] = x]
    BY <1>0, <1>5 DEF Answer, AnswerV1, ReplyFor, TypeOK, Outcome
  <2> QED BY <1>b, <2>1, <2>2, AnswersAreNoRefusals
<1>6. ASSUME NEW r \in Requests,
             EncodeV1(r) \/ DropHandler(r) \/ Expire(r) \/ CancelNotification(r)
      PROVE  Holders' = Holders /\ Turned' = Turned
  BY <1>6, <1>b, <1>c DEF EncodeV1, DropHandler, Expire, CancelNotification
<1>7. ASSUME Disconnect \/ Quiet \/ UNCHANGED gatewayVars
      PROVE  Holders' = Holders /\ Turned' = Turned
  BY <1>7, <1>b, <1>c DEF Disconnect, Quiet, gatewayVars
<1>8. Step
  BY <1>1, <1>2, <1>3, <1>4, <1>5, <1>6, <1>7 DEF GatewayNext
<1> QED BY <1>8 DEF Pool!Next, Pool!vars, Turned

(* The gateway is the pool of permits it promises: it admits a call only when *)
(* a permit is free, refuses one only when none is, and every permit taken is *)
(* released by a step of the closure that took it.                            *)
THEOREM Refinement == GatewaySpec => ImplementsPermitPool
<1>1. GatewayInit => Pool!Init
  BY DEF GatewayInit, Pool!Init, Holders, Holds
<1>2. Inv /\ [GatewayNext]_gatewayVars => [Pool!Next]_(Pool!vars)
  BY PoolStep
<1> QED BY <1>1, <1>2, Invariance, PTL DEF GatewaySpec, ImplementsPermitPool, Pool!Spec

-----------------------------------------------------------------------------
(* A call                                                                  *)

(* No call in progress is the idle one, and none is without a request. *)
LEMMA CallWorks == \A c \in Call : c # Idle
BY DEF Call, Idle, Phases

(* A request's parts, and which requests bring no bars. *)
LEMMA RequestParts ==
  ASSUME NEW req \in Request
  PROVE  /\ req.id \in Identities /\ req.profile \in Profiles
         /\ req.asOf \in Nat /\ req.asOf \in Time
         /\ req.output \in {"latest", "series"} /\ req.bars \in Seq(Bar)
         /\ req.action \in {"inspect", "reset"} => req.bars = <<>> /\ req.output = "latest"
<1>1. Offers \subseteq Seq(Bar) /\ <<>> \in Seq(Bar)
  BY ToolAssumption
<1>2. \A t \in Time : t \in Nat
  BY EngineAssumption DEF Time
<1>3. CASE req \in Creates
  BY <1>1, <1>2, <1>3 DEF Creates, Output
<1>4. CASE req \in Continues
  BY <1>1, <1>2, <1>4 DEF Continues, Output
<1>5. QED
  BY <1>3, <1>4 DEF Request

(* The numbers in a state and in a bar are natural numbers. *)
LEMMA StateNumbers ==
  ASSUME NEW s \in State
  PROVE  /\ s.identity \in Identities /\ s.profile \in Profiles
         /\ s.samples \in Nat /\ s.closed \in Nat /\ s.available \in Nat
         /\ s.latest \in Row /\ s.latest.samples \in Nat
         /\ s.latest.closed \in Nat /\ s.latest.available \in Nat
BY DEF State, Row

LEMMA BarNumbers ==
  ASSUME NEW bar \in Bar
  PROVE  bar.closed \in Nat /\ bar.available \in Nat /\ bar.closed <= MaxTime
BY EngineAssumption DEF Bar, Time

(* An empty state was told of at no time. *)
LEMMA EmptyState ==
  ASSUME NEW s \in State, NEW l \in Seq(Entry), Linked(s, l), s.samples = 0
  PROVE  s.closed = 0 /\ s.available = 0
BY DEF Linked, RowConsistent

(* The first segment leaves a call that has looked at nothing yet. *)
LEMMA BeginCall ==
  ASSUME NEW req \in Request, NEW s \in State, NEW l \in Seq(Entry), Linked(s, l),
         s.identity = req.id, s.profile = req.profile
  PROVE  CallInv([pc |-> "vet", req |-> req, s |-> s, log |-> l, base |-> l, next |-> 1,
                  closed |-> s.closed, available |-> s.available, rows |-> <<>>])
<1> DEFINE c == [pc |-> "vet", req |-> req, s |-> s, log |-> l, base |-> l, next |-> 1,
                 closed |-> s.closed, available |-> s.available, rows |-> <<>>]
<1>1. <<>> \in Seq(Row) /\ Len(<<>>) = 0
  OBVIOUS
<1>2. c \in Call
  BY <1>1, StateNumbers DEF Call, Phases
<1>3. /\ c.pc = "vet" /\ c.req = req /\ c.s = s /\ c.log = l /\ c.base = l /\ c.next = 1
      /\ c.closed = s.closed /\ c.available = s.available /\ c.rows = <<>>
  OBVIOUS
<1> HIDE DEF c
<1>4. Consumed(c, 0)
  BY <1>1, <1>3 DEF Consumed
<1>5. QED
  BY <1>2, <1>3, <1>4 DEF CallInv, VetInv, c

(* Leaving the loops: the rows of latest output are the latest row, if any. *)
LEMMA LeaveLoops ==
  ASSUME NEW c \in Call, Linked(c.s, c.log),
         c.s.identity = c.req.id, c.s.profile = c.req.profile,
         c.s.available <= c.req.asOf, Consumed(c, Len(c.req.bars)),
         c.req.output = "latest" => c.rows = <<>>
  PROVE  CallInv(AfterBars(c)) /\ AfterBars(c).base = c.base
<1> DEFINE d == AfterBars(c)
           latest == c.req.output = "latest" /\ c.s.samples > 0
<1>1. c.s \in State /\ c.rows \in Seq(Row) /\ c.req \in Request
  BY DEF Call
<1>2. c.s.samples \in Nat /\ c.s.latest \in Row
  BY <1>1, StateNumbers
<1>3. d = [c EXCEPT !.pc = "encode", !.rows = IF latest THEN Append(c.rows, c.s.latest) ELSE c.rows]
  BY DEF AfterBars, Call
<1>4. Append(c.rows, c.s.latest) \in Seq(Row)
  BY <1>1, <1>2
<1> DEFINE rows == IF latest THEN Append(c.rows, c.s.latest) ELSE c.rows
<1>5. rows \in Seq(Row)
  BY <1>1, <1>4
<1>6. d = [c EXCEPT !.pc = "encode", !.rows = rows]
  BY <1>3
<1>7. /\ c.req.output = "latest" =>
           rows = IF c.s.samples = 0 THEN <<>> ELSE <<c.s.latest>>
      /\ c.req.output = "series" => rows = c.rows
  <2>1. Append(<<>>, c.s.latest) = <<c.s.latest>>
    OBVIOUS
  <2>2. CASE latest
    <3>1. c.rows = <<>> /\ c.s.samples # 0 /\ c.req.output # "series"
      BY <1>2, <2>2
    <3>2. rows = <<c.s.latest>>
      BY <2>1, <2>2, <3>1, Zenon
    <3> HIDE DEF rows
    <3>3. QED BY <3>1, <3>2
  <2>3. CASE ~latest
    BY <1>2, <2>3
  <2>4. QED BY <2>2, <2>3
<1> HIDE DEF rows, d
<1>8. /\ d \in Call /\ d.pc = "encode" /\ d.req = c.req /\ d.s = c.s /\ d.log = c.log
      /\ d.base = c.base /\ d.rows = rows
  BY <1>5, <1>6 DEF Call, Phases
<1>9. Consumed(d, Len(d.req.bars))
  BY <1>7, <1>8 DEF Consumed
<1>10. DoneInv(d)
  BY <1>7, <1>8, <1>9 DEF DoneInv
<1>11. QED
  BY <1>8, <1>10 DEF CallInv, d

-----------------------------------------------------------------------------
(* The segments of a call                                                  *)

(* The snapshot is not from the future: reset, the preflight or the answer. *)
LEMMA VetCall ==
  ASSUME NEW c, CallInv(c), c.pc = "vet",
         ~(c.s.samples > 0 /\ c.s.available > c.req.asOf)
  PROVE  LET d == IF c.req.bars = <<>> THEN AfterBars(AfterReset(c))
                                       ELSE [c EXCEPT !.pc = "preflight"]
         IN  CallInv(d) /\ d.base \in {<<>>, c.base}
<1>1. /\ c \in Call /\ c.s \in State /\ c.req \in Request /\ c.log \in Seq(Entry)
      /\ Linked(c.s, c.log) /\ c.s.identity = c.req.id /\ c.s.profile = c.req.profile
      /\ VetInv(c) /\ c.base \in Seq(Entry)
  BY DEF CallInv, Call
<1>2. c.req.asOf \in Nat /\ c.s.samples \in Nat /\ c.s.available \in Nat
  BY <1>1, StateNumbers, RequestParts
<1>3. c.s.available <= c.req.asOf
  <2>1. CASE c.s.samples = 0
    BY <1>1, <1>2, <2>1, EmptyState
  <2>2. CASE c.s.samples > 0
    BY <1>2, <2>2
  <2>3. QED BY <1>2, <2>1, <2>2
<1>4. CASE c.req.bars = <<>> /\ c.req.action = "reset"
  <2> DEFINE new == NewStream(c.s.identity, c.s.profile)
             d == [c EXCEPT !.s = new, !.log = <<>>, !.base = <<>>]
  <2>1. /\ new \in State /\ Linked(new, <<>>) /\ new.identity = c.req.id
        /\ new.profile = c.req.profile /\ new.available = 0
    BY <1>1, NewStreamLinked, StateNumbers DEF NewStream
  <2>2. AfterReset(c) = d
    BY <1>4 DEF AfterReset
  <2> HIDE DEF new
  <2>3. <<>> \in Seq(Entry) /\ Len(<<>>) = 0
    OBVIOUS
  <2>4. /\ d \in Call /\ d.s = new /\ d.log = <<>> /\ d.base = <<>> /\ d.req = c.req
        /\ d.rows = c.rows
    BY <1>1, <2>1, <2>3 DEF Call
  <2> HIDE DEF d
  <2>5. Consumed(d, Len(d.req.bars))
    BY <1>1, <1>4, <2>3, <2>4 DEF VetInv, Consumed
  <2>6. CallInv(AfterBars(d)) /\ AfterBars(d).base = <<>>
    BY <1>1, <1>2, <2>1, <2>4, <2>5, LeaveLoops DEF VetInv
  <2>7. QED
    BY <1>4, <2>2, <2>6
<1>5. CASE c.req.bars = <<>> /\ c.req.action # "reset"
  <2>1. AfterReset(c) = c
    BY <1>5 DEF AfterReset
  <2>2. Consumed(c, Len(c.req.bars))
    BY <1>1, <1>5 DEF VetInv
  <2>3. CallInv(AfterBars(c)) /\ AfterBars(c).base = c.base
    BY <1>1, <1>3, <2>2, LeaveLoops DEF VetInv
  <2>4. QED
    BY <1>5, <2>1, <2>3
<1>6. CASE c.req.bars # <<>>
  <2> DEFINE d == [c EXCEPT !.pc = "preflight"]
  <2>1. /\ d \in Call /\ d.pc = "preflight" /\ d.req = c.req /\ d.s = c.s /\ d.log = c.log
        /\ d.base = c.base /\ d.rows = c.rows /\ d.next = c.next /\ d.closed = c.closed
        /\ d.available = c.available
    BY <1>1 DEF Call, Phases
  <2> HIDE DEF d
  <2>2. c.req.bars \in Seq(Bar) /\ Len(c.req.bars) \in Nat /\ Len(c.req.bars) # 0
    BY <1>1, <1>6, RequestParts
  <2>3. Consumed(d, 0)
    BY <1>1, <2>1 DEF VetInv, Consumed
  <2>4. PreflightInv(d)
    BY <1>1, <2>1, <2>2, <2>3 DEF VetInv, PreflightInv, Checked
  <2>5. CallInv(d)
    BY <1>1, <1>3, <2>1, <2>4 DEF CallInv
  <2>6. QED
    BY <1>6, <2>1, <2>5 DEF d
<1>7. QED
  BY <1>4, <1>5, <1>6

(* A bar that passes its round of the preflight joins those that passed. *)
LEMMA PreflightCall ==
  ASSUME NEW c, CallInv(c), c.pc = "preflight",
         TimeOk(c.req.bars[c.next], c.req.asOf), ValidCandle(c.req.bars[c.next].candle),
         InOrder(c.req.bars[c.next], [c.s EXCEPT !.closed = c.closed, !.available = c.available])
  PROVE  LET bar  == c.req.bars[c.next]
             seen == [c EXCEPT !.closed = bar.closed, !.available = bar.available]
             d    == IF c.next < Len(c.req.bars)
                     THEN [seen EXCEPT !.next = @ + 1]
                     ELSE [seen EXCEPT !.pc = "update", !.next = 1]
         IN  CallInv(d) /\ d.base = c.base
<1> DEFINE bars == c.req.bars
           bar  == bars[c.next]
           seen == [c EXCEPT !.closed = bar.closed, !.available = bar.available]
<1>1. /\ c \in Call /\ c.s \in State /\ c.req \in Request
      /\ c.closed \in Nat /\ c.available \in Nat
      /\ Linked(c.s, c.log) /\ c.s.identity = c.req.id /\ c.s.profile = c.req.profile
      /\ c.s.available <= c.req.asOf /\ PreflightInv(c)
  BY DEF CallInv, Call
<1>2. bars \in Seq(Bar) /\ Len(bars) \in Nat /\ c.next \in 1 .. Len(bars)
  BY <1>1, RequestParts DEF PreflightInv
<1>3. \A i \in 1 .. Len(bars) : bars[i] \in Bar
  BY <1>2
<1>4. /\ \A i \in 1 .. Len(bars) : bars[i].closed \in Nat /\ bars[i].available \in Nat
      /\ bar.closed \in Nat /\ bar.available \in Nat
  BY <1>2, <1>3, BarNumbers
<1>5. bar.closed > c.closed /\ bar.available >= c.available
  <2>1. [c.s EXCEPT !.closed = c.closed, !.available = c.available].closed = c.closed
        /\ [c.s EXCEPT !.closed = c.closed, !.available = c.available].available = c.available
    BY <1>1 DEF State
  <2>2. QED BY <2>1 DEF InOrder
<1>6. TimeOk(bar, c.req.asOf) /\ ValidCandle(bar.candle)
  OBVIOUS
<1> HIDE DEF bars, bar
<1>7. InOrder(bars[1], c.s)
  <2>1. CASE c.next = 1
    BY <1>1, <1>2, <1>5, <2>1 DEF PreflightInv, InOrder, bar, bars
  <2>2. CASE c.next # 1
    BY <1>1, <1>2, <2>2 DEF PreflightInv, bars
  <2>3. QED BY <2>1, <2>2
<1>8. Checked(c, c.next)
  <2>1. Checked(c, c.next - 1)
    BY <1>1 DEF PreflightInv
  <2>2. \A i \in 1 .. c.next : TimeOk(bars[i], c.req.asOf) /\ ValidCandle(bars[i].candle)
    <3> SUFFICES ASSUME NEW i \in 1 .. c.next
                 PROVE  TimeOk(bars[i], c.req.asOf) /\ ValidCandle(bars[i].candle)
      OBVIOUS
    <3>1. CASE i = c.next
      BY <1>6, <3>1 DEF bar
    <3>2. CASE i # c.next
      BY <1>2, <2>1, <3>2 DEF Checked, bars
    <3>3. QED BY <3>1, <3>2
  <2>3. \A i \in 1 .. c.next - 1 : Succeeds(bars[i], bars[i + 1])
    <3> SUFFICES ASSUME NEW i \in 1 .. c.next - 1 PROVE Succeeds(bars[i], bars[i + 1])
      OBVIOUS
    <3>1. CASE i = c.next - 1
      <4>1. c.closed = bars[i].closed /\ c.available = bars[i].available /\ bars[i + 1] = bar
        BY <1>1, <1>2, <3>1 DEF PreflightInv, bars, bar
      <4>2. QED BY <1>5, <4>1 DEF Succeeds
    <3>2. CASE i # c.next - 1
      BY <1>2, <2>1, <3>2 DEF Checked, bars
    <3>3. QED BY <3>1, <3>2
  <2>4. QED
    BY <2>2, <2>3 DEF Checked, bars
<1>9. Consumed(c, 0) /\ c.rows = <<>>
  BY <1>1 DEF PreflightInv
<1>10. CASE c.next < Len(bars)
  <2> DEFINE n == c.next + 1
             d == [seen EXCEPT !.next = n]
  <2>1. n \in Nat
    BY <1>2
  <2>2. [seen EXCEPT !.next = @ + 1] = d
    BY <1>1 DEF Call
  <2> HIDE DEF n
  <2>3. /\ d \in Call /\ d.pc = "preflight" /\ d.req = c.req /\ d.s = c.s /\ d.log = c.log
        /\ d.base = c.base /\ d.rows = c.rows /\ d.next = n /\ d.closed = bar.closed
        /\ d.available = bar.available
    BY <1>1, <1>4, <2>1 DEF Call, Phases
  <2> HIDE DEF d, seen
  <2>4. Consumed(d, 0) /\ Checked(d, d.next - 1)
    BY <1>2, <1>8, <1>9, <2>3 DEF Consumed, Checked, n
  <2>5. PreflightInv(d)
    <3>1. d.next \in 1 .. Len(d.req.bars) /\ d.next # 1
      BY <1>2, <1>10, <2>3 DEF bars, n
    <3>2. InOrder(d.req.bars[1], d.s) /\ d.rows = <<>>
      BY <1>7, <1>9, <2>3 DEF bars
    <3>3. /\ d.closed = d.req.bars[d.next - 1].closed
          /\ d.available = d.req.bars[d.next - 1].available
      BY <1>2, <2>3 DEF bars, bar, n
    <3>4. d.next - 1 # 0
      BY <3>1
    <3>5. QED BY <2>4, <3>1, <3>2, <3>3, <3>4 DEF PreflightInv
  <2>6. CallInv(d)
    BY <1>1, <2>3, <2>5 DEF CallInv
  <2>7. QED
    BY <1>10, <2>2, <2>3, <2>6 DEF bars, bar, seen
<1>11. CASE ~(c.next < Len(bars))
  <2> DEFINE d == [seen EXCEPT !.pc = "update", !.next = 1]
  <2>1. /\ d \in Call /\ d.pc = "update" /\ d.req = c.req /\ d.s = c.s /\ d.log = c.log
        /\ d.base = c.base /\ d.rows = c.rows /\ d.next = 1
    BY <1>1, <1>2, <1>4 DEF Call, Phases
  <2> HIDE DEF d, seen
  <2>2. c.next = Len(bars)
    BY <1>2, <1>11
  <2>3. Consumed(d, 0) /\ Checked(d, Len(bars))
    BY <1>8, <1>9, <2>1, <2>2 DEF Consumed, Checked
  <2>4. UpdateInv(d)
    BY <1>2, <1>7, <1>9, <2>1, <2>3 DEF UpdateInv, bars
  <2>5. CallInv(d)
    BY <1>1, <2>1, <2>4 DEF CallInv
  <2>6. QED
    BY <1>11, <2>1, <2>5 DEF bars, bar, seen, d
<1>12. QED
  BY <1>10, <1>11

(* A bar that passed the preflight is not refused by its update. *)
LEMMA CheckedAcceptable ==
  ASSUME NEW c, CallInv(c), c.pc = "update"
  PROVE  Acceptable(c.req.bars[c.next], c.req.asOf, c.s)
<1> DEFINE bar == c.req.bars[c.next]
<1>1. /\ c.s \in State /\ c.req \in Request /\ Linked(c.s, c.log) /\ UpdateInv(c)
  BY DEF CallInv, Call
<1>2. c.req.bars \in Seq(Bar) /\ c.next \in 1 .. Len(c.req.bars)
  BY <1>1, RequestParts DEF UpdateInv
<1>3. TimeOk(bar, c.req.asOf) /\ ValidCandle(bar.candle) /\ InOrder(bar, c.s)
  BY <1>1, <1>2 DEF UpdateInv, Checked
<1>4. bar \in Bar
  BY <1>2
<1> HIDE DEF bar
<1>5. c.s.samples < MaxSamples
  BY <1>1, <1>3, <1>4, StateNumbers, BarNumbers, EngineAssumption DEF Linked, InOrder
<1>6. QED
  BY <1>3, <1>5 DEF Acceptable, bar

(* A bar that is consumed follows those consumed before, in state, log and rows. *)
LEMMA UpdateCall ==
  ASSUME NEW c, CallInv(c), c.pc = "update"
  PROVE  LET bar  == c.req.bars[c.next]
             s    == Consume(c.s, bar)
             done == [c EXCEPT !.s    = s,
                               !.log  = Append(@, [series |-> <<c.req.id, c.req.profile>>,
                                                   bar |-> bar]),
                               !.rows = IF c.req.output = "series"
                                        THEN Append(@, s.latest) ELSE @]
             d    == IF c.next < Len(c.req.bars) THEN [done EXCEPT !.next = @ + 1]
                                                 ELSE AfterBars(done)
         IN  CallInv(d) /\ d.base = c.base
<1> DEFINE bars == c.req.bars
           bar  == bars[c.next]
           s    == Consume(c.s, bar)
           e    == [series |-> <<c.req.id, c.req.profile>>, bar |-> bar]
           log  == Append(c.log, e)
           rows == IF c.req.output = "series" THEN Append(c.rows, s.latest) ELSE c.rows
           done == [c EXCEPT !.s = s, !.log = log, !.rows = rows]
           next == c.next + 1
<1>1. /\ c \in Call /\ c.s \in State /\ c.req \in Request /\ c.log \in Seq(Entry)
      /\ c.base \in Seq(Entry) /\ c.rows \in Seq(Row)
      /\ Linked(c.s, c.log) /\ c.s.identity = c.req.id /\ c.s.profile = c.req.profile
      /\ UpdateInv(c)
  BY DEF CallInv, Call
<1>2. /\ bars \in Seq(Bar) /\ Len(bars) \in Nat /\ c.next \in 1 .. Len(bars)
      /\ c.req.asOf \in Time /\ c.req.id \in Identities /\ c.req.profile \in Profiles
      /\ c.req.output \in {"latest", "series"}
  BY <1>1, RequestParts DEF UpdateInv
<1>3. bar \in Bar /\ Acceptable(bar, c.req.asOf, c.s)
  BY <1>2, CheckedAcceptable
<1>4. e \in Entry /\ e.bar = bar /\ e.series = <<c.s.identity, c.s.profile>>
  <2> HIDE DEF bar
  <2> QED BY <1>1, <1>2, <1>3 DEF Entry
<1>5. s \in State /\ Linked(s, log)
  <2> HIDE DEF bar, e
  <2> QED BY <1>1, <1>2, <1>3, <1>4, ConsumeLinked
<1>6. /\ s.identity = c.req.id /\ s.profile = c.req.profile
      /\ s.closed = bar.closed /\ s.available = bar.available
      /\ s.latest \in Row /\ s.latest.samples = Len(log)
      /\ s.latest.closed = bar.closed /\ s.latest.available = bar.available
  <2>1. s.identity = c.s.identity /\ s.profile = c.s.profile
        /\ s.closed = bar.closed /\ s.available = bar.available
    BY <1>1 DEF Consume, State
  <2>2. s.latest.samples = Len(log) /\ s.latest.closed = s.closed
        /\ s.latest.available = s.available
    BY <1>5 DEF Linked
  <2>3. s.latest \in Row
    BY <1>5, StateNumbers
  <2>4. QED BY <1>1, <2>1, <2>2, <2>3
<1>7. bar.closed \in Nat /\ bar.available \in Nat /\ bar.available <= c.req.asOf
  BY <1>3, BarNumbers DEF Acceptable, TimeOk
<1> HIDE DEF bar, e, s
<1>8. /\ log \in Seq(Entry) /\ Len(log) = Len(c.log) + 1 /\ log[Len(log)] = e
      /\ \A i \in 1 .. Len(c.log) : log[i] = c.log[i]
  BY <1>1, <1>4
<1>9. /\ rows \in Seq(Row)
      /\ c.req.output = "latest" => rows = <<>>
      /\ c.req.output = "series" => /\ Len(rows) = Len(c.rows) + 1
                                    /\ rows[Len(rows)] = s.latest
                                    /\ \A i \in 1 .. Len(c.rows) : rows[i] = c.rows[i]
  <2>1. c.req.output = "latest" => c.rows = <<>> /\ c.req.output # "series"
    BY <1>1 DEF UpdateInv
  <2>2. CASE c.req.output = "series"
    <3>1. rows = Append(c.rows, s.latest)
      BY <2>2
    <3>2. /\ Append(c.rows, s.latest) \in Seq(Row)
          /\ Len(Append(c.rows, s.latest)) = Len(c.rows) + 1
          /\ Append(c.rows, s.latest)[Len(c.rows) + 1] = s.latest
          /\ \A i \in 1 .. Len(c.rows) : Append(c.rows, s.latest)[i] = c.rows[i]
      BY <1>1, <1>6
    <3> HIDE DEF rows
    <3>3. c.req.output # "latest"
      BY <2>2
    <3>4. QED BY <2>2, <3>1, <3>2, <3>3
  <2>3. CASE c.req.output # "series"
    BY <1>1, <1>2, <2>1, <2>3
  <2>4. QED BY <2>2, <2>3
<1> HIDE DEF log, rows
<1>10. /\ done \in Call /\ done.pc = "update" /\ done.req = c.req /\ done.s = s
       /\ done.log = log /\ done.base = c.base /\ done.rows = rows /\ done.next = c.next
  BY <1>1, <1>5, <1>8, <1>9 DEF Call
<1> HIDE DEF done
<1>11. Len(c.base) \in Nat /\ Len(c.log) = Len(c.base) + c.next - 1 /\ Consumed(c, c.next - 1)
  <2>1. Consumed(c, c.next - 1)
    BY <1>1 DEF UpdateInv
  <2>2. Len(c.base) \in Nat /\ Len(c.log) = Len(c.base) + (c.next - 1)
    BY <1>1, <2>1 DEF Consumed
  <2>3. c.next \in Nat
    BY <1>1 DEF Call
  <2>4. QED BY <2>1, <2>2, <2>3
<1>12. Len(log) = Len(c.base) + c.next
  <2>1. Len(log) = Len(c.log) + 1
    BY <1>8
  <2>2. c.next \in Nat
    BY <1>1 DEF Call
  <2>3. QED BY <1>11, <2>1, <2>2
<1>13. Consumed(done, c.next)
  <2>1. \A i \in 1 .. Len(c.base) : log[i] = c.base[i]
    BY <1>2, <1>8, <1>11 DEF Consumed
  <2>2. ASSUME NEW i \in 1 .. c.next PROVE log[Len(c.base) + i].bar = bars[i]
    <3>1. CASE i = c.next
      BY <1>2, <1>4, <1>8, <1>12, <3>1 DEF bar
    <3>2. CASE i # c.next
      <4>1. i \in 1 .. c.next - 1 /\ Len(c.base) + i \in 1 .. Len(c.log)
        BY <1>2, <1>11, <3>2
      <4>2. c.log[Len(c.base) + i].bar = bars[i]
        BY <1>11, <4>1 DEF Consumed
      <4>3. QED BY <1>8, <4>1, <4>2
    <3>3. QED BY <3>1, <3>2
  <2>3. ASSUME c.req.output = "series"
        PROVE  /\ Len(rows) = c.next
               /\ \A i \in 1 .. c.next : /\ rows[i].samples = Len(c.base) + i
                                         /\ rows[i].closed = bars[i].closed
                                         /\ rows[i].available <= c.req.asOf
    <3>1. Len(c.rows) = c.next - 1
      BY <1>11, <2>3 DEF Consumed
    <3>2. Len(rows) = c.next
      BY <1>2, <1>9, <2>3, <3>1
    <3>3. ASSUME NEW i \in 1 .. c.next
          PROVE  /\ rows[i].samples = Len(c.base) + i
                 /\ rows[i].closed = bars[i].closed
                 /\ rows[i].available <= c.req.asOf
      <4>1. CASE i = c.next
        BY <1>6, <1>7, <1>9, <1>12, <2>3, <3>2, <4>1 DEF bar
      <4>2. CASE i # c.next
        <5>1. i \in 1 .. c.next - 1
          BY <1>2, <4>2
        <5>2. rows[i] = c.rows[i]
          BY <1>9, <2>3, <3>1, <5>1
        <5>3. QED BY <1>11, <2>3, <5>1, <5>2 DEF Consumed
      <4>3. QED BY <4>1, <4>2
    <3>4. QED BY <3>2, <3>3
  <2>4. QED
    BY <1>10, <1>12, <2>1, <2>2, <2>3 DEF Consumed
<1>14. CASE c.next < Len(bars)
  <2> DEFINE d == [done EXCEPT !.next = next]
  <2>1. next \in 1 .. Len(bars) /\ next \in Nat
    BY <1>2, <1>14
  <2>2. [done EXCEPT !.next = @ + 1] = d
    BY <1>10 DEF Call
  <2> HIDE DEF next
  <2>3. /\ d \in Call /\ d.pc = "update" /\ d.req = c.req /\ d.s = s /\ d.log = log
        /\ d.base = c.base /\ d.rows = rows /\ d.next = next
    BY <1>10, <2>1 DEF Call
  <2> HIDE DEF d
  <2>4. Consumed(d, d.next - 1)
    <3>1. d.next - 1 = c.next
      BY <1>2, <2>3 DEF next
    <3>2. QED BY <1>10, <1>13, <2>3, <3>1 DEF Consumed
  <2>5. InOrder(bars[next], s)
    <3>1. c.next \in 1 .. Len(bars) - 1
      BY <1>2, <1>14
    <3>2. Succeeds(bars[c.next], bars[c.next + 1])
      BY <1>1, <3>1 DEF UpdateInv, Checked
    <3>3. QED BY <1>6, <3>2 DEF Succeeds, InOrder, next, bar
  <2>6. Checked(d, Len(bars))
    BY <1>1, <2>3 DEF UpdateInv, Checked
  <2>7. UpdateInv(d)
    BY <1>9, <2>1, <2>3, <2>4, <2>5, <2>6 DEF UpdateInv
  <2>8. CallInv(d)
    BY <1>5, <1>6, <1>7, <2>3, <2>7 DEF CallInv
  <2>9. QED
    BY <1>14, <2>2, <2>3, <2>8 DEF done, rows, log, e, s, bar
<1>15. CASE ~(c.next < Len(bars))
  <2>1. c.next = Len(bars)
    BY <1>2, <1>15
  <2>2. Consumed(done, Len(done.req.bars))
    BY <1>10, <1>13, <2>1
  <2>3. CallInv(AfterBars(done)) /\ AfterBars(done).base = c.base
    BY <1>5, <1>6, <1>7, <1>9, <1>10, <2>2, LeaveLoops
  <2>4. QED
    BY <1>15, <2>3 DEF done, rows, log, e, s, bar
<1>16. QED
  BY <1>14, <1>15

(* A state that is not too large is answered. *)
LEMMA EncodeCall ==
  ASSUME NEW c, CallInv(c), c.pc = "encode", StateFits(c.s)
  PROVE  CallInv([c EXCEPT !.pc = "respond"])
<1> DEFINE d == [c EXCEPT !.pc = "respond"]
<1>1. c \in Call /\ DoneInv(c)
  BY DEF CallInv
<1>2. /\ d \in Call /\ d.pc = "respond" /\ d.req = c.req /\ d.s = c.s /\ d.log = c.log
      /\ d.base = c.base /\ d.rows = c.rows
  BY <1>1 DEF Call, Phases
<1> HIDE DEF d
<1>3. DoneInv(d)
  BY <1>1, <1>2 DEF DoneInv, Consumed
<1>4. CallInv(d)
  BY <1>2, <1>3 DEF CallInv
<1>5. QED BY <1>4 DEF d

-----------------------------------------------------------------------------
(* The invariant of the tool                                               *)

(* The segments that leave the callers' snapshots alone keep the invariant  *)
(* when the call they leave does.                                           *)
LEMMA KeepInv ==
  ASSUME ToolInv, UNCHANGED vault, NEW c, call' = c,
         c = Idle \/ (CallInv(c) /\ c.base \in {<<>>} \cup {e.log : e \in vault})
  PROVE  ToolInv'
BY DEF ToolInv, Working

(* What a call begins with, if it begins, is linked to the log it stands for. *)
LEMMA BeginInv ==
  ASSUME ToolInv, ~Working, NEW verdict, NEW req \in Request, NEW s, NEW l,
         verdict = "Ok" =>
           /\ s \in State /\ l \in Seq(Entry) /\ Linked(s, l)
           /\ s.identity = req.id /\ s.profile = req.profile
           /\ l \in {<<>>} \cup {e.log : e \in vault},
         Begin(req, verdict, s, l)
  PROVE  ToolInv'
<1>1. CASE verdict = "Ok"
  <2> DEFINE c == [pc |-> "vet", req |-> req, s |-> s, log |-> l, base |-> l, next |-> 1,
                   closed |-> s.closed, available |-> s.available, rows |-> <<>>]
  <2>1. CallInv(c)
    BY <1>1, BeginCall
  <2>2. c.base = l /\ call' = c /\ UNCHANGED vault
    BY <1>1 DEF Begin
  <2> HIDE DEF c
  <2>3. QED BY <1>1, <2>1, <2>2, KeepInv
<1>2. CASE verdict # "Ok"
  BY <1>2, KeepInv DEF Begin, Working
<1>3. QED BY <1>1, <1>2

(* A snapshot that passes the checks of advance, inspect and reset is, of    *)
(* all that callers may send, one that they received, with its log.          *)
LEMMA SentLinked ==
  ASSUME ToolInv, NEW e \in vault, NEW sent \in Sent(e), NEW req \in Request,
         SnapshotRefusal(req, sent.snapshot) = "Ok"
  PROVE  /\ sent.snapshot.payload \in State /\ sent.log \in Seq(Entry)
         /\ Linked(sent.snapshot.payload, sent.log)
         /\ sent.snapshot.payload.identity = req.id
         /\ sent.snapshot.payload.profile = req.profile
         /\ sent.log \in {f.log : f \in vault}
<1>1. e \in [snapshot: Snapshot, log: Seq(Entry)] /\ Held(e)
  BY DEF ToolInv
<1>2. sent.log = e.log /\ sent.snapshot.checksum = e.snapshot.checksum
  BY <1>1 DEF Sent, Snapshot
<1>3. e.snapshot.payload \in State /\ e.log \in Seq(Entry)
  BY <1>1 DEF Snapshot
<1>4. /\ e.snapshot.checksum = Digest(1, e.snapshot.payload.profile, e.snapshot.payload)
      /\ Linked(e.snapshot.payload, e.log)
  BY <1>1 DEF Held, SnapshotOf
<1>5. Sealed(sent)
  BY <1>2, <1>3, <1>4 DEF Sealed
<1>6. Restorable(sent.snapshot, req.id, req.profile)
  BY DEF SnapshotRefusal, Restorable
<1>7. QED
  BY <1>2, <1>3, <1>5, <1>6, RestoredLinked, RequestParts

(* Every segment of every call keeps the invariant. *)
LEMMA ToolNextInv == ToolInv /\ [Next]_vars => ToolInv'
<1> SUFFICES ASSUME ToolInv, [Next]_vars PROVE ToolInv'
  OBVIOUS
<1>0. Working => CallInv(call) /\ call.base \in {<<>>} \cup {e.log : e \in vault}
  BY DEF ToolInv
<1>1. CASE Create
  <2>1. PICK req \in Creates :
          Begin(req, RequestRefusal(req), NewStream(req.id, req.profile), <<>>)
    BY <1>1 DEF Create
  <2>2. req \in Request /\ req.id \in Identities /\ req.profile \in Profiles
    BY <2>1, RequestParts DEF Request
  <2>3. /\ NewStream(req.id, req.profile) \in State
        /\ Linked(NewStream(req.id, req.profile), <<>>)
        /\ NewStream(req.id, req.profile).identity = req.id
        /\ NewStream(req.id, req.profile).profile = req.profile
    BY <2>2, NewStreamLinked DEF NewStream
  <2>4. <<>> \in Seq(Entry)
    OBVIOUS
  <2>5. QED
    BY <1>1, <2>1, <2>2, <2>3, <2>4, BeginInv DEF Create
<1>2. CASE Continue
  <2>1. PICK e \in vault : \E sent \in Sent(e), req \in Continues :
          Begin(req,
                IF RequestRefusal(req) # "Ok" THEN RequestRefusal(req)
                                             ELSE SnapshotRefusal(req, sent.snapshot),
                sent.snapshot.payload, sent.log)
    BY <1>2 DEF Continue
  <2>2. PICK sent \in Sent(e), req \in Continues :
          Begin(req,
                IF RequestRefusal(req) # "Ok" THEN RequestRefusal(req)
                                             ELSE SnapshotRefusal(req, sent.snapshot),
                sent.snapshot.payload, sent.log)
    BY <2>1
  <2> DEFINE verdict == IF RequestRefusal(req) # "Ok" THEN RequestRefusal(req)
                                                     ELSE SnapshotRefusal(req, sent.snapshot)
  <2>3. req \in Request
    BY <2>2 DEF Request
  <2>4. verdict = "Ok" => SnapshotRefusal(req, sent.snapshot) = "Ok"
    OBVIOUS
  <2>5. Begin(req, verdict, sent.snapshot.payload, sent.log)
    BY <2>2
  <2> HIDE DEF verdict
  <2>6. QED
    BY <1>2, <2>2, <2>3, <2>4, <2>5, SentLinked, BeginInv DEF Continue
<1>3. CASE Vet
  <2>1. CASE call.s.samples > 0 /\ call.s.available > call.req.asOf
    BY <1>3, <2>1, KeepInv DEF Vet, Fail
  <2>2. CASE ~(call.s.samples > 0 /\ call.s.available > call.req.asOf)
    <3> DEFINE d == IF call.req.bars = <<>> THEN AfterBars(AfterReset(call))
                                            ELSE [call EXCEPT !.pc = "preflight"]
    <3>1. CallInv(d) /\ d.base \in {<<>>, call.base}
      BY <1>0, <1>3, <2>2, VetCall DEF Vet
    <3>2. call' = d /\ UNCHANGED vault
      BY <1>3, <2>2 DEF Vet, GoOn
    <3> HIDE DEF d
    <3>3. QED BY <1>0, <1>3, <3>1, <3>2, KeepInv DEF Vet
  <2>3. QED BY <2>1, <2>2
<1>4. CASE Preflight
  <2> DEFINE bar  == call.req.bars[call.next]
             last == [call.s EXCEPT !.closed = call.closed, !.available = call.available]
             seen == [call EXCEPT !.closed = bar.closed, !.available = bar.available]
             d    == IF call.next < Len(call.req.bars)
                     THEN [seen EXCEPT !.next = @ + 1]
                     ELSE [seen EXCEPT !.pc = "update", !.next = 1]
             ok   == TimeOk(bar, call.req.asOf) /\ InOrder(bar, last) /\ ValidCandle(bar.candle)
  <2>1. CASE ~ok
    BY <1>4, <2>1, KeepInv DEF Preflight, Fail
  <2>2. CASE ok
    <3>1. CallInv(d) /\ d.base = call.base
      BY <1>0, <1>4, <2>2, PreflightCall DEF Preflight
    <3>2. call' = d /\ UNCHANGED vault
      BY <1>4, <2>2 DEF Preflight, GoOn
    <3> HIDE DEF d
    <3>3. QED BY <1>0, <1>4, <3>1, <3>2, KeepInv DEF Preflight
  <2>3. QED BY <2>1, <2>2
<1>5. CASE Update
  <2> DEFINE bar  == call.req.bars[call.next]
             s    == Consume(call.s, bar)
             done == [call EXCEPT !.s    = s,
                                  !.log  = Append(@, [series |-> <<call.req.id, call.req.profile>>,
                                                      bar |-> bar]),
                                  !.rows = IF call.req.output = "series"
                                           THEN Append(@, s.latest) ELSE @]
             d    == IF call.next < Len(call.req.bars) THEN [done EXCEPT !.next = @ + 1]
                                                       ELSE AfterBars(done)
  <2>1. Working /\ call.pc = "update" /\ CallInv(call)
    BY <1>0, <1>5 DEF Update
  <2>2. CallInv(d) /\ d.base = call.base
    BY <2>1, UpdateCall
  <2>3. call' = d /\ UNCHANGED vault
    BY <1>5, <2>1, CheckedAcceptable DEF Update, GoOn
  <2> HIDE DEF d
  <2>4. QED BY <1>0, <2>1, <2>2, <2>3, KeepInv
<1>6. CASE UpdateFails \/ Stop
  BY <1>6, KeepInv DEF UpdateFails, Stop, Fail
<1>7. CASE Encode
  <2>1. CASE ~StateFits(call.s)
    BY <1>7, <2>1, KeepInv DEF Encode, Fail
  <2>2. CASE StateFits(call.s)
    <3> DEFINE d == [call EXCEPT !.pc = "respond"]
    <3>1. CallInv(d)
      BY <1>0, <1>7, <2>2, EncodeCall DEF Encode
    <3>2. d.base = call.base
      BY <1>0, <1>7 DEF CallInv, Call, Encode
    <3>3. call' = d /\ UNCHANGED vault
      BY <1>7, <2>2 DEF Encode, GoOn
    <3> HIDE DEF d
    <3>4. QED BY <1>0, <1>7, <3>1, <3>2, <3>3, KeepInv DEF Encode
  <2>3. QED BY <2>1, <2>2
<1>8. CASE Respond
  <2> DEFINE e == [snapshot |-> SnapshotOf(call.s), log |-> call.log]
  <2>1. /\ call.s \in State /\ call.log \in Seq(Entry) /\ Linked(call.s, call.log)
        /\ StateFits(call.s)
    BY <1>0, <1>8 DEF Respond, CallInv, Call
  <2>2. vault' \in {vault, vault \cup {e}} /\ call' = Idle
    BY <1>8 DEF Respond
  <2>3. e \in [snapshot: Snapshot, log: Seq(Entry)]
    BY <2>1 DEF Snapshot, SnapshotOf, Digest, State
  <2>4. Held(e)
    <3>1. e.snapshot = SnapshotOf(call.s) /\ e.snapshot.payload = call.s /\ e.log = call.log
      BY DEF SnapshotOf
    <3> HIDE DEF e
    <3>2. QED BY <2>1, <3>1 DEF Held
  <2> HIDE DEF e
  <2>5. vault' \subseteq [snapshot: Snapshot, log: Seq(Entry)] /\ \A f \in vault' : Held(f)
    BY <2>2, <2>3, <2>4 DEF ToolInv
  <2>6. ~Working'
    BY <2>2 DEF Working
  <2>7. QED
    BY <2>5, <2>6 DEF ToolInv
<1>9. CASE UNCHANGED vars
  BY <1>9 DEF vars, ToolInv, Working
<1>10. QED
  BY <1>1, <1>2, <1>3, <1>4, <1>5, <1>6, <1>7, <1>8, <1>9 DEF Next

(* The invariant holds in every reachable state. *)
THEOREM ToolInvariance == Spec => []ToolInv
<1>1. Init => ToolInv
  BY DEF Init, ToolInv, Working
<1>2. QED
  BY <1>1, ToolNextInv, PTL DEF Spec

-----------------------------------------------------------------------------
(* What follows from it                                                    *)

(* The log of an answer begins with that of the snapshot the call came with. *)
LEMMA ExtendsBase ==
  ASSUME NEW c \in Call, DoneInv(c)
  PROVE  Len(c.base) <= Len(c.log) /\ SubSeq(c.log, 1, Len(c.base)) = c.base
<1>1. c.log \in Seq(Entry) /\ c.base \in Seq(Entry) /\ c.req \in Request
  BY DEF Call
<1>2. Len(c.req.bars) \in Nat /\ Consumed(c, Len(c.req.bars))
  BY <1>1, RequestParts DEF DoneInv
<1>3. Len(c.base) \in Nat /\ Len(c.base) <= Len(c.log)
  <2>1. Len(c.log) = Len(c.base) + Len(c.req.bars)
    BY <1>2 DEF Consumed
  <2>2. Len(c.base) \in Nat
    BY <1>1
  <2>3. Len(c.req.bars) \in Nat
    BY <1>2
  <2>4. \A b, n \in Nat : b <= b + n
    OBVIOUS
  <2>5. QED BY <2>1, <2>2, <2>3, <2>4, Zenon
<1>4. \A i \in 1 .. Len(c.base) : c.log[i] = c.base[i]
  BY <1>2 DEF Consumed
<1> DEFINE prefix == SubSeq(c.log, 1, Len(c.base))
<1>5. /\ prefix \in Seq(Entry) /\ Len(prefix) = Len(c.base)
      /\ \A i \in 1 .. Len(c.base) : prefix[i] = c.log[i]
  BY <1>1, <1>3
<1> HIDE DEF prefix
<1>6. prefix = c.base
  BY <1>1, <1>4, <1>5, SeqEqual
<1>7. QED BY <1>3, <1>6 DEF prefix

(* Every snapshot a caller received holds the state of one stream that has  *)
(* consumed its log, however the history was cut into calls.                *)
THEOREM ReplayedAnswers == Spec => []SnapshotsAreReplays
<1>1. ToolInv => SnapshotsAreReplays
  BY DEF ToolInv, SnapshotsAreReplays, Held, Linked
<1>2. QED BY <1>1, ToolInvariance, PTL

(* Once the updates of a call begin, none of its bars is refused. *)
THEOREM PreflightIsEnough == Spec => []PreflightSuffices
<1>1. ToolInv => PreflightSuffices
  BY CheckedAcceptable DEF ToolInv, PreflightSuffices
<1>2. QED BY <1>1, ToolInvariance, PTL

(* An answer covers the request, on top of the snapshot it came with. *)
THEOREM WholeAnswers == Spec => []AnswersWhole
<1>1. ToolInv => AnswersWhole
  <2> SUFFICES ASSUME ToolInv, Working, call.pc = "respond"
               PROVE  /\ call.s.samples = Len(call.base) + Len(call.req.bars)
                      /\ SubSeq(call.log, 1, Len(call.base)) = call.base
                      /\ \A i \in DOMAIN call.req.bars :
                           call.log[Len(call.base) + i].bar = call.req.bars[i]
                      /\ IF call.req.output = "series"
                         THEN /\ Len(call.rows) = Len(call.req.bars)
                              /\ \A i \in DOMAIN call.req.bars :
                                   /\ call.rows[i].samples = Len(call.base) + i
                                   /\ call.rows[i].closed = call.req.bars[i].closed
                         ELSE call.rows = IF call.s.samples = 0 THEN <<>> ELSE <<call.s.latest>>
    BY DEF AnswersWhole
  <2>1. /\ call \in Call /\ Linked(call.s, call.log) /\ DoneInv(call)
        /\ call.log \in Seq(Entry) /\ call.base \in Seq(Entry) /\ call.req \in Request
    BY DEF ToolInv, CallInv, Call
  <2>2. Consumed(call, Len(call.req.bars))
    BY <2>1 DEF DoneInv
  <2>3. call.req.bars \in Seq(Bar) /\ call.req.output \in {"latest", "series"}
    BY <2>1, RequestParts
  <2>4. DOMAIN call.req.bars = 1 .. Len(call.req.bars) /\ Len(call.req.bars) \in Nat
    BY <2>3
  <2>5. SubSeq(call.log, 1, Len(call.base)) = call.base
    BY <2>1, ExtendsBase
  <2>6. call.s.samples = Len(call.base) + Len(call.req.bars)
    BY <2>1, <2>2 DEF Linked, Consumed
  <2>7. QED
    BY <2>1, <2>2, <2>3, <2>4, <2>5, <2>6 DEF DoneInv, Consumed
<1>2. QED BY <1>1, ToolInvariance, PTL

(* An answer tells nothing that was not available at its as_of_ms. *)
THEOREM NoLookaheadEver == Spec => []NoLookahead
<1>1. ToolInv => NoLookahead
  <2> SUFFICES ASSUME ToolInv, Working, call.pc = "respond"
               PROVE  /\ call.s.available <= call.req.asOf
                      /\ \A i \in DOMAIN call.rows : call.rows[i].available <= call.req.asOf
    BY DEF NoLookahead
  <2>1. /\ call \in Call /\ Linked(call.s, call.log) /\ DoneInv(call)
        /\ call.s.available <= call.req.asOf /\ call.req \in Request /\ call.rows \in Seq(Row)
    BY DEF ToolInv, CallInv, Call
  <2>2. call.req.output \in {"latest", "series"}
    BY <2>1, RequestParts
  <2>3. CASE call.req.output = "series"
    BY <2>1, <2>3 DEF DoneInv, Consumed
  <2>4. CASE call.req.output = "latest"
    <3>1. call.s.latest.available <= call.req.asOf
      BY <2>1 DEF Linked
    <3>2. call.rows = <<>> \/ call.rows = <<call.s.latest>>
      BY <2>1, <2>4 DEF DoneInv
    <3>3. \A i \in DOMAIN call.rows : call.rows[i] = call.s.latest
      BY <3>2
    <3>4. QED BY <2>1, <3>1, <3>3
  <2>5. QED BY <2>2, <2>3, <2>4
<1>2. QED BY <1>1, ToolInvariance, PTL

(* What the tool hands out it takes back. *)
THEOREM ResumableAnswers == Spec => []AnswersResumable
<1>1. ToolInv => AnswersResumable
  <2> SUFFICES ASSUME ToolInv, NEW e \in vault
               PROVE  /\ Restorable(e.snapshot, e.snapshot.payload.identity,
                                    e.snapshot.payload.profile)
                      /\ StateFits(e.snapshot.payload)
    BY DEF AnswersResumable
  <2>1. e.snapshot.payload \in State /\ Held(e)
    BY DEF ToolInv, Snapshot
  <2>2. QED BY <2>1, LinkedRestorable DEF Held
<1>2. QED BY <1>1, ToolInvariance, PTL

(* For its callers every call is one answer, or nothing. *)
THEOREM ToolRefinement == Spec => ImplementsReplayTree
<1> DEFINE known == {e.log : e \in vault}
<1>1. Init => Tree!Init
  BY DEF Init, Tree!Init
<1>2. ToolInv /\ [Next]_vars => [Tree!Next]_known
  <2> SUFFICES ASSUME ToolInv, [Next]_vars PROVE Tree!Next \/ UNCHANGED known
    OBVIOUS
  <2>1. CASE UNCHANGED vault
    BY <2>1
  <2>2. CASE Respond
    <3> DEFINE e == [snapshot |-> SnapshotOf(call.s), log |-> call.log]
    <3>1. e.log = call.log
      OBVIOUS
    <3>2. vault' \in {vault, vault \cup {e}}
      BY <2>2 DEF Respond
    <3>3. /\ call \in Call /\ Linked(call.s, call.log) /\ DoneInv(call)
          /\ call.log \in Seq(Entry) /\ call.base \in Seq(Entry)
          /\ call.base \in known \cup {<<>>}
      BY <2>2 DEF ToolInv, CallInv, Call, Respond
    <3> HIDE DEF e
    <3>4. CASE vault' = vault \cup {e}
      <4>1. PICK l : l = call.log
        OBVIOUS
      <4>2. PICK base : base = call.base
        OBVIOUS
      <4>3. known' = known \cup {l}
        BY <3>1, <3>4, <4>1
      <4>4. Tree!Chronological(l)
        BY <3>3, <4>1 DEF Linked, Tree!Chronological
      <4>5. Tree!Extends(l, base)
        BY <3>3, <4>1, <4>2, ExtendsBase DEF Tree!Extends
      <4>6. Tree!Answer(base, l)
        BY <3>3, <4>1, <4>3, <4>4, <4>5 DEF Tree!Answer
      <4>7. base \in known \cup {<<>>} /\ l \in known'
        BY <3>3, <4>2, <4>3
      <4>8. QED BY <4>6, <4>7 DEF Tree!Next
    <3>5. QED BY <3>2, <3>4
  <2>3. QED
    BY <2>1, <2>2 DEF Next, vars, Create, Continue, Begin, Vet, Preflight, Update, UpdateFails,
                      Encode, Stop, Fail, GoOn
<1>3. QED
  BY <1>1, <1>2, ToolInvariance, PTL DEF Spec, Tree!Spec, ImplementsReplayTree
=============================================================================
