----------------------------- MODULE NativeBatch -----------------------------
(***************************************************************************)
(* The batch of native operations (native/mod.rs): the samples of one      *)
(* request, bars here, are validated, a runner is made for every operation *)
(* and each bar given to all of them in turn.  Three runners stand for the *)
(* rest: Past, CollapseTimeframe, which withholds its output, and Renko,   *)
(* which generates any number of bricks.                                   *)
(***************************************************************************)
EXTENDS StreamState

CONSTANTS
  NativeOffers,   \* the sequences of bars callers submit
  NativeLists,    \* the sequences of operations they ask for
  MaxNativeBars,  \* MAX_SAMPLES
  MaxOperations,  \* MAX_OPERATIONS
  MaxItemsOut,    \* MAX_OUTPUT_ITEMS
  MaxBricks,      \* MAX_RENKO_BRICKS
  MaxRowBytes     \* MAX_RETAINED_ROW_BYTES, in bricks and rows

(* An operation by its catalog id, with the period it was given or, for Renko, *)
(* the relative brick size, which is part / whole.                             *)
Operation == [id: {"past", "collapse", "renko", "scalar", "unknown"}, period: Nat,
              part: Nat, whole: Nat]

ASSUME NativeAssumption ==
  /\ NativeOffers \subseteq Seq(Bar) /\ NativeLists \subseteq Seq(Operation)
  /\ {MaxNativeBars, MaxOperations, MaxItemsOut, MaxBricks, MaxRowBytes} \subseteq Nat

VARIABLES
  batch,    \* the calculation in progress, or NoBatch: its request, the place in
            \* the loops, a runner and the rows of every operation, what was
            \* generated and what is retained
  response  \* its result until the caller has it

nativeVars == <<batch, response>>

NoBatch          == [pc |-> "idle"]
NoResponse(code) == [code |-> code, req |-> <<>>, results |-> <<>>]
NothingNative    == batch = NoBatch /\ response = NoResponse("none")

NativeRequest == [asOf: Time, bars: NativeOffers, ops: NativeLists, output: {"latest", "series"}]

-----------------------------------------------------------------------------
(* The runners                                                             *)

(* Prices of Renko are exact: the last block's borders are in parts of 1 / unit, *)
(* those that the next price has to reach in parts whole times as small.         *)
NextBlocks(op, upper, lower, unit) ==
  [upper |-> upper, lower |-> lower, unit |-> unit,
   nextUpper |-> upper * (op.whole + op.part), nextLower |-> lower * (op.whole - op.part),
   volume |-> 0]

(* Method::new, with the first bar. *)
NewRunner(op, first) ==
  CASE op.id = "past"     -> [i \in 1 .. op.period |-> first]
    [] op.id = "collapse" -> [current |-> <<>>, index |-> 0]
    [] op.id = "renko"    -> NextBlocks(op, first.close * (2 * op.whole + op.part),
                                        first.close * (2 * op.whole - op.part), 2 * op.whole)

(* Candle::add *)
Merge(c, d) ==
  [c EXCEPT !.high = IF d.high > @ THEN d.high ELSE @, !.low = IF d.low < @ THEN d.low ELSE @,
            !.close = d.close, !.volume = @ + d.volume]

Emit(runner, values) == [runner |-> runner, values |-> values]

(* Past::next: the oldest value of the window the new one displaces. *)
PastNext(window, c) == Emit(Append(Tail(window), c), <<Head(window)>>)

(* Mutant: the group that ends goes on as the first bar of the next. *)
CollapseNext_Kept(s, period, c) ==
  LET current == IF s.current = <<>> THEN <<c>> ELSE <<Merge(s.current[1], c)>>
  IN  IF s.index + 1 = period
      THEN Emit([current |-> current, index |-> 0], current)
      ELSE Emit([current |-> current, index |-> s.index + 1], <<>>)

(* CollapseTimeframe::next: nothing until a period of bars is merged. *)
CollapseNext(s, period, c) ==
  LET current == IF s.current = <<>> THEN <<c>> ELSE <<Merge(s.current[1], c)>>
  IN  IF s.index + 1 = period
      THEN Emit([current |-> <<>>, index |-> 0], current)
      ELSE Emit([current |-> current, index |-> s.index + 1], <<>>)

(* RenkoOutput: the bricks from a base line, each with its part of the volume. *)
Bricks(op, base, unit, way, len, volume) ==
  [i \in 1 .. len |-> [open  |-> base * (op.whole + way * op.part * (i - 1)),
                       close |-> base * (op.whole + way * op.part * i),
                       unit |-> unit, volume |-> volume, parts |-> len]]

(* Mutant: after rising bricks the lower side is where they began. *)
RenkoNext_LowerStays(op, s, c) ==
  LET value  == c.close * s.unit
      volume == s.volume + c.volume
      unit   == s.unit * op.whole
      rise   == ((value - s.upper) * op.whole) \div (s.upper * op.part)
      fall   == ((s.lower - value) * op.whole) \div (s.lower * op.part)
  IN  IF value * op.whole >= s.nextUpper
      THEN Emit(NextBlocks(op, s.upper * (op.whole + op.part * rise), s.upper * op.whole, unit),
                Bricks(op, s.upper, unit, 1, rise, volume))
      ELSE IF value * op.whole <= s.nextLower
      THEN Emit(NextBlocks(op, s.lower * (op.whole - op.part * (fall - 1)),
                               s.lower * (op.whole - op.part * fall), unit),
                Bricks(op, s.lower, unit, -1, fall, volume))
      ELSE Emit([s EXCEPT !.volume = volume], <<>>)

(* Renko::next: all bricks between the last block and the price.  Either side *)
(* of the block after them is a side of the last one.                         *)
RenkoNext(op, s, c) ==
  LET value  == c.close * s.unit
      volume == s.volume + c.volume
      unit   == s.unit * op.whole
      rise   == ((value - s.upper) * op.whole) \div (s.upper * op.part)
      fall   == ((s.lower - value) * op.whole) \div (s.lower * op.part)
  IN  IF value * op.whole >= s.nextUpper
      THEN Emit(NextBlocks(op, s.upper * (op.whole + op.part * rise),
                               s.upper * (op.whole + op.part * (rise - 1)), unit),
                Bricks(op, s.upper, unit, 1, rise, volume))
      ELSE IF value * op.whole <= s.nextLower
      THEN Emit(NextBlocks(op, s.lower * (op.whole - op.part * (fall - 1)),
                               s.lower * (op.whole - op.part * fall), unit),
                Bricks(op, s.lower, unit, -1, fall, volume))
      ELSE Emit([s EXCEPT !.volume = volume], <<>>)

Run(op, runner, c) ==
  CASE op.id = "past"     -> PastNext(runner, c)
    [] op.id = "collapse" -> CollapseNext(runner, op.period, c)
    [] op.id = "renko"    -> RenkoNext(op, runner, c)

-----------------------------------------------------------------------------
(* The calculation                                                         *)

NativeFail(code) == batch' = NoBatch /\ response' = NoResponse(code)

NativeBegin(req) ==
  /\ NothingNative
  /\ CASE req.asOf <= 0 -> NativeFail("InvalidTime")
       [] req.asOf > 0 /\ \/ Len(req.bars) \notin 1 .. MaxNativeBars
                          \/ Len(req.ops) \notin 1 .. MaxOperations ->
            NativeFail("LimitExceeded")
       [] OTHER ->
            /\ batch' = [pc |-> "validate", req |-> req, next |-> 1, op |-> 1,
                         runners |-> <<>>, rows |-> <<>>, cost |-> 0, bytes |-> 0]
            /\ UNCHANGED response

(* One round of the validation loop. *)
Validate ==
  LET bars == batch.req.bars
      i    == batch.next
      last == IF i = 1 THEN [closed |-> 0, available |-> 0, samples |-> 0]
              ELSE [closed |-> bars[i - 1].closed, available |-> bars[i - 1].available,
                    samples |-> 0]
  IN  /\ batch.pc = "validate"
      /\ IF ~Acceptable(bars[i], batch.req.asOf, last)
         THEN NativeFail(Refusal(bars[i], batch.req.asOf, last))
         ELSE /\ batch' = IF i < Len(bars) THEN [batch EXCEPT !.next = @ + 1]
                          ELSE [batch EXCEPT !.pc = "resolve", !.next = 1]
              /\ UNCHANGED response

(* One operation is found in the catalog and its runner made. *)
Resolve ==
  LET op == batch.req.ops[batch.op]
  IN  /\ batch.pc = "resolve"
      /\ CASE op.id = "unknown" -> NativeFail("UnsupportedProfile")
           [] \/ op.id = "scalar"
              \/ op.id \in {"past", "collapse"} /\ op.period = 0
              \/ op.id = "renko" /\ op.part \notin 1 .. op.whole - 1 ->
                NativeFail("InvalidParameter")
           [] OTHER ->
                LET made == [batch EXCEPT
                      !.runners = Append(@, NewRunner(op, batch.req.bars[1].candle)),
                      !.rows = Append(@, <<>>)]
                IN  /\ batch' = IF batch.op < Len(batch.req.ops) THEN [made EXCEPT !.op = @ + 1]
                                ELSE [made EXCEPT !.pc = "run", !.op = 1]
                    /\ UNCHANGED response

(* A row without values says no_output; the values here are all finite. *)
NewRow(req, i, values) ==
  [at |-> req.bars[i].closed, available |-> req.bars[i].available, seen |-> i,
   values |-> values]

CostOf(values) == IF values = <<>> THEN 1 ELSE Len(values)

Retained(req, i) == req.output = "series" \/ i = Len(req.bars)

(* One bar for one operation; the rows of the bars between are not kept. *)
RunOne ==
  LET req   == batch.req
      op    == req.ops[batch.op]
      out   == Run(op, batch.runners[batch.op], req.bars[batch.next].candle)
      row   == NewRow(req, batch.next, out.values)
      cost  == batch.cost + CostOf(out.values)
      bytes == batch.bytes + (IF Retained(req, batch.next) THEN 1 + Len(out.values) ELSE 0)
      ran   == [batch EXCEPT
                 !.runners[batch.op] = out.runner, !.cost = cost, !.bytes = bytes,
                 !.rows[batch.op] = IF Retained(req, batch.next) THEN Append(@, row) ELSE @]
  IN  /\ batch.pc = "run" /\ batch.next <= Len(req.bars)
      /\ IF \/ op.id = "renko" /\ Len(out.values) > MaxBricks
            \/ cost > MaxItemsOut
            \/ bytes > MaxRowBytes
         THEN NativeFail("LimitExceeded")
         ELSE /\ batch' = IF batch.op < Len(req.ops) THEN [ran EXCEPT !.op = @ + 1]
                          ELSE [ran EXCEPT !.op = 1, !.next = @ + 1]
              /\ UNCHANGED response

Respond ==
  /\ batch.pc = "run" /\ batch.next > Len(batch.req.bars)
  /\ batch' = NoBatch
  /\ response' = [code |-> "Ok", req |-> batch.req, results |-> batch.rows]

(* catch_unwind: a native implementation panics. *)
RunnerPanics ==
  /\ batch.pc \in {"resolve", "run"}
  /\ NativeFail("UpstreamFailure")

(* Every loop, that over bricks too, and the end have their checkpoint. *)
NativeStop ==
  /\ batch # NoBatch
  /\ \E code \in {"Cancelled", "TimedOut"} : NativeFail(code)

NativeReturn ==
  /\ response # NoResponse("none")
  /\ response' = NoResponse("none")
  /\ UNCHANGED batch

NativeInit == NothingNative

NativeNext ==
  \/ NothingNative /\ \E req \in NativeRequest : NativeBegin(req)
  \/ Validate
  \/ Resolve
  \/ RunOne
  \/ Respond
  \/ RunnerPanics
  \/ NativeStop
  \/ NativeReturn

NativeSpec == NativeInit /\ [][NativeNext]_nativeVars

-----------------------------------------------------------------------------
(* Properties                                                              *)

(* The bars i .. j of a request in one. *)
Merged(req, i, j) ==
  LET upTo[n \in i .. Len(req.bars)] ==
        IF n = i THEN req.bars[i].candle ELSE Merge(upTo[n - 1], req.bars[n].candle)
  IN  upTo[j]

(* What an operation says of the n-th bar, of the request and not of a state. *)
Said(req, op, n) ==
  CASE op.id = "past"     -> <<req.bars[IF n > op.period THEN n - op.period ELSE 1].candle>>
    [] op.id = "collapse" -> IF n % op.period = 0 THEN <<Merged(req, (n - op.period) + 1, n)>>
                             ELSE <<>>

(* The rows an operation alone has of the first n bars: one for every bar, or *)
(* one for the last of the request.                                           *)
RowsSaid(req, op, n, rows) ==
  /\ Len(rows) = IF req.output = "series" THEN n ELSE IF n = Len(req.bars) THEN 1 ELSE 0
  /\ \A r \in 1 .. Len(rows) :
       LET seen == IF req.output = "series" THEN r ELSE n
       IN  /\ rows[r].seen = seen /\ rows[r].available = req.bars[seen].available
           /\ op.id # "renko" => rows[r].values = Said(req, op, seen)

(* Operations that share a request do not know of one another: each result is *)
(* the one its operation alone has of the bars, a row for every bar or the    *)
(* last, known when that bar was.                                             *)
NativeIsRunners ==
  response.code = "Ok" =>
    LET req == response.req
    IN  /\ Len(response.results) = Len(req.ops)
        /\ \A k \in 1 .. Len(req.ops) :
             RowsSaid(req, req.ops[k], Len(req.bars), response.results[k])

-----------------------------------------------------------------------------
(* The bricks                                                              *)

(* What is traded in the first n bars. *)
Traded(bars, n) ==
  LET upTo[i \in 0 .. Len(bars)] == IF i = 0 THEN 0 ELSE upTo[i - 1] + bars[i].candle.volume
  IN  upTo[n]

Rises(b) == b.close > b.open

(* The last of the first n rows that has bricks, or 0. *)
LastMaking(rows, n, p) ==
  /\ p \in 0 .. n /\ (p > 0 => rows[p].values # <<>>)
  /\ \A i \in p + 1 .. n : rows[i].values = <<>>

(* The block the bricks after row p go on from: the last brick or, when there *)
(* is none, one half of a brick to either side of the first price.            *)
BlockOf(b) == [upper |-> IF Rises(b) THEN b.close ELSE b.open,
               lower |-> IF Rises(b) THEN b.open ELSE b.close, unit |-> b.unit]

FirstBlock(op, price) ==
  [upper |-> price * (2 * op.whole + op.part), lower |-> price * (2 * op.whole - op.part),
   unit |-> 2 * op.whole]

BlockAfter(op, bars, rows, p) ==
  IF p = 0 THEN FirstBlock(op, bars[1].candle.close) ELSE BlockOf(Last(rows[p].values))

(* The bricks of one bar begin at the border of the block that its price has   *)
(* passed, are all of the size the first has by its open and of one part each  *)
(* of the volume, and end less than a brick before the price.                  *)
OneRun(op, bricks, block, price, volume) ==
  LET first == bricks[1]
      last  == Last(bricks)
      size  == op.part * first.open
  IN  /\ first.open * block.unit = (IF Rises(first) THEN block.upper ELSE block.lower) * first.unit
      /\ \A i \in 1 .. Len(bricks) :
           /\ op.whole * (bricks[i].close - bricks[i].open) = IF Rises(first) THEN size ELSE -size
           /\ i > 1 => bricks[i].open = bricks[i - 1].close
           /\ bricks[i].unit = first.unit
           /\ bricks[i].parts = Len(bricks) /\ bricks[i].volume = volume
      /\ LET beyond == op.whole * (IF Rises(first) THEN price * last.unit - last.close
                                   ELSE last.close - price * last.unit)
         IN  0 <= beyond /\ beyond < size

(* A price for which no bricks are made is within one brick of the block. *)
Within(op, block, price) ==
  /\ block.lower * (op.whole - op.part) < price * block.unit * op.whole
  /\ price * block.unit * op.whole < block.upper * (op.whole + op.part)

RowChained(op, bars, rows, n) ==
  \E p \in 0 .. n - 1 :
    LET block == BlockAfter(op, bars, rows, p)
        price == bars[n].candle.close
    IN  /\ LastMaking(rows, n - 1, p)
        /\ IF rows[n].values = <<>> THEN Within(op, block, price)
           ELSE OneRun(op, rows[n].values, block, price, Traded(bars, n) - Traded(bars, p))

(* However many bars and gaps lie between, bricks are a chain: each begins     *)
(* where the last one ends or, the other way, where that one began; none that  *)
(* the price has passed is missing or made early; and those of one bar share   *)
(* what was traded since the last bar that made any.                           *)
BricksChain ==
  response.code = "Ok" /\ response.req.output = "series" =>
    \A k \in 1 .. Len(response.req.ops) :
      response.req.ops[k].id = "renko" =>
        \A n \in 1 .. Len(response.req.bars) :
          RowChained(response.req.ops[k], response.req.bars, response.results[k], n)

-----------------------------------------------------------------------------
(* The inductive invariant                                                 *)

(* What a runner remembers of the first n bars: Past the last ones of them,   *)
(* with the first before those; CollapseTimeframe the group that has begun.   *)
RunnerOf(req, op, n, runner) ==
  CASE op.id = "past" ->
         runner = [i \in 1 .. op.period |->
                     req.bars[IF (n - op.period) + i > 1 THEN (n - op.period) + i ELSE 1].candle]
    [] op.id = "collapse" ->
         runner = [index   |-> n % op.period,
                   current |-> IF n % op.period = 0 THEN <<>>
                               ELSE <<Merged(req, (n - (n % op.period)) + 1, n)>>]
    [] op.id = "renko" -> TRUE

(* What Renko remembers of a series: the block after its last bricks and what *)
(* was traded since.                                                           *)
Block(b) ==
  b \in [upper: Nat, lower: Nat, unit: Nat] /\ 0 < b.unit /\ 0 < b.lower /\ b.lower < b.upper

Remembers(op, runner, block, volume) ==
  runner = [NextBlocks(op, block.upper, block.lower, block.unit) EXCEPT !.volume = volume]

RenkoOf(req, op, n, runner, rows) ==
  req.output = "series" =>
    /\ \A r \in 1 .. n : RowChained(op, req.bars, rows, r)
    /\ \E p \in 0 .. n :
         LET block == BlockAfter(op, req.bars, rows, p)
         IN  /\ LastMaking(rows, n, p) /\ Block(block)
             /\ Remembers(op, runner, block, Traded(req.bars, n) - Traded(req.bars, p))

(* Between two steps every operation that has a runner has it, and its rows,  *)
(* of exactly the bars it was given: all before the one that is run, and that *)
(* one if its turn is over.                                                   *)
Given(b, k) == IF b.pc # "run" THEN 0 ELSE IF k < b.op THEN b.next ELSE b.next - 1

Made(b) == IF b.pc = "run" THEN Len(b.req.ops) ELSE b.op - 1

NativeJob(b) ==
  [pc: {"validate", "resolve", "run"}, req: NativeRequest, next: Nat, op: Nat,
   runners: {b.runners}, rows: {b.rows}, cost: {b.cost}, bytes: {b.bytes}]

Sequential(s, n) == s = [i \in 1 .. n |-> s[i]]

(* Where the loops are. *)
Placed(b) ==
  /\ b.op \in 1 .. Len(b.req.ops)
  /\ b.pc = "validate" => b.op = 1 /\ b.next \in 1 .. Len(b.req.bars)
  /\ b.pc = "resolve" => b.next = 1 /\ Len(b.req.bars) > 0
  /\ b.pc = "run" => b.next \in 1 .. Len(b.req.bars) + 1
  /\ b.pc = "run" /\ b.next > Len(b.req.bars) => b.op = 1

(* An operation with its runner and its rows, after n bars. *)
RunsAlone(req, op, n, runner, rows) ==
  /\ op.id \in {"past", "collapse", "renko"}
  /\ IF op.id = "renko" THEN op.part \in 1 .. op.whole - 1 /\ RenkoOf(req, op, n, runner, rows)
     ELSE op.period > 0
  /\ Len(rows) \in Nat /\ Sequential(rows, Len(rows))
  /\ RunnerOf(req, op, n, runner)
  /\ RowsSaid(req, op, n, rows)

(* The bars validated so far are valid. *)
Vetted(b) ==
  \A i \in 1 .. IF b.pc = "validate" THEN b.next - 1 ELSE Len(b.req.bars) :
    ValidCandle(b.req.bars[i].candle)

NativeJobInv(b) ==
  /\ b \in NativeJob(b)
  /\ Placed(b) /\ Vetted(b)
  /\ Sequential(b.runners, Made(b)) /\ Sequential(b.rows, Made(b))
  /\ \A k \in 1 .. Made(b) :
       RunsAlone(b.req, b.req.ops[k], Given(b, k), b.runners[k], b.rows[k])

NativeInv == NativeIsRunners /\ BricksChain /\ (batch # NoBatch => NativeJobInv(batch))
=============================================================================
