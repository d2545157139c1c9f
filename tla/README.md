# Verification of roze-ta

TLA+ models of roze-ta, a technical-analysis library in Rust
(`src/crates/roze-ta`) and its MCP server (`src/crates/roze-ta-mcp`), checked
with TLC and, where marked, proved with TLAPS. Paths below are relative to
those two crates' `src/` directories.

Most of the library is floating-point arithmetic: indicators, statistics,
probability, and migrated third-party algorithms. None of that is the subject
here. The models cover the code that keeps *state between calls* - streams,
snapshots, retained histories, windows, caches, open bars -, the loops of one
call that may be cut off or refused half-way, and the server that runs them
under concurrency, cancellation and limits. That is where an error takes a
sequence of calls, or a shape of input, nobody wrote a test for.

## 1. Inventory

| Component | State | Operations | Hard part |
|---|---|---|---|
| Engine stream (`engine/mod.rs`, `fingerprint.rs`) | identity, profile, kernel, sample count, last times, latest row | `new`, `update`, `reset`, `snapshot`, `restore` | a failing or panicking kernel; a snapshot outlives its process and comes back under any name, perhaps damaged |
| Engine kernels (`engine/kernel.rs`, `extensions.rs`, `lib.rs`) and reference kernels (`engine/reference.rs`, `wickra/`) | per profile: windows, seeds, averages, bands, a monotonic deque | `new`, `step`, `valid_for` | `valid_for` must accept exactly the reachable kernels, whatever the series; a window that forgets a bar too late; results undefined for part of a series |
| Engine batch (`engine/mod.rs` `calculate_controlled`) | one stream at a time | one call | two validation passes that must agree; output modes; strict mode; limits; stopping anywhere |
| Native batch (`native/mod.rs`, `native/methods.rs`) | a runner for each operation | one call | operations share a request and a budget, not their state; two output modes |
| Renko, collapse, past (`methods/`) | next brick prices; an open bar; a window | `next` | several bricks from one bar, none from many; a bar whose volume belongs to the next brick |
| Stream tool (`roze-ta-mcp/src/stream.rs`) | none: callers own the snapshots | create, advance, inspect, reset | forked, repeated, lost and damaged snapshots; look-ahead through state; size limits both ways |
| Gateway (`main.rs`, `reference.rs::run`) | a semaphore of two permits; per call a handler, a worker, a token, a deadline | every calculating tool | the worker outlives its handler; panic, cancellation, deadline and disconnect race |
| Request framing (`bounded.rs`) | the bytes of the line being read | `new`, `poll_read` | a frame arrives in any number of reads; the count outlives each |
| Reference stream and its tools (`reference_all/mod.rs`, `roze-ta-mcp/src/reference.rs`) | runner, retained samples and their size, latest row; the tools keep nothing | `new`, `update_controlled`, `reset`, `snapshot`, `restore_controlled`; create, advance, inspect, reset; `calculate_controlled` | restore by replay: every sample is consumed again, at another time, under other limits; a snapshot may hold what the call must not see yet |
| Temporal split (`analysis/temporal.rs`) | rows and exclusions of a fold | one call | a label known too late leaks; one that is dropped twice, or never, miscounts |
| Event samples, artifacts (`analysis/probability.rs`, `calibration.rs`) | selected intervals; artifacts that callers keep | select, evaluate, infer | overlap by a greedy choice; an artifact comes back later and must be taken |
| Tick aggregation, resampling (`wickra_data/`) | open candle or bucket | `push`, `flush` | late ticks, gaps, negative times, saturation at the first time of the clock; a half-made output that must not be lost |
| Ring buffer (`core/window.rs`) | slice, index | `push`, `get`, `newest`, `oldest`, two iterators, serde | branchless index arithmetic that saturates at `u8::MAX` |
| Extrema (`methods/highest_lowest.rs`, `highest_lowest_index.rs`) | window, cached extremum | `next` | the cache is renewed only when it leaves the window; ties; two zeros |
| Reversal (`methods/reversal.rs`) | window, extremum and its number, a saturating counter | `next` | long series |
| Moving median (`methods/smm.rs`) | window and a sorted copy | `next`, serde | bisection that tests bits and compares numbers |
| Other methods, indicators (`methods/`, `indicators/`) | recurrences | `next` | floating point |
| Catalog V1, other analysis (`catalog.rs`, `analysis/`) | none between calls | one call | numerical code |
| Reference runners, wickra, TA-Lib (`reference_all/registry*.rs`, `wickra_all/`, `talib/`) | per algorithm | `update` | generated or third-party |

**How they interact.** Bytes of a client come through the framing to the SDK,
which calls a tool. A tool call enters the gateway, takes a permit and runs
one of the calculations - engine batch, stream tool, reference stream, native
batch, catalog V1, analysis - in a blocking worker; the calculation calls back
into a checkpoint between bars. The stream tool and the engine batch are loops
around the engine stream; the reference stream is a second, older kind of
stream with the same promises and another way to keep them. The methods are
built on the ring buffer; a native batch runs them side by side. Aggregators and resamplers
are fed by the library's users, the output of one to the other.

**What makes each correct.** A stream's state is what replaying its log gives,
whatever happened in between; a snapshot restores to the stream it was taken
of, and every snapshot of a reachable state restores; bars are consumed in
order and under one name; a failed call changes nothing. A kernel's window is
the end of its series. A batch says what a stream would have said. No answer
tells of the future, and no model is trained on a label that was not known.
Permits are neither lost nor doubled and every call ends. A window answers as a
list of the last values, and a cache as a search through them. Each accepted
tick is in one candle, each observation in one place of a fold.

## 2. Modules

Each module names the code it stands for; `map` in `PROJECT.json` gives every
definition its lines.

| Module | Models | Abstraction |
|---|---|---|
| `ReferenceKernels` | `engine/reference.rs` and the algorithms it adapts: ALMA, SuperTrend, StochRSI, Vortex, Ulcer | an average is kept as the sequence of its inputs, a band as its bar and average, and evaluated as an exact fraction where the code compares |
| `Kernels` | `Kernel::new`, `step`, `valid_for` | pure operators, one kind for each shape of state; arithmetic over integers |
| `StreamState` | `State`, `Row`, `Snapshot`, validation, one step, restore's checks | pure operators; the digest is injective |
| `KernelFeed` | one stream of any kind fed a long series | beside the series itself |
| `EngineStream` | one live stream, its owner and the stored snapshots | the owner may crash, restore, fork; `log` and `owner` are history variables |
| `EngineBatch` | `calculate_controlled` of the engine | one step between two checkpoints |
| `NativeBatch` | `calculate_controlled` of the native methods, with `Past`, `CollapseTimeframe` and `Renko` as runners | one step for each bar and operation; Renko on exact fractions, of any brick size part / whole |
| `TemporalSplit` | `TemporalSpec::validate` and `calculate` | one step for each round of the inner loop |
| `EventSample` | the choice of intervals in `probability` and `calibration_evaluation`, the counts of a Beta artifact, `infer_beta` | one step for each round of the loop; scores and intervals left out |
| `Framing` | `BoundedLines` | a byte ends a line or does not |
| `Calculations` | the five above | one of them at a time: they share no state |
| `StreamTool` | `indicator_stream` | one step between two checkpoints; the vault is what callers hold |
| `ReferenceStream` | `reference_all::Stream` | the runner's algorithm is a parameter; a runner is the sequence of values it took |
| `ReferenceTool` | `reference.rs` `stream`, `calculate_controlled` | one step between two checkpoints; beside calls, the owner of a stream in the same process |
| `Gateway` | handlers, workers, semaphore, tokens, deadlines, disconnect | calculations are opaque |
| `Timeframe`, `TickAggregator`, `Resampler` | `Timeframe::floor`, and the two aggregators | integer volumes; `MaxVolume` is where a float is no longer finite |
| `BarPipeline` | an aggregator in front of a resampler, and one beside it that sees the ticks | what was produced may wait, and may be dropped, before it is handed on |
| `Window` | the ring buffer with its integer width | size up to MaxPeriod - 1 |
| `Extrema`, `Reversal`, `MovingMedian` | the methods of that name | a window is a sequence (justified by `Window`); values have bits and a number |
| `Methods` | the methods above, fed one series side by side | composition of the three, with their properties |
| `SeriesLog` | *abstract*: an append-only log of strictly later events that can be saved and gone on from | implemented by `EngineStream` and `ReferenceStream` |
| `ReplayTree` | *abstract*: a growing set of logs, each an extension of another by later events or an empty one | implemented by `StreamTool` |
| `PermitPool` | *abstract*: admitted and refused calls over a pool | implemented by `Gateway` |
| `SlidingWindow` | *abstract*: the sequence of the last values and a walk over it | implemented by `Window` |
| `BucketSeries` | *abstract*: items of a series grouped by bucket, empty buckets filled or not | implemented by `TickAggregator` and by `Resampler` |
| `*MC` | instances for TLC | |
| `*Proofs` | theorems | |

Composition: `Kernels` is extended by `StreamState`, and that by `EngineStream`,
`KernelFeed`, `EngineBatch` and `StreamTool`, so all loops around a stream run the same
stream. The methods take the ring buffer as the sequence that `Window` is shown
to implement, and `Methods` runs them over one series of values. `Gateway` is composed with the calculations only through their
checkpoints: in `Calculations`, `StreamTool` and `ReferenceTool` a call may be
stopped between any two steps, which is all a token or a deadline can do; in
`Gateway` a calculation may run on for any time and end in any way.

### State and actions against the code

*EngineStream.* `stream` is `Stream.state`; `vault` are the snapshots kept
outside the process, each with the log it stands for. `Update`, `UpdateRefused`
and `UpdateFails` are the three exits of `update`: consumed, refused by
`validate_bar`, failed in the kernel (`catch_unwind` or a non-finite result),
where the candidate clone is thrown away. `Restore` and `RestoreRefused` check
version and profile, then checksum, identity, the row, and `valid_for`. `Damage`
mixes up parts of stored snapshots.

*KernelFeed* is the same `update`, accepted bars only, with `bars` as a history of the
candles. `FeedAssumption` ties `minimum_bars` to the bar at which a reference kernel has its
first value (`FirstValue`), as the catalog does.

*StreamTool* and *EngineBatch* keep the call in progress as a record with a
program counter: validation of each bar against locals, then one `update` per
bar, then encoding. `Stop` is a checkpoint that finds the token cancelled or the
deadline passed.

*NativeBatch* has the phases of the call as `batch.pc`: `Validate` takes one bar,
`Resolve` one operation, `RunOne` one bar of one operation, with its row, its
cost and the bytes retained; `Respond` ends it. `RunnerPanics` is `catch_unwind`,
`NativeStop` a checkpoint.

*TemporalSplit* has the loop over folds as `fold` and the loop over the sorted
observations as the set `rest`, of which `Observe` takes the first. `Exclusion` and `RoleOf` are
the body of that loop: the three reasons to exclude, and the three roles;
`FoldEnds` computes `usable` and begins the next fold.

*EventSample* is the same for intervals: `LookAt` takes the earliest left,
`Conclude` makes rows and, for a probability, the artifact; `InferBeta` is a later call
with an artifact that a caller kept.

*Framing* is a client's bytes, cut into pieces by `PollRead` at every size; the
count of a line is what stays between two reads.

*TickAggregator* and *Resampler* have `Push`, with the three ways it goes on - begin a bar,
extend it, close it and fill the gap -, `Refused` for its errors, and `Flush`. A flushed aggregator is as a new one, so
`taken` and `closed` describe the series since the last flush.

*ReferenceStream* keeps the live stream and a restore in progress.
`Restore` is everything before the replay (caps, version, identity,
configuration, checksum); `ReplaySample` consumes one retained sample through
the same `Refusal`, `Consume` as a live update; `Restored` makes it live.

*ReferenceTool* owns such a stream for the length of a call, kept in `call`. `CallCreate`,
`CallRestore` and `CallCalculate` are what a request does before the first checkpoint;
`ServeReplay`, `ServeUpdate` and `ServeReset` use the stream's own actions;
`ServeStopped` is a checkpoint that ends the call, `ServeTooLong` the budget of
rows, `ServeAnswer` the snapshot that is answered, `ServeEnd` the stream dropped.
While no call is served, any other owner's steps may be taken.

*Gateway* has one handler and one worker per request. A permit travels with the
closure (`Holds`); `Answer`, `EncodeV1` and `AnswerV1` are the two ways a result
reaches the client; `StopAtCheckpoint`, `Compute`, `Panic` and `End` are the
worker; `Expire`, `CancelNotification`, `Disconnect`, `DropHandler` and
`DropQueued` are the clock, the client and the runtime. `Quiet` is the state in
which a closed server stutters.

*Window* is written with the code's own arithmetic - saturating addition,
conditional subtraction - on integers of the width of `PeriodType`.

*Extrema*, *Reversal* and *MovingMedian* have one action, `next`, besides a
round trip through serialization in the last. Where floating point lets `max`,
`min` or an unstable sort return either of two equal values, the model returns
any of them.

## 3. Runs

| Run | Instance | Shows |
|---|---|---|
| `engine_stream` | two identities, two profiles, period 2, a clock of two, two kept snapshots of which one may be damaged | `StateIsReplay`, `OneSeries`, refinement of `SeriesLog` |
| `kernels` | each of the eleven kinds with period 3, every series of seven bars over five candles: up, down, wide, without range, without volume | `KernelsRestorable`, `WindowsAreTrailing`, `UndefinedAsStated`, `BandsRatchet` |
| `bars` | up to four of seven ticks on a clock from -7 to 13, buckets of 2 and 4, at most three filled candles, two candles on their way | `TicksAreBucketed` and `CandlesAreBucketed` (refinement of `BucketSeries`), `ResampledIsDirect` |
| `calculations` | 400 bar lists of the engine for each time, mode and profile list, 375 that make bricks of one half or one third, 2,000 lists of observations for five of folds, pairs and triples of intervals, every input of up to eight bytes | `BatchIsStreams`, `PreflightSuffices`, `NativeIsRunners`, `BricksChain`, `NoLeakage`, `EveryLabelOnce`, `SamplesAreDisjoint`, `ArtifactsAreAccepted`, `FramesAreBounded` |
| `stream_tool` | two profiles, up to three bars a call of six (two are the limit), two held snapshots | `SnapshotsAreReplays`, `PreflightSuffices`, `AnswersWhole`, `NoLookahead`, `AnswersResumable`, refinement of `ReplayTree` |
| `gateway` | three calls, one of V1, two permits, fairness | `PermitsConserved`, `RefusedOnlyWhenFull`, refinement of `PermitPool`, `EveryCallEnds`, `PermitsReturn` |
| `reference_stream` | two names, four payloads of two sizes, caps of two samples and seven bytes, one damaged snapshot; calls with none, one, two and three samples | `HistoryIsAll`, `ReplayNeverRefuses`, `AnswersAsOf`, `RestoresExactly`, refinement of `SeriesLog` |
| `window` | two values, every size up to 4 of a `PeriodType` of 5 | refinement of `SlidingWindow` |
| `methods` | windows of five over four values, every left and right of a `PeriodType` of 5 | `CachesAreExtrema`, `IndexIsNewest`, `PivotsWhileCounting`, `MedianOfWindow` |
| `reference_restore`, `reversal_long`, `moving_median_zeros` | as above | findings, section 6 |

Each property of a passing run has a mutant in `PROJECT.json`: a change of one
mapped definition, of the kind a programmer might make, that the property
notices.

**Why the bounds are enough.**

* *Kernels.* With period 3, seven bars go through two full windows: empty, warming
  up (StochRSI needs six), first value, a window whose bad bars have left. The
  candles are chosen so that each kind meets its undefined case and leaves it
  again. Kernels of two kinds never meet, the profile is checked before
  anything else, so one at a time is enough.
* *Engine stream.* Two snapshots are what it takes to mix one up with another; a
  third adds nothing the properties could tell apart. Two identities and two
  profiles allow every wrong pair. The long series are in `kernels`.
* *Loops of a call.* A call of two bars has a first and a last round of each loop;
  three have one between. Two folds are a first and a last, and three observations
  are two to compare and one apart. Three intervals are the least in which a greedy choice
  leaves out a middle one and takes a third.
* *Bars.* The clock ends inside a bucket at both ends, so the first bucket saturates and
  the last cannot be filled; negative times, zero and positive ones meet in one
  series; one gap is exactly as long as may be filled, one is longer.
* *Framing.* Eight bytes are two frames of the largest size, or one too long with
  something before and after it, in pieces of one to three.
* *Gateway.* One call more than permits to
  refuse, and one sees a permit come back and be taken again; one call of V1 is
  enough to meet its late answer. No symmetry is used, as the run checks
  liveness.
* *Reference stream.* Its caps are met exactly and exceeded, by count and by size, by a
  live stream and by what a call hands in.
* *Window* is run at every size its integer type allows, the largest included,
  where the arithmetic saturates; *Reversal* to saturation of the counter and on. The methods'
  state depends only on the order of the values within the window, and four values
  in a window of five meet ties of each length at each end. Both zeros, equal as
  numbers and different as bits, are left to the proof for `Extrema` and to
  `moving_median_zeros` for the median.

Views leave out the answer to the last call, on which nothing depends, and in `gateway`
the deadline of a worker that has ended, which nothing reads again.
`CHECK_DEADLOCK FALSE` is set for `bars` alone, whose series end.

**Two shared shapes.** In `calculations` one request is under way at a time, from
the initial state and back: the calculations share no state, and what runs
beside what is `Gateway`'s subject. In `bars` a stage that was
flushed takes no more, because a flushed aggregator is as a new one: the model
follows one series. A request of the analysis holds one operation; the code
runs several one after the other.

**Fairness.** Only `gateway` assumes any: weak fairness of each
worker's steps - the blocking pool starts every closure it has, and a
calculation over bounded input comes to an end - and of each handler's -
a task whose join handle has completed is polled. Nothing is assumed of clients,
of the clock, or of the connection: a cancel notification, a deadline or a
disconnect may or may not come. The other components have no liveness of their
own to state: they are functions of a call, and that a call ends is a property of the gateway.

## 4. Proofs

TLC shows a property on an instance; these theorems hold for every value of the
constants that satisfies the modules' assumptions.

* **`StreamStateProofs`** - lemmas, no theorem of a specification. First the kernels,
  for every period: a new one is valid for no bars, and a step of one that is valid for
  n bars is valid for n + 1 (`NewKernelValid`, `KernelStepValid`). The deep one is
  Ulcer: its deque is increasing in index and strictly decreasing in price, its front
  within the window and its drawdowns under it (`MaximaNext`, from `DominatingPrefix`,
  `RecentSuffix`, `Climbing`). Then the stream: what a series of bars leaves of a new
  stream is a function of the series (`FedStreams`, `ReplayNext`); state and log are
  `Linked` after `new` and after each consumed bar, a snapshot of a linked state is
  restorable, and a restorable snapshot that is sealed over a linked state restores to
  one.
* **`StreamProofs`** - `FeedInv`: a stream of any kind is linked to some log; hence
  `KernelsRestorable`, for any period and series. `SeriesInv` adds what each kind keeps
  of the series: its windows and averages are ends of it (`TrailingNext`), Ulcer's deque
  covers the last `Period` prices (`MaximaCover`), a SuperTrend band is the tightest
  since some bar that no later close but the last lay beyond, and StochRSI keeps beside
  each RSI whether anything had moved (a smoothed average stays positive,
  `WilderPositive`). Hence `WindowsAreTrailing`, `UndefinedAsStated` and `BandsRatchet`,
  for series of any length, where `FeedAssumption` holds: a period of two or more and
  the `minimum_bars` of the catalog (`catalog.rs:359`). For `EngineStream`, `Inv`: the
  live state is `Linked` to the log (it is what the log gives when fed to a new stream;
  same name on every entry, closes increasing, counters and latest row those of the last
  entry, kernel valid for their number), and each stored snapshot is `Sealed` (its hash
  is that of a linked state, whatever was done to the rest). `StateIsReplay`,
  `OneSeries`, `Chronological`, `LiveStateRestorable`, `SamplesBoundedByClock` and
  `TypeOK` follow; none is inductive alone, because a restore brings back a state of
  which they say nothing. With it every step maps to a step of `SeriesLog`.
* **`ServerProofs`** - the two parts of the server a client meets.
  * *Gateway.* `PermitsConserved` is inductive once it is known that a worker lives only
    for a handler that waits for it (`WorkersAwaited`) and that a refused call has none
    (`RefusedNeverRuns`). `RefusedOnlyWhenFull` follows by counting: the holders of all
    permits are unanswered. The refinement of `PermitPool` is proved for any number of
    calls and permits.
  * *Stream tool.* `ToolInv`: between two checkpoints of a call, its state is linked to
    the log it began from, extended by the bars it has taken; the bars not yet taken have
    passed the preflight against the locals of that loop, and those locals are what the
    stream will show when it gets there. Every answer is whole, resumable and a replay of
    its own log (`SnapshotsAreReplays`, `PreflightSuffices`, `AnswersWhole`,
    `AnswersResumable`), no bar of a log was available later than the call that took it
    (`NoLookahead`), and every step maps to one of `ReplayTree`.
* **`ReferenceToolProofs`** - `ToolInv`: the stream - live, being restored, or in the
  hands of a call - is `Sound`: its runner took exactly the retained values, its size is
  the total of theirs, within both caps, and each sample was admissible after those
  before it. A replay runs in step with the stream it restores, so it refuses nothing,
  gives the same state (`ReplayNeverRefuses`, `HistoryIsAll`, `RestoresExactly`) and,
  for a call, one of which everything was known at its time (`AnswersAsOf`). Every step
  of the owner and of the tool maps to a step of `SeriesLog`.
* **`CalculationsProofs`** - the five calculations, one section each, and
  `CalculationsSafe`: as one request is under way at a time and no calculation touches
  another's variables (`PartsKeepApart`), what holds of each alone holds of `CalcSpec`.
  * *Framing.* `FramingInv`: while the reader has not failed, the count is the length of
    the unended end of the bytes taken, what was handed on is what was taken, and no
    line of it is longer than a frame; once it has failed, there is one. The count of a
    piece adds to that of the pieces before it (`CountPiece`), whatever the cut: that is
    what makes `FramesAreBounded` independent of the reads.
  * *Temporal split.* `SplitInv`: between two rounds of the loop, the rows of each role
    are the declared samples less the observations not yet seen, sorted and before all
    of those, and rows, exclusions and the unseen add up to the request; folds that
    ended are such with none unseen. `EveryLabelOnce` is its last round. `NoLeakage`
    follows without a further induction: a declared training label is known before
    `train - gap`, and a later sample is at `train` or after. What the request must be,
    `Verdict`, is needed for the sort: two observations of one time differ by name.
  * *Event samples.* `SampleInv`: what is selected ends before anything not yet looked
    at begins, or the rest is to be left out; the rows of the selected and the
    exclusions count all that was seen; each artifact a caller holds is `Inferable`.
  * *Engine batch.* `BatchInv`: in the first pass the locals are those of a stream that
    took the bars so far (`Checked`); in the second the stream is fed the same bars
    (`Streamed`), and the rows are those it showed, by output mode. So the second pass
    never refuses a bar of the first (`PreflightSuffices`), and an answer is a stream's
    (`BatchIsStreams`).
  * *Native batch.* `NativeInv`: each operation that has a runner has rows of exactly
    the bars it was given so far, and both are those of its calculation alone
    (`RunsAlone`). `Past` has the last bars as its window, `CollapseTimeframe` the bars
    since the last full group (`PlaceNext`, `MergedNext`), and no turn of another
    operation touches either; hence `NativeIsRunners`. `Renko` has the block of its last
    brick, or one about the first price, and what was traded since (`RenkoOf`): a quotient
    of exact fractions says how many bricks lie between block and price (`Goes`), they are
    equidistant and leave less than one (`BricksAre`, `OneRunOf`), and the last of them,
    which a falling price above zero keeps above zero, is the block that is remembered
    (`LastOfRun`). That prices are positive is what the validation of the bars was for
    (`Vetted`). Hence `BricksChain`, for any brick size, bars and gaps.
* **`PipelineProofs`** - an open candle against the items of its bucket, for any ticks,
  clock and timeframes. `PipelineInv` says of each stage that what it handed out and its
  open bar are the series of what it took, and it says so of one candle at a time
  (`Good`): the j-th candle is that of the j-th smallest bucket covered, and its open,
  extremes, close and volume are found among that bucket's items - or there are none, and
  it is flat at the close before. An item of the open bucket changes the last candle only
  (`GoodAbsorbs`), one of a later bucket appends its own behind the flat ones between
  (`GoodFollows`), and there are as many of those as the quotient of saturating
  differences says (`FlatsBetween`, `RoundedUp`). Such a series is unique and the one
  `BucketSeries` states (`GoodIsSeries`), so every step maps to one of it, refused gaps,
  infinite volumes and flushes included: `TicksAreBucketed`, `CandlesAreBucketed`. For
  `ResampledIsDirect`, each bucket of the longer timeframe is a union of whole ones of
  the shorter (`NestedStart`), and item by item the coarse series of the fine candles is
  that of the items (`RollsUpStep`, `RollingUp`); the series of a beginning is the
  beginning of the series but for its last candle (`SeriesGrows`). A second invariant,
  `PipelineEnds`, says what is left when a stage has been flushed: all of its series, or
  all but a last candle without a finite volume - of which the ticks' volumes tell
  (`SeriesWeighs`).
* **`WindowProofs`** - index and iterator stay within the slice; the slot of every
  logical index is computed without overflow for any size below the largest number of
  the type; each operation maps to the sliding window.
* **`MethodsProofs`** - first the extrema: `TypeOK`, `CachesAreExtrema` and
  `IndexIsNewest` are inductive together: a cache that did not leave the window is still
  its extremum, as the value that left was not it; one that did is searched for again.
  Proved for windows of any length over any values, both zeros among them. That a newest
  place of the extremum exists is well-foundedness of the naturals. Then the reversal
  methods: `ReversalInv` says that what is remembered is the number of the newest
  extremum within reach (`Remembers`), whether it was kept, replaced or searched for
  (`FollowLeads`), and there is only one (`LeadsOnce`); so a signal, which compares two
  numbers, is a pivot (`PivotsWhileCounting`), for any reach and any limit of the
  counter. Last the moving median. `MedianInv`: no index was out of range, the slice is
  ascending, and a bijection between the places of slice and window (`Rearranges`) says
  that they hold the same values. Bisection (`FindIndexFinds`, `FindInsertIndexParts`)
  then finds a place of the value that leaves and one that parts the lesser numbers
  from the greater; `copy_within` makes of the slice one that is ascending and
  rearranges the new window (`MovedOrdered`, `MovedRearranges`, from `MovedFrom`, which
  says where each value comes from); so does a reload. What stands at a place of an
  ascending rearrangement is the smallest but so many (`SmallestInPlace`, by counting),
  hence `MedianOfWindow`, for windows of any length. The theorem supposes
  `OnePattern`, that two values of one number are one value, as are all finite values
  but the two zeros; `moving_median_zeros` shows that with these it fails.

Assumptions: those named `...Assumption` in the modules (finite requests, at least one
permit, positive period, times within the counter's range; `Orders`, the orders of the
places of a window, which is a constant so that TLC computes them once; for the
aggregators, that a million buckets are less than the clock is long, see section 6). TLC
evaluates them on every run. The type invariants of `EngineStream`, `Gateway`, `Window` and `Extrema` are
theorems and are not repeated in the runs.

**Induction over a series.** A fold over a log (`Replay`, `Counted`, `Totals`) is a
recursive function, not an operator; that it is what its equation says is well-founded
recursion (`FedStreams`, `TotalsAre`, `CountedFrom`), and a fact about every length is
proved by its least counterexample (`LeastNumber`, from the well-foundedness of the
naturals), as the library's induction rules take a predicate as a parameter, which the
provers cannot instantiate.

**Only model-checked.**

* Liveness and fairness of the gateway, `EveryCallEnds` and `PermitsReturn`: TLAPS
  cannot reason about ENABLED.
* The three runs that expect a violation: their traces are the statement.

## 5. Not modelled

The repository holds some 462,000 lines of Rust, of which 422,000 are the migrated
TA-Lib (`talib/`, generated) and wickra (`wickra_all/`) libraries: one function per
indicator, a loop over a price series in floating point, without control beyond the
loop. There is nothing of it that a model checker could say and a table of expected
numbers could not. Of the remaining 40,000 most are numerical, too - the analysis
(9,700), the methods and indicators (13,700) - or the registry that names the
migrated functions (6,000). What has state,
order, limits or failure is a small part of the lines, and is modelled but for
the following:

* *Floating point.* Values are integers, fractions or opaque; overflow to infinity and
  NaN appear as the failure of a step (`UpdateFails`, `RunnerPanics`, `NotTaken`), which is how the engines
  treat them. Running sums that are updated by adding and subtracting have an
  error that grows; exact arithmetic cannot show it, so sums are not
  kept beside the window they are the sum of. Renko's brick prices underflow for
  bricks that fall far enough; the model is exact there.
* *Fingerprints.* The digest is injective: two different states have different
  hashes.
* *Identity and parameters* are opaque names: their own validation (length,
  characters, ranges) is left out; requests carry valid ones.
* *Other engine kernels.* Sma, the six methods of `extensions.rs` and the eighteen
  default indicators have the shape of `ema` (seeded by the first bar), A/D and
  Chaikin that of `obv`.
* *Reference runners* are a parameter of `ReferenceStream`: an operator that says
  whether a runner takes a value and what it then has to show.
* *NaN inputs* of the methods panic by assertion, as documented.
* *Scalar and pair samples* of a native batch go through the loops that bars do.
* *Encoding.* Sizes of samples and rows are counted, JSON is not written. So that a
  snapshot of 4 MiB does not fit a frame of 1 MiB is listed as a hazard and
  covered by no property.
* *CSV input, `with_gap_fill` between two pushes, construction of a timeframe.*
* *Analysis other than the temporal split and the samples of events, catalog V1,
  indicators*: numerical code with no lasting state of its own, or a second copy of
  a loop that is modelled.

## 6. Findings

* `reference_restore`: `update_controlled` limits the sum of the samples'
  encodings, `restore_controlled` the encoding of the array around them. A live
  stream within a few bytes of the 4 MiB has a snapshot that restore refuses
  (`reference_all/mod.rs:235`, `:309`; `docs/contracts/reference-all-v1.md:50`).
* `reversal_long`: the reversal methods number values with a `u8` that
  saturates. After 255 values the window is never searched again and the signal
  is stuck, off or on (`methods/reversal.rs:218`, `:351`).
* `moving_median_zeros`: with both zeros in the window, bisection recognises a
  value by its bits but steers by its number, and may take out another value
  than the one that left. The slice and the window part, and the answer is not
  the median (`methods/smm.rs:34`).

Worth knowing, not counted as findings: `reversal.rs` documents
`left + right + 1 <= 255`, but a window of 255 values panics in development
builds and cannot be deserialized (`core/window.rs:84`, `:490`); with different
profiles of one batch sharing a bar list, a failing kernel costs the rows of the
profiles before it, by design; a coarse bar whose volume is no longer finite is lost by `flush`
and blocks `push`, so that the only way on is to lose it; a comment says that a span that
saturated is still far above the cap on filled candles (`wickra_data/aggregator.rs:349`),
which holds for timeframes up to `i64::MAX` / 1,000,000 ms, some 292 years, and
`BarPipelineAssumption` (`MaxFill * bucket < MaxTime`) supposes those: a longer one may
be filled with fewer candles than there are buckets.

## 7. Plan

Done: engine stream and its kernels, reference kernels, engine and native
batches, stream tool, gateway, framing, reference stream and its tools, temporal split,
event samples, aggregation and resampling, ring buffer, extrema, reversal,
median; proofs of all safety properties of these.

Possible extension of the model: the size of what `reference_stream` answers
against the frames a client may send.
