----------------------------- MODULE StreamState -----------------------------
(***************************************************************************)
(* The state of one series stream of the native engine (engine/mod.rs) and *)
(* what its functions compute: a new state, the checks of a bar, the state *)
(* after a bar, a snapshot and the checks of restore.  EngineStream and    *)
(* StreamTool give these functions their callers.                          *)
(***************************************************************************)
EXTENDS Kernels, FiniteSets, SequencesExt

CONSTANTS
  Identities,   \* series identities (symbol, timeframe, price basis, ...)
  Profiles,     \* registered profiles, each named by its kernel's kind
  Candles,      \* the OHLCV data a bar may carry, valid or not
  MinimumBars,  \* profile -> its minimum_bars
  MaxTime,      \* the last millisecond of an i64 clock
  MaxSamples    \* u64::MAX of the sample counter

ASSUME EngineAssumption ==
  /\ Profiles \subseteq Kinds
  /\ Candles \subseteq [open: Int, high: Int, low: Int, close: Int, volume: Int]
  /\ MinimumBars \in [Profiles -> Nat \ {0}]
  /\ MaxTime \in Nat /\ MaxSamples \in Nat
  /\ MaxTime <= MaxSamples   \* i64::MAX < u64::MAX

Time == 0 .. MaxTime
Bar  == [closed: Time, available: Time, candle: Candles]

Status == {"Ready", "WarmingUp", "UndefinedResult"}

Row == [status: Status, samples: Nat, closed: Nat, available: Nat]

NoRow == [status |-> "WarmingUp", samples |-> 0, closed |-> 0, available |-> 0]

(* last_closed and last_available are 0 for None: an accepted close is positive. *)
State == [identity: Identities, profile: Profiles, samples: Nat,
          closed: Nat, available: Nat, latest: Row, kernel: Kernel]

(* Stream::new *)
NewStream(id, p) ==
  [identity |-> id, profile |-> p, samples |-> 0, closed |-> 0, available |-> 0,
   latest |-> NoRow, kernel |-> NewKernel(p)]

-----------------------------------------------------------------------------
(* Update                                                                  *)

ValidCandle(c) ==
  /\ c.low > 0
  /\ c.low <= c.open  /\ c.open <= c.high
  /\ c.low <= c.close /\ c.close <= c.high
  /\ c.volume >= 0

(* The checks of validate_bar. *)
TimeOk(bar, asOf)  == /\ asOf > 0
                      /\ 0 < bar.closed
                      /\ bar.closed <= bar.available
                      /\ bar.available <= asOf
InOrder(bar, s)    == bar.closed > s.closed /\ bar.available >= s.available

Acceptable(bar, asOf, s) ==
  /\ TimeOk(bar, asOf) /\ InOrder(bar, s) /\ ValidCandle(bar.candle)
  /\ s.samples < MaxSamples   \* checked_add

(* The refusals, in the order the code makes them. *)
Refusal(bar, asOf, s) ==
  CASE ~TimeOk(bar, asOf)                       -> "InvalidTime"
    [] TimeOk(bar, asOf) /\ ~InOrder(bar, s)    -> "DuplicateOrUnorderedBar"
    [] TimeOk(bar, asOf) /\ InOrder(bar, s)
       /\ ~ValidCandle(bar.candle)              -> "InvalidBar"
    [] OTHER                                    -> "LimitExceeded"

(* What update commits once the candidate kernel has stepped. *)
RowStatus(p, samples, k) ==
  IF samples < MinimumBars[p] THEN "WarmingUp"
  ELSE IF Defined(k) THEN "Ready" ELSE "UndefinedResult"

Consume(s, bar) ==
  LET k == KernelStep(s.kernel, bar.candle)
  IN  [s EXCEPT !.samples   = @ + 1,
                !.closed    = bar.closed,
                !.available = bar.available,
                !.latest    = [status    |-> RowStatus(s.profile, s.samples + 1, k),
                               samples   |-> s.samples + 1,
                               closed    |-> bar.closed,
                               available |-> bar.available],
                !.kernel    = k]

(* Mutant: the kernel is stepped in place. *)
AfterFailure_InPlace(s, bar) == [s EXCEPT !.kernel = KernelStep(@, bar.candle)]

(* What update leaves behind when the candidate kernel panics, or reports *)
(* an error, part-way through: the candidate is dropped.                  *)
AfterFailure(s, bar) == s

-----------------------------------------------------------------------------
(* Snapshot and restore                                                    *)

(* The parameter hash binds the implementation, the profile and its         *)
(* parameters; the checksum binds a snapshot's other fields.  Both are      *)
(* modelled as the tuple they digest: SHA-256 does not collide.             *)
Digest(version, hash, payload) == <<version, hash, payload>>

Snapshot == [version: {0, 1}, hash: Profiles, payload: State,
             checksum: {1} \X Profiles \X State]

SnapshotOf(s) ==
  [version |-> 1, hash |-> s.profile, payload |-> s,
   checksum |-> Digest(1, s.profile, s)]

(* The metadata a decoded state must show: nothing consumed, or a row that *)
(* describes the last bar and a status that agrees with the warm-up.       *)
RowConsistent(s) ==
  LET row     == s.latest
      warming == s.samples < MinimumBars[s.profile]
  IN  \/ row = NoRow /\ s.closed = 0 /\ s.available = 0 /\ s.samples = 0
      \/ /\ s.samples > 0 /\ s.closed > 0 /\ s.available >= s.closed
         /\ row.samples = s.samples
         /\ row.closed = s.closed /\ row.available = s.available
         /\ (row.status = "WarmingUp") = warming

Compatible(snap, p) == snap.version = 1 /\ snap.hash = p

(* Mutants: the checksum is not compared; the identity is not compared. *)
Intact_NoChecksum(snap, id, p) ==
  /\ snap.payload.identity = id
  /\ snap.payload.profile = p
  /\ ValidFor(snap.payload.kernel, p, snap.payload.samples)
  /\ RowConsistent(snap.payload)
Intact_AnyIdentity(snap, id, p) ==
  /\ snap.checksum = Digest(snap.version, snap.hash, snap.payload)
  /\ snap.payload.profile = p
  /\ ValidFor(snap.payload.kernel, p, snap.payload.samples)
  /\ RowConsistent(snap.payload)

Intact(snap, id, p) ==
  /\ snap.checksum = Digest(snap.version, snap.hash, snap.payload)
  /\ snap.payload.identity = id
  /\ snap.payload.profile = p
  /\ ValidFor(snap.payload.kernel, p, snap.payload.samples)
  /\ RowConsistent(snap.payload)

Restorable(snap, id, p) == Compatible(snap, p) /\ Intact(snap, id, p)

-----------------------------------------------------------------------------
(* Logs: what a stream consumed, and as part of which series.              *)

Entry == [series: {<<>>} \cup (Identities \X Profiles), bar: Bar]

(* The stream that consumed nothing but the first n bars, for each n. *)
Fed(id, p, bars) ==
  LET after[n \in 0 .. Len(bars)] ==
        IF n = 0 THEN NewStream(id, p) ELSE Consume(after[n - 1], bars[n])
  IN  after

(* Replaying the bars of a log from nothing. *)
Bars(l) == [i \in DOMAIN l |-> l[i].bar]
Replay(id, p, l) == Fed(id, p, Bars(l))[Len(l)]

(* A state is linked to a log when it is the log's replay, its counters and  *)
(* its row describe that log, its kernel has the shape of that many bars, and *)
(* the log itself is chronological and of one series.                         *)
Linked(s, l) ==
  /\ s = Replay(s.identity, s.profile, l)
  /\ s.samples = Len(l)
  /\ s.samples <= s.closed
  /\ s.closed <= s.available
  /\ l # <<>> => /\ s.closed = l[Len(l)].bar.closed
                 /\ s.available = l[Len(l)].bar.available
  /\ ValidFor(s.kernel, s.profile, s.samples)
  /\ RowConsistent(s)
  /\ s.latest.samples = s.samples
  /\ s.latest.closed = s.closed /\ s.latest.available = s.available
  /\ \A i \in 1 .. Len(l) - 1 : /\ l[i].bar.closed < l[i + 1].bar.closed
                                /\ l[i].bar.available <= l[i + 1].bar.available
  /\ \A i \in 1 .. Len(l) : l[i].series = <<s.identity, s.profile>>

(* A snapshot, damaged or not, still carries the checksum of the state it was *)
(* taken of, and the log beside it is that state's.                           *)
Sealed(e) ==
  \E s \in State : /\ e.snapshot.checksum = Digest(1, s.profile, s)
                   /\ Linked(s, e.log)
=============================================================================
