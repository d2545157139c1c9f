--------------------------- MODULE ReferenceStream ---------------------------
(***************************************************************************)
(* The stream over a reference algorithm (reference_all/mod.rs).  Its      *)
(* private state is never serialized: a snapshot is the bounded history of *)
(* samples, and restoring replays it, one sample and two checkpoints at a  *)
(* time, through the same update.  One owner holds a live stream, the      *)
(* snapshots it took, and perhaps a restore in progress; the MCP tool is   *)
(* such an owner for the length of a call.                                 *)
(***************************************************************************)
EXTENDS Integers, Sequences, FiniteSets, SequencesExt

CONSTANTS
  Series,      \* pairs of an identity and an operation
  Values,      \* payloads of samples
  Offers,      \* the samples owners submit
  Malformed,   \* those validate_json refuses
  Size(_),     \* the encoded size of a sample with that payload
  Takes(_, _), \* whether a runner that consumed a sequence takes a payload
  Emits(_),    \* what it then has to show: "none", "null" or "value"
  Warmup,      \* the samples a runner declares it needs
  MaxTime,     \* the last millisecond of an i64 clock
  MaxSamples,  \* MAX_SAMPLES
  MaxBytes     \* MAX_BYTES

ASSUME ReferenceAssumption ==
  /\ Malformed \subseteq Values
  /\ \A v \in Values : Size(v) \in Nat \ {0}
  /\ Warmup \in Nat /\ MaxTime \in Nat
  /\ MaxSamples \in Nat /\ MaxBytes \in Nat

Time   == 0 .. MaxTime
Sample == [at: Time, available: Time, value: Values]

ASSUME OffersAssumption == Offers \subseteq Sample

VARIABLES
  stream,   \* the live Stream, or NoStream
  vault,    \* snapshots, each with the stream it was taken of (history)
  restore,  \* the restore in progress - its entry and result - or Idle
  reply     \* the result of the last call

vars == <<stream, vault, restore, reply>>

Status == {"Ready", "WarmingUp", "Pending", "UndefinedResult"}
Row    == [at: Time, available: Time, seen: Nat, status: Status]
NoRow  == [at |-> 0, available |-> 0, seen |-> 0, status |-> "WarmingUp"]

(* The runner is known by the payloads it consumed. *)
Stream == [series: Series, runner: Seq(Values), history: Seq(Sample),
           bytes: Nat, latest: Row]

NoStream == [series |-> "none"]
Idle     == [entry |-> "none"]

Running   == stream # NoStream
Replaying == restore # Idle

New(x) == [series |-> x, runner |-> <<>>, history |-> <<>>, bytes |-> 0, latest |-> NoRow]

-----------------------------------------------------------------------------
(* update_controlled                                                       *)

TimeOk(sample, asOf) == /\ sample.at > 0
                        /\ sample.available >= sample.at
                        /\ sample.available <= asOf

(* Mutant: availability may go back. *)
InOrder_EmissionOnly(sample, history) == history # <<>> => sample.at > Last(history).at

InOrder(sample, history) ==
  history # <<>> => /\ sample.at > Last(history).at
                    /\ sample.available >= Last(history).available

HasRoom(s, sample) ==
  Len(s.history) < MaxSamples /\ s.bytes + Size(sample.value) <= MaxBytes

(* The refusals in their order.  NotTaken stands for what the runner, its    *)
(* domain and its emission budget refuse, for a row over 64 KiB, and for the *)
(* panic or the error of a step.                                             *)
Refusal(s, sample, asOf) ==
  CASE ~TimeOk(sample, asOf)                 -> "InvalidTime"
    [] TimeOk(sample, asOf) /\ ~InOrder(sample, s.history)
                                             -> "DuplicateOrUnorderedBar"
    [] TimeOk(sample, asOf) /\ InOrder(sample, s.history) /\ sample.value \in Malformed
                                             -> "InvalidParameter"
    [] TimeOk(sample, asOf) /\ InOrder(sample, s.history) /\ sample.value \notin Malformed
       /\ ~HasRoom(s, sample)                -> "LimitExceeded"
    [] TimeOk(sample, asOf) /\ InOrder(sample, s.history) /\ sample.value \notin Malformed
       /\ HasRoom(s, sample) /\ ~Takes(s.runner, sample.value)
                                             -> "NotTaken"
    [] OTHER                                 -> "Ok"

(* A row without a value is warming up before the declared count, pending after. *)
RowStatus(runner) ==
  CASE Emits(runner) = "null"                            -> "UndefinedResult"
    [] Emits(runner) = "value"                           -> "Ready"
    [] Emits(runner) = "none" /\ Len(runner) < Warmup    -> "WarmingUp"
    [] OTHER                                             -> "Pending"

(* The commit: the candidate becomes the runner. *)
Consume(s, sample) ==
  [s EXCEPT !.runner  = Append(@, sample.value),
            !.history = Append(@, sample),
            !.bytes   = @ + Size(sample.value),
            !.latest  = [at |-> sample.at, available |-> sample.available,
                         seen |-> Len(s.history) + 1,
                         status |-> RowStatus(Append(s.runner, sample.value))]]

(* Mutant: the step is made on the runner itself. *)
AfterStop_InPlace(s, sample) == [s EXCEPT !.runner = Append(@, sample.value)]

(* What the second checkpoint leaves when it stops an update: the candidate *)
(* has stepped and is dropped.                                              *)
AfterStop(s, sample) == s

-----------------------------------------------------------------------------
(* Snapshot and restore                                                    *)

(* The checksum binds all other fields: it is the tuple it digests. *)
SnapshotOf(s) ==
  [version |-> 1, series |-> s.series, history |-> s.history,
   checksum |-> <<1, s.series, s.history>>]

(* The bytes of the first n samples of a history, for each n. *)
Totals(history) ==
  LET total[n \in 0 .. Len(history)] ==
        IF n = 0 THEN 0 ELSE total[n - 1] + Size(history[n].value)
  IN  total

Retained(history) == Totals(history)[Len(history)]

(* The length of the history as one JSON array: brackets and commas, too. *)
Encoded(history) ==
  IF history = <<>> THEN 2 ELSE Retained(history) + Len(history) + 1

WithinReplayLimits(history) == Len(history) <= MaxSamples /\ Encoded(history) <= MaxBytes

(* Mutant: the checksum is not compared. *)
RestoreRefusal_NoChecksum(snap, x) ==
  CASE snap.version # 1 \/ snap.series # x    -> "IncompatibleSnapshot"
    [] snap.version = 1 /\ snap.series = x
       /\ ~WithinReplayLimits(snap.history)   -> "LimitExceeded"
    [] OTHER                                  -> "Ok"

RestoreRefusal(snap, x) ==
  CASE snap.version # 1 \/ snap.series # x    -> "IncompatibleSnapshot"
    [] snap.version = 1 /\ snap.series = x
       /\ ~WithinReplayLimits(snap.history)   -> "LimitExceeded"
    [] snap.version = 1 /\ snap.series = x /\ WithinReplayLimits(snap.history)
       /\ snap.checksum # <<snap.version, snap.series, snap.history>>
                                              -> "CorruptSnapshot"
    [] OTHER                                  -> "Ok"

(* Mutant: the replay looks from the last emission, not its availability. *)
ReplayTime_Emission(history) == IF history = <<>> THEN 1 ELSE Last(history).at

(* The time a replay looks from: that of the last sample, not those the *)
(* samples were fed at.                                                 *)
ReplayTime(history) == IF history = <<>> THEN 1 ELSE Last(history).available

-----------------------------------------------------------------------------
(* The owner's calls                                                       *)

Init == stream = NoStream /\ vault = {} /\ restore = Idle /\ reply = "Ok"

Create(x) ==
  /\ ~Running /\ ~Replaying
  /\ stream' = New(x)
  /\ reply' = "Ok"
  /\ UNCHANGED <<vault, restore>>

Update(sample, asOf) ==
  /\ Running
  /\ Refusal(stream, sample, asOf) = "Ok"
  /\ stream' = Consume(stream, sample)
  /\ reply' = "Ok"
  /\ UNCHANGED <<vault, restore>>

UpdateRefused(sample, asOf) ==
  /\ Running
  /\ Refusal(stream, sample, asOf) # "Ok"
  /\ reply' = Refusal(stream, sample, asOf)
  /\ UNCHANGED <<stream, vault, restore>>

(* The second checkpoint finds the call cancelled or late. *)
UpdateStopped(sample, asOf) ==
  /\ Running
  /\ Refusal(stream, sample, asOf) = "Ok"
  /\ stream' = AfterStop(stream, sample)
  /\ reply' = "Stopped"
  /\ UNCHANGED <<vault, restore>>

Reset ==
  /\ Running
  /\ stream' = New(stream.series)
  /\ reply' = "Ok"
  /\ UNCHANGED <<vault, restore>>

TakeSnapshot ==
  /\ Running
  /\ vault' = vault \cup {[snapshot |-> SnapshotOf(stream), of |-> stream]}
  /\ reply' = "Ok"
  /\ UNCHANGED <<stream, restore>>

Drop ==
  /\ Running
  /\ stream' = NoStream
  /\ reply' = "Ok"
  /\ UNCHANGED <<vault, restore>>

(* The checks of restore_controlled, and the new stream to replay into. *)
Restore(entry, x) ==
  /\ ~Running /\ ~Replaying
  /\ LET refusal == RestoreRefusal(entry.snapshot, x)
     IN  /\ restore' = IF refusal = "Ok" THEN [entry |-> entry, result |-> New(x)] ELSE Idle
         /\ reply' = refusal
  /\ UNCHANGED <<stream, vault>>

Pending    == restore.entry.snapshot.history
NextSample == Pending[Len(restore.result.history) + 1]
Unfinished == Len(restore.result.history) < Len(Pending)

ReplaySample ==
  /\ Replaying /\ Unfinished
  /\ LET refusal == Refusal(restore.result, NextSample, ReplayTime(Pending))
     IN  /\ restore' = IF refusal = "Ok"
                       THEN [restore EXCEPT !.result = Consume(@, NextSample)] ELSE Idle
         /\ reply' = refusal
  /\ UNCHANGED <<stream, vault>>

(* Either checkpoint of a replayed sample. *)
ReplayStopped ==
  /\ Replaying /\ Unfinished
  /\ restore' = Idle
  /\ reply' = "Stopped"
  /\ UNCHANGED <<stream, vault>>

Restored ==
  /\ Replaying /\ ~Unfinished
  /\ stream' = restore.result
  /\ restore' = Idle
  /\ reply' = "Ok"
  /\ UNCHANGED vault

(* External: a stored snapshot is damaged: another's history, or series, or *)
(* the version of another build ends up in it.                              *)
Damage(entry, other) ==
  LET snap == entry.snapshot
  IN  \E damaged \in {[snap EXCEPT !.history = other.snapshot.history],
                      [snap EXCEPT !.series = other.snapshot.series],
                      [snap EXCEPT !.version = 0]} :
        /\ ~Replaying
        /\ vault' = (vault \ {entry}) \cup {[entry EXCEPT !.snapshot = damaged]}
        /\ UNCHANGED <<stream, restore, reply>>

Next ==
  \/ \E x \in Series : Create(x)
  \/ Running /\ \E sample \in Offers, asOf \in Time :
       Update(sample, asOf) \/ UpdateRefused(sample, asOf) \/ UpdateStopped(sample, asOf)
  \/ Reset
  \/ TakeSnapshot
  \/ Drop
  \/ \E entry \in vault, x \in Series : Restore(entry, x)
  \/ ReplaySample
  \/ ReplayStopped
  \/ Restored
  \/ \E entry \in vault, other \in vault : Damage(entry, other)

Spec == Init /\ [][Next]_vars

-----------------------------------------------------------------------------
(* Properties                                                              *)

(* The runner has consumed the history and nothing else, whatever calls were  *)
(* refused or stopped on the way; the retained bytes are the history's, the   *)
(* latest row describes all of it - what a snapshot saves is all there is -   *)
(* and a live one is within its caps ("at most 4096 samples, 4 MiB").         *)
HistoryIsWhole(s) ==
  /\ s.runner = [i \in DOMAIN s.history |-> s.history[i].value]
  /\ s.bytes = Retained(s.history)
  /\ s.latest = IF s.history = <<>> THEN NoRow
                ELSE [at |-> Last(s.history).at, available |-> Last(s.history).available,
                      seen |-> Len(s.history), status |-> RowStatus(s.runner)]

HistoryIsAll ==
  /\ Running => /\ HistoryIsWhole(stream)
                /\ Len(stream.history) <= MaxSamples /\ stream.bytes <= MaxBytes
  /\ Replaying => HistoryIsWhole(restore.result)

(* A snapshot that has passed the checks is replayed to its end: although   *)
(* all samples are now seen from the last one's time, and counted in other  *)
(* units than the checks did, update refuses none of them.                  *)
ReplayNeverRefuses ==
  Replaying /\ Unfinished
    => Refusal(restore.result, NextSample, ReplayTime(Pending)) = "Ok"

(* What is restored is the stream the snapshot was taken of - its runner, its *)
(* byte count and its latest row - whatever was damaged where it was stored.   *)
RestoresExactly == [][Restored => stream' = restore.entry.of]_vars

(* The time an owner sees of a stream is that of its latest row. *)
AsBars(history) ==
  [i \in DOMAIN history |->
     [bar |-> [closed |-> history[i].at, available |-> history[i].available]]]

Promise == INSTANCE SeriesLog WITH
  Event  <- [bar: [closed: Time, available: Time]],
  open   <- Running,
  log    <- IF Running THEN AsBars(stream.history) ELSE <<>>,
  report <- IF Running THEN <<stream.latest.seen, stream.latest.at, stream.latest.available>>
                       ELSE <<0, 0, 0>>,
  saved  <- {AsBars(e.of.history) : e \in vault}

(* A stream over a replayed history keeps the promise of the native engine's *)
(* stream: an append-only log that can be saved and gone on from.            *)
ImplementsSeriesLog == Promise!Spec

(* "Restoring checks the version, identity, configuration and checksum, then  *)
(* replays along the same path; the history is limited to 4096 samples, 4 MiB *)
(* ... at the limit it refuses to extend" (reference-all-v1.md): a stream     *)
(* that update let grow to here can be restored from its snapshot.            *)
SnapshotsRestore ==
  Running => RestoreRefusal(SnapshotOf(stream), stream.series) = "Ok"

-----------------------------------------------------------------------------
(* The inductive invariant behind the properties above.                    *)

Snapshot == [version: {0, 1}, series: Series, history: Seq(Sample),
             checksum: {1} \X Series \X Seq(Sample)]

(* The first n payloads of a history: the runner that consumed as much. *)
RunnerAt(history, n) == [i \in 1 .. n |-> history[i].value]

(* Its samples are chronological, and each was taken after those before it. *)
Admissible(history) ==
  /\ \A i \in 1 .. Len(history) :
       /\ history[i].at > 0 /\ history[i].available >= history[i].at
       /\ history[i].value \notin Malformed
       /\ Takes(RunnerAt(history, i - 1), history[i].value)
  /\ \A i, j \in 1 .. Len(history) :
       i < j => /\ history[i].at < history[j].at
                /\ history[i].available <= history[j].available

Sound(s) ==
  /\ s \in Stream
  /\ HistoryIsWhole(s)
  /\ Admissible(s.history)
  /\ Len(s.history) <= MaxSamples /\ s.bytes <= MaxBytes

(* A snapshot, damaged or not, carries the checksum of the stream it was taken of. *)
Sealed(e) ==
  /\ e \in [snapshot: Snapshot, of: Stream]
  /\ Sound(e.of)
  /\ e.snapshot.checksum = <<1, e.of.series, e.of.history>>

(* A restore has passed the checks and replayed a prefix of the history. *)
ReplayInv ==
  /\ restore \in [entry: vault, result: Stream]
  /\ Sound(restore.result)
  /\ RestoreRefusal(restore.entry.snapshot, restore.result.series) = "Ok"
  /\ Len(restore.result.history) <= Len(Pending)
  /\ \A i \in 1 .. Len(restore.result.history) : restore.result.history[i] = Pending[i]

StreamInv ==
  /\ \A e \in vault : Sealed(e)
  /\ Running => Sound(stream) /\ ~Replaying
  /\ Replaying => ReplayInv
=============================================================================
