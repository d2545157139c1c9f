---------------------------- MODULE EngineStream ----------------------------
(***************************************************************************)
(* The native incremental engine (engine/mod.rs): one live Stream in a     *)
(* process and the snapshots its owner keeps outside of it.  The owner     *)
(* feeds bars, takes snapshots, resets, loses the process, and restores    *)
(* any snapshot it still holds, under any identity and profile, as often   *)
(* as it likes; a snapshot may be damaged where it is stored.              *)
(***************************************************************************)
EXTENDS StreamState

VARIABLES
  stream,  \* the live Stream's State, or NoStream
  vault,   \* the snapshots kept outside the process
  reply,   \* the result of the last call
  owner,   \* history: the series the owner believes the live stream is
  log      \* history: what the live stream consumed, and as part of which series

vars == <<stream, vault, reply, owner, log>>

NoStream == [profile |-> "none"]

-----------------------------------------------------------------------------
(* The owner's calls                                                       *)

Running == stream # NoStream

Init ==
  /\ stream = NoStream
  /\ vault = {}
  /\ reply = "Ok"
  /\ owner = <<>>
  /\ log = <<>>

Create(id, p) ==
  /\ ~Running
  /\ stream' = NewStream(id, p)
  /\ owner' = <<id, p>>
  /\ reply' = "Ok"
  /\ UNCHANGED <<vault, log>>

Update(bar, asOf) ==
  /\ Running
  /\ Acceptable(bar, asOf, stream)
  /\ stream' = Consume(stream, bar)
  /\ log' = Append(log, [series |-> owner, bar |-> bar])
  /\ reply' = "Ok"
  /\ UNCHANGED <<vault, owner>>

UpdateRefused(bar, asOf) ==
  /\ Running
  /\ ~Acceptable(bar, asOf, stream)
  /\ reply' = Refusal(bar, asOf, stream)
  /\ UNCHANGED <<stream, vault, owner, log>>

UpdateFails(bar, asOf) ==
  /\ Running
  /\ Acceptable(bar, asOf, stream)
  /\ stream' = AfterFailure(stream, bar)
  /\ reply' = "UpstreamFailure"
  /\ UNCHANGED <<vault, owner, log>>

(* reset forgets the bars, and with them the last close: an older bar may follow. *)
Reset ==
  /\ Running
  /\ stream' = NewStream(stream.identity, stream.profile)
  /\ log' = <<>>
  /\ reply' = "Ok"
  /\ UNCHANGED <<vault, owner>>

TakeSnapshot ==
  /\ Running
  /\ vault' = vault \cup {[snapshot |-> SnapshotOf(stream), log |-> log]}
  /\ reply' = "Ok"
  /\ UNCHANGED <<stream, owner, log>>

(* The process ends, or the owner drops its handle. *)
Crash ==
  /\ Running
  /\ stream' = NoStream
  /\ owner' = <<>>
  /\ log' = <<>>
  /\ reply' = "Ok"
  /\ UNCHANGED vault

Restore(entry, id, p) ==
  /\ ~Running
  /\ Restorable(entry.snapshot, id, p)
  /\ stream' = entry.snapshot.payload
  /\ owner' = <<id, p>>
  /\ log' = entry.log
  /\ reply' = "Ok"
  /\ UNCHANGED vault

RestoreRefused(entry, id, p) ==
  /\ ~Running
  /\ ~Restorable(entry.snapshot, id, p)
  /\ reply' = IF Compatible(entry.snapshot, p) THEN "CorruptSnapshot"
                                               ELSE "IncompatibleSnapshot"
  /\ UNCHANGED <<stream, vault, owner, log>>

(* External: a stored snapshot is damaged.  Another state's payload or hash *)
(* ends up in it, or the version of another build.                          *)
Damage(entry, other) ==
  LET snap == entry.snapshot
  IN  \E damaged \in {[snap EXCEPT !.payload = other.snapshot.payload],
                      [snap EXCEPT !.hash = other.snapshot.hash],
                      [snap EXCEPT !.version = 0]} :
        /\ vault' = (vault \ {entry}) \cup {[entry EXCEPT !.snapshot = damaged]}
        /\ UNCHANGED <<stream, reply, owner, log>>

Next ==
  \/ \E id \in Identities, p \in Profiles : Create(id, p)
  \/ \E bar \in Bar, asOf \in Time : Update(bar, asOf)
  \/ \E bar \in Bar, asOf \in Time : UpdateRefused(bar, asOf)
  \/ \E bar \in Bar, asOf \in Time : UpdateFails(bar, asOf)
  \/ Reset
  \/ TakeSnapshot
  \/ Crash
  \/ \E entry \in vault, id \in Identities, p \in Profiles : Restore(entry, id, p)
  \/ \E entry \in vault, id \in Identities, p \in Profiles : RestoreRefused(entry, id, p)
  \/ \E entry \in vault, other \in vault : Damage(entry, other)

Spec == Init /\ [][Next]_vars
-----------------------------------------------------------------------------
(* Properties                                                              *)

Replies == {"Ok", "InvalidTime", "DuplicateOrUnorderedBar", "InvalidBar", "LimitExceeded",
            "UpstreamFailure", "CorruptSnapshot", "IncompatibleSnapshot"}

(* Every variable has its shape: the live stream is a State and the log a    *)
(* sequence of fed bars (struct State, engine/mod.rs).                       *)
TypeOK ==
  /\ stream \in State \cup {NoStream}
  /\ owner \in {<<>>} \cup (Identities \X Profiles)
  /\ log \in Seq(Entry)
  /\ reply \in Replies
  /\ vault \subseteq [snapshot: Snapshot, log: Seq(Entry)]

(* Whatever calls failed, panicked, reset, crashed, or restored a snapshot on *)
(* the way, the live state - kernel, counters and latest row - is the one a   *)
(* new stream reaches by consuming the logged bars and nothing else, so a     *)
(* bar is never lost, applied twice or half applied.                          *)
StateIsReplay ==
  Running => stream = Replay(stream.identity, stream.profile, log)

(* No history makes one stream consume bars of two series: every bar in the  *)
(* log was fed under the identity and the profile the state itself carries.  *)
OneSeries ==
  Running => \A i \in DOMAIN log : log[i].series = <<stream.identity, stream.profile>>

(* Along the log closes strictly increase and availability never goes back,  *)
(* also across snapshots: a bar already consumed before the snapshot was     *)
(* taken is refused after restoring it.                                      *)
Chronological ==
  \A i \in 1 .. Len(log) - 1 :
    /\ log[i].bar.closed < log[i + 1].bar.closed
    /\ log[i].bar.available <= log[i + 1].bar.available

(* valid_for and the metadata checks of restore never refuse a state that a  *)
(* stream can be in: a snapshot taken now can be restored, by its own        *)
(* identity and profile, after any history.                                  *)
LiveStateRestorable ==
  Running => Restorable(SnapshotOf(stream), stream.identity, stream.profile)

(* The u64 counter cannot run out: it is bounded by the last close, so the   *)
(* checked_add of update never fails on an i64 clock.                        *)
SamplesBoundedByClock ==
  Running => stream.samples <= stream.closed

(* What the owner is shown of the live stream: its latest row. *)
Report ==
  IF Running THEN <<stream.latest.samples, stream.latest.closed, stream.latest.available>>
             ELSE <<0, 0, 0>>

Promise == INSTANCE SeriesLog WITH
  Event  <- Entry,
  open   <- Running,
  report <- Report,
  saved  <- {e.log : e \in vault}

(* The engine implements the append-only log of strictly later bars: every *)
(* call extends the log, clears it, saves it or goes on from a saved one,  *)
(* or changes nothing, and the latest row always describes the whole log.  *)
ImplementsSeriesLog == Promise!Spec

-----------------------------------------------------------------------------
(* The inductive invariant behind the state properties above.              *)

Inv ==
  /\ TypeOK
  /\ Running => Linked(stream, log) /\ owner = <<stream.identity, stream.profile>>
  /\ ~Running => log = <<>>
  /\ \A e \in vault : Sealed(e)
=============================================================================
