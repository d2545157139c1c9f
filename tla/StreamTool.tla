----------------------------- MODULE StreamTool -----------------------------
(***************************************************************************)
(* The indicator_stream tool (roze-ta-mcp/src/stream.rs).  The server      *)
(* keeps no session: a call carries a snapshot its caller owns, and the    *)
(* answer carries the next one.  Callers may send any snapshot they ever   *)
(* received - an old one, the same one twice, a damaged one - under any    *)
(* identity and profile, and may lose an answer and ask again.  A call is  *)
(* cut into the steps between its checkpoints; at each of them it may be   *)
(* stopped by its token or its deadline.                                   *)
(***************************************************************************)
EXTENDS StreamState

CONSTANTS
  Offers,   \* the sequences of bars callers submit
  MaxBars,  \* catalog::MAX_BARS
  MaxState  \* MAX_STATE_JSON_BYTES, in entries of a kernel's window

ASSUME ToolAssumption ==
  /\ Offers \subseteq Seq(Bar)
  /\ MaxBars \in Nat /\ MaxState \in Nat

VARIABLES
  vault,  \* the snapshots callers hold, each with the log it stands for
  call,   \* the call the worker is in, or Idle: its request, the state and the
          \* rows so far, the bar a loop is at, the locals of the preflight
          \* (closed, available), and as histories the log of the state and
          \* that of the snapshot it came with (base)
  reply   \* the code of the last response

vars == <<vault, call, reply>>

Idle    == [pc |-> "idle"]
Working == call # Idle

(* A request, less the snapshot it carries; its schema version and identity *)
(* are valid ones and its profile is registered.  Inspect and reset take    *)
(* neither bars nor an output mode.                                         *)
Output == {"latest", "series"}

Creates   == [action: {"create"}, id: Identities, profile: Profiles, asOf: Time,
              output: Output, bars: Offers]
Continues == [action: {"advance"}, id: Identities, profile: Profiles, asOf: Time,
              output: Output, bars: Offers]
        \cup [action: {"inspect", "reset"}, id: Identities, profile: Profiles, asOf: Time,
              output: {"latest"}, bars: {<<>>}]

Request == Creates \cup Continues

(* check_state_size: only windows make a state larger than another. *)
StateFits(s) == s.kernel.kind \in {"vwma", "williams"} => Len(s.kernel.window) <= MaxState

-----------------------------------------------------------------------------
(* The first segment: everything that can be refused without a bar.        *)

(* The refusals before a state is at hand, in the code's order. *)
RequestRefusal(req) ==
  CASE req.asOf <= 0                                 -> "InvalidTime"
    [] Len(req.bars) > MaxBars                       -> "LimitExceeded"
    [] req.action = "advance" /\ req.bars = <<>>     -> "InvalidParameter"
    [] OTHER                                         -> "Ok"

SnapshotRefusal(req, snap) ==
  CASE ~StateFits(snap.payload)                      -> "LimitExceeded"
    [] ~Compatible(snap, req.profile)                -> "IncompatibleSnapshot"
    [] ~Intact(snap, req.id, req.profile)            -> "CorruptSnapshot"
    [] OTHER                                         -> "Ok"

Begin(req, verdict, start, log) ==
  /\ IF verdict = "Ok"
     THEN /\ call' = [pc |-> "vet", req |-> req, s |-> start, log |-> log, base |-> log,
                      next |-> 1, closed |-> start.closed, available |-> start.available,
                      rows |-> <<>>]
          /\ UNCHANGED reply
     ELSE reply' = verdict /\ UNCHANGED call
  /\ UNCHANGED vault

Create ==
  /\ ~Working
  /\ \E req \in Creates :
       Begin(req, RequestRefusal(req), NewStream(req.id, req.profile), <<>>)

(* External: what callers send as a snapshot: one they hold, as it was or *)
(* with another's payload or hash, or another build's version, in it.     *)
Sent(e) ==
  {e} \cup {[e EXCEPT !.snapshot.payload = other.snapshot.payload] : other \in vault}
      \cup {[e EXCEPT !.snapshot.hash = other.snapshot.hash] : other \in vault}
      \cup {[e EXCEPT !.snapshot.version = 0]}

(* Advance, inspect or reset. *)
Continue ==
  /\ ~Working
  /\ \E e \in vault : \E sent \in Sent(e), req \in Continues :
       Begin(req,
             IF RequestRefusal(req) # "Ok" THEN RequestRefusal(req)
                                          ELSE SnapshotRefusal(req, sent.snapshot),
             sent.snapshot.payload, sent.log)

-----------------------------------------------------------------------------
(* The later segments                                                      *)

Fail(code) ==
  /\ call' = Idle
  /\ reply' = code
  /\ UNCHANGED vault

GoOn(next) ==
  /\ call' = next
  /\ UNCHANGED <<vault, reply>>

(* Mutant: reset clears what the metadata checks look at, not the kernel. *)
AfterReset_KeepsKernel(c) ==
  IF c.req.action = "reset"
  THEN [c EXCEPT !.s = [NewStream(c.s.identity, c.s.profile) EXCEPT !.kernel = c.s.kernel],
                 !.log = <<>>, !.base = <<>>]
  ELSE c

(* stream.reset(), if the action asks for it; such a call has no bars. *)
AfterReset(c) ==
  IF c.req.action = "reset"
  THEN [c EXCEPT !.s = NewStream(c.s.identity, c.s.profile), !.log = <<>>, !.base = <<>>]
  ELSE c

(* Mutant: the latest row is appended to a series, too. *)
AfterBars_AlwaysLatest(c) ==
  [c EXCEPT !.pc   = "encode",
            !.rows = IF c.s.samples > 0 THEN Append(@, c.s.latest) ELSE @]

(* Leaving the update loop: latest output is the stream's latest row, if any. *)
AfterBars(c) ==
  [c EXCEPT !.pc   = "encode",
            !.rows = IF c.req.output = "latest" /\ c.s.samples > 0
                     THEN Append(@, c.s.latest) ELSE @]

(* Mutant: the snapshot's time is not looked at. *)
Vet_AnyTime ==
  /\ Working /\ call.pc = "vet"
  /\ GoOn(IF call.req.bars = <<>> THEN AfterBars(AfterReset(call))
                                  ELSE [call EXCEPT !.pc = "preflight"])
(* A snapshot from the future of this call is refused. *)
Vet ==
  /\ Working /\ call.pc = "vet"
  /\ IF call.s.samples > 0 /\ call.s.available > call.req.asOf
     THEN Fail("InvalidTime")
     ELSE GoOn(IF call.req.bars = <<>> THEN AfterBars(AfterReset(call))
                                       ELSE [call EXCEPT !.pc = "preflight"])

(* Mutant: every bar is validated against the snapshot alone. *)
Preflight_SnapshotOnly ==
  LET bar == call.req.bars[call.next]
  IN  /\ Working /\ call.pc = "preflight"
      /\ IF ~(TimeOk(bar, call.req.asOf) /\ InOrder(bar, call.s) /\ ValidCandle(bar.candle))
         THEN Fail(Refusal(bar, call.req.asOf, call.s))
         ELSE GoOn(IF call.next < Len(call.req.bars)
                   THEN [call EXCEPT !.next = @ + 1]
                   ELSE [call EXCEPT !.pc = "update", !.next = 1])

(* One round of the preflight loop: the bar is validated against the locals. *)
Preflight ==
  LET bar  == call.req.bars[call.next]
      last == [call.s EXCEPT !.closed = call.closed, !.available = call.available]
      seen == [call EXCEPT !.closed = bar.closed, !.available = bar.available]
  IN  /\ Working /\ call.pc = "preflight"
      /\ IF ~(TimeOk(bar, call.req.asOf) /\ InOrder(bar, last) /\ ValidCandle(bar.candle))
         THEN Fail(Refusal(bar, call.req.asOf, last))
         ELSE GoOn(IF call.next < Len(call.req.bars)
                   THEN [seen EXCEPT !.next = @ + 1]
                   ELSE [seen EXCEPT !.pc = "update", !.next = 1])

(* One round of the update loop. *)
Update ==
  LET bar  == call.req.bars[call.next]
      s    == Consume(call.s, bar)
      done == [call EXCEPT !.s    = s,
                           !.log  = Append(@, [series |-> <<call.req.id, call.req.profile>>,
                                               bar |-> bar]),
                           !.rows = IF call.req.output = "series"
                                    THEN Append(@, s.latest) ELSE @]
  IN  /\ Working /\ call.pc = "update"
      /\ IF ~Acceptable(bar, call.req.asOf, call.s)
         THEN Fail(Refusal(bar, call.req.asOf, call.s))
         ELSE GoOn(IF call.next < Len(call.req.bars)
                   THEN [done EXCEPT !.next = @ + 1]
                   ELSE AfterBars(done))

(* The kernel panics or reports an error: the whole call fails. *)
UpdateFails ==
  /\ Working /\ call.pc = "update"
  /\ Fail("UpstreamFailure")

(* Mutant: only a snapshot that comes in is measured. *)
Encode_Unmeasured ==
  /\ Working /\ call.pc = "encode"
  /\ GoOn([call EXCEPT !.pc = "respond"])

Encode ==
  /\ Working /\ call.pc = "encode"
  /\ IF StateFits(call.s) THEN GoOn([call EXCEPT !.pc = "respond"])
                          ELSE Fail("LimitExceeded")

(* The response: rows, latest row and snapshot of call.s.  The snapshot *)
(* reaches the caller, or the answer is lost.                           *)
Respond ==
  /\ Working /\ call.pc = "respond"
  /\ vault' \in {vault, vault \cup {[snapshot |-> SnapshotOf(call.s), log |-> call.log]}}
  /\ reply' = "Ok"
  /\ call' = Idle

(* Any checkpoint may find the token cancelled or the deadline passed. *)
Stop ==
  /\ Working
  /\ \E code \in {"Cancelled", "TimedOut"} : Fail(code)

-----------------------------------------------------------------------------

Init == vault = {} /\ call = Idle /\ reply = "Ok"

Next ==
  \/ Create
  \/ Continue
  \/ Vet
  \/ Preflight
  \/ Update
  \/ UpdateFails
  \/ Encode
  \/ Respond
  \/ Stop

Spec == Init /\ [][Next]_vars
-----------------------------------------------------------------------------
(* Properties                                                              *)

(* Cutting a history into calls makes no difference: whatever snapshots were  *)
(* advanced, reset, forked, asked for twice or stopped half-way, each one a   *)
(* caller received holds the state of one stream that consumed its whole log  *)
(* ("the same request can be replayed with the same result", mcp.md).         *)
SnapshotsAreReplays ==
  \A e \in vault :
    LET s == e.snapshot.payload IN s = Replay(s.identity, s.profile, e.log)

(* "All bars are validated first": once the updates of a call begin, none of *)
(* its bars is refused, so a bad bar never costs the work of good ones.      *)
PreflightSuffices ==
  Working /\ call.pc = "update"
    => Acceptable(call.req.bars[call.next], call.req.asOf, call.s)

(* The answer covers the whole request: every bar was consumed on top of the *)
(* caller's snapshot, series rows are those bars' in order, and a latest     *)
(* answer has one row, or none when the state is empty.                      *)
AnswersWhole ==
  Working /\ call.pc = "respond" =>
    LET before == Len(call.base)
        bars   == call.req.bars
    IN  /\ call.s.samples = before + Len(bars)
        /\ SubSeq(call.log, 1, before) = call.base
        /\ \A i \in DOMAIN bars : call.log[before + i].bar = bars[i]
        /\ IF call.req.output = "series"
           THEN /\ Len(call.rows) = Len(bars)
                /\ \A i \in DOMAIN bars : /\ call.rows[i].samples = before + i
                                          /\ call.rows[i].closed = bars[i].closed
           ELSE call.rows = IF call.s.samples = 0 THEN <<>> ELSE <<call.s.latest>>

(* No answer tells what was not yet known at its as_of_ms, whatever snapshot *)
(* the call started from ("the snapshot's latest available time must not be  *)
(* later than as_of_ms", mcp.md).                                            *)
NoLookahead ==
  Working /\ call.pc = "respond" =>
    /\ call.s.available <= call.req.asOf
    /\ \A i \in DOMAIN call.rows : call.rows[i].available <= call.req.asOf

(* What the tool hands out it takes back: no caller is left with a snapshot  *)
(* that a later call refuses for its size or as corrupt.                     *)
AnswersResumable ==
  \A e \in vault :
    LET s == e.snapshot.payload
    IN  Restorable(e.snapshot, s.identity, s.profile) /\ StateFits(s)

Tree == INSTANCE ReplayTree WITH
  Event <- Entry,
  known <- {e.log : e \in vault}

(* For its callers every call, in all its steps, is one answer or nothing. *)
ImplementsReplayTree == Tree!Spec

-----------------------------------------------------------------------------
(* The inductive invariant behind the properties above.                    *)

Phases == {"vet", "preflight", "update", "encode", "respond"}

Call == [pc: Phases, req: Request, s: State, log: Seq(Entry), base: Seq(Entry),
         next: Nat, closed: Nat, available: Nat, rows: Seq(Row)]

(* A snapshot a caller received is whole, of a linked state that fits. *)
Held(e) ==
  LET s == e.snapshot.payload
  IN  e.snapshot = SnapshotOf(s) /\ Linked(s, e.log) /\ StateFits(s)

Succeeds(bar, other) == other.closed > bar.closed /\ other.available >= bar.available

(* The first n bars of a call are valid each and chronological. *)
Checked(c, n) ==
  LET bars == c.req.bars
  IN  /\ \A i \in 1 .. n : TimeOk(bars[i], c.req.asOf) /\ ValidCandle(bars[i].candle)
      /\ \A i \in 1 .. n - 1 : Succeeds(bars[i], bars[i + 1])

(* The first n bars of a call are in its log, after what it began with, and *)
(* in its rows when a series is asked for.                                  *)
Consumed(c, n) ==
  /\ Len(c.log) = Len(c.base) + n
  /\ \A i \in 1 .. Len(c.base) : c.log[i] = c.base[i]
  /\ \A i \in 1 .. n : c.log[Len(c.base) + i].bar = c.req.bars[i]
  /\ c.req.output = "series" =>
       /\ Len(c.rows) = n
       /\ \A i \in 1 .. n : /\ c.rows[i].samples = Len(c.base) + i
                            /\ c.rows[i].closed = c.req.bars[i].closed
                            /\ c.rows[i].available <= c.req.asOf

VetInv(c) ==
  /\ Consumed(c, 0) /\ c.rows = <<>>
  /\ c.next = 1 /\ c.closed = c.s.closed /\ c.available = c.s.available

(* The locals hold the times of the last bar that was looked at. *)
PreflightInv(c) ==
  LET bars == c.req.bars
      done == c.next - 1
  IN  /\ c.next \in 1 .. Len(bars)
      /\ Consumed(c, 0) /\ c.rows = <<>>
      /\ Checked(c, done)
      /\ IF done = 0 THEN c.closed = c.s.closed /\ c.available = c.s.available
         ELSE /\ InOrder(bars[1], c.s)
              /\ c.closed = bars[done].closed /\ c.available = bars[done].available

UpdateInv(c) ==
  /\ c.next \in 1 .. Len(c.req.bars)
  /\ Checked(c, Len(c.req.bars))
  /\ Consumed(c, c.next - 1)
  /\ c.req.output = "latest" => c.rows = <<>>
  /\ InOrder(c.req.bars[c.next], c.s)

DoneInv(c) ==
  /\ Consumed(c, Len(c.req.bars))
  /\ c.req.output = "latest" =>
       c.rows = IF c.s.samples = 0 THEN <<>> ELSE <<c.s.latest>>

CallInv(c) ==
  /\ c \in Call
  /\ c.s.identity = c.req.id /\ c.s.profile = c.req.profile
  /\ Linked(c.s, c.log)
  /\ c.pc # "vet"       => c.s.available <= c.req.asOf
  /\ c.pc = "vet"       => VetInv(c)
  /\ c.pc = "preflight" => PreflightInv(c)
  /\ c.pc = "update"    => UpdateInv(c)
  /\ c.pc \in {"encode", "respond"} => DoneInv(c)
  /\ c.pc = "respond"   => StateFits(c.s)

ToolInv ==
  /\ vault \subseteq [snapshot: Snapshot, log: Seq(Entry)]
  /\ \A e \in vault : Held(e)
  /\ Working => CallInv(call) /\ call.base \in {<<>>} \cup {e.log : e \in vault}
=============================================================================
