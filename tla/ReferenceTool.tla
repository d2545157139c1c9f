---------------------------- MODULE ReferenceTool ----------------------------
(***************************************************************************)
(* The tools over a reference stream (roze-ta-mcp/src/reference.rs), each  *)
(* an owner of one for the length of a call.  reference_stream restores    *)
(* the stream of a snapshot the caller hands in, works on it and answers   *)
(* with the snapshot it then has; reference_calculate feeds a new stream   *)
(* and answers its rows.  A call that fails or is stopped answers nothing. *)
(***************************************************************************)
EXTENDS ReferenceStream

CONSTANT Lists  \* the samples callers hand in

ASSUME ToolAssumption == Lists \subseteq Seq(Sample)

VARIABLE call  \* the call in progress, or NoCall: what it asks for and how far it is

toolVars == <<vars, call>>

NoCall  == [action |-> "none"]
Serving == call # NoCall

NoEntry == [snapshot |-> "none"]  \* of a call that begins with a new stream

(* A call that works on the stream of an entry, once this is restored. *)
CallOf(action, entry, asOf, samples) ==
  [action |-> action, entry |-> entry, asOf |-> asOf, samples |-> samples, done |-> 0,
   pc |-> "work"]

CallCreate(x) == Create(x) /\ call' = CallOf("create", NoEntry, 0, <<>>)

Refuse(code) == reply' = code /\ UNCHANGED <<stream, vault, restore, call>>

(* Mutant: the last sample is looked at by its emission. *)
Foreseen_Emission(snap, asOf) == snap.history # <<>> /\ Last(snap.history).at > asOf

(* The snapshot holds a sample that is not available yet. *)
Foreseen(snap, asOf) == snap.history # <<>> /\ Last(snap.history).available > asOf

(* The snapshot is not verified yet when an advance looks at its last sample. *)
CallRestore(action, entry, x, asOf, samples) ==
  LET foreseen == action = "advance" /\ Foreseen(entry.snapshot, asOf)
      tooMany  == Len(samples) > MaxSamples
  IN  /\ ~Running /\ ~Replaying
      /\ \/ foreseen /\ Refuse("InvalidTime")
         \/ ~foreseen /\ tooMany /\ Refuse("LimitExceeded")
         \/ /\ ~foreseen /\ ~tooMany
            /\ Restore(entry, x)
            /\ call' = IF RestoreRefusal(entry.snapshot, x) = "Ok"
                       THEN CallOf(action, entry, asOf, samples) ELSE NoCall

Calculable(samples) == samples # <<>> /\ WithinReplayLimits(samples)

CallCalculate(x, asOf, samples) ==
  IF Calculable(samples)
  THEN Create(x) /\ call' = CallOf("calculate", NoEntry, asOf, samples)
  ELSE ~Running /\ ~Replaying /\ Refuse("LimitExceeded")

(* The replay of the snapshot; a refusal or a checkpoint ends the call. *)
ServeReplay ==
  \/ (ReplaySample \/ ReplayStopped) /\ call' = IF restore' = Idle THEN NoCall ELSE call
  \/ Restored /\ UNCHANGED call

Working    == Running /\ call.pc = "work"
NextOfCall == call.samples[call.done + 1]

(* The call ends without an answer; its stream is dropped. *)
Abandon(code) ==
  /\ stream' = NoStream /\ call' = NoCall
  /\ reply' = code
  /\ UNCHANGED <<vault, restore>>

ServeUpdate ==
  /\ Working /\ call.done < Len(call.samples)
  /\ \/ Update(NextOfCall, call.asOf) /\ call' = [call EXCEPT !.done = @ + 1]
     \/ /\ Refusal(stream, NextOfCall, call.asOf) # "Ok"
        /\ Abandon(Refusal(stream, NextOfCall, call.asOf))

(* The rows of a calculation, after one more, exceed what they may be. *)
ServeTooLong ==
  Working /\ call.action = "calculate" /\ call.done > 0 /\ Abandon("LimitExceeded")

ServeReset == Working /\ call.action = "reset" /\ Reset /\ call' = [call EXCEPT !.pc = "answer"]

(* A checkpoint, of the tool or of an update, finds the call cancelled or *)
(* late.  A calculation has none after its last sample.                   *)
ServeStopped ==
  /\ Running /\ call.pc # "answered"
  /\ call.action = "calculate" => call.done < Len(call.samples)
  /\ Abandon("Stopped")

ServeAnswer ==
  /\ Running
  /\ \/ call.pc = "answer"
     \/ call.pc = "work" /\ call.action # "reset" /\ call.done = Len(call.samples)
  /\ IF call.action = "calculate" THEN reply' = "Ok" /\ UNCHANGED <<stream, vault, restore>>
                                  ELSE TakeSnapshot
  /\ call' = [call EXCEPT !.pc = "answered"]

(* The caller keeps what it was answered; the stream ends with the call. *)
ServeEnd == Running /\ call.pc = "answered" /\ Drop /\ call' = NoCall

ToolInit == Init /\ call = NoCall

ToolNext ==
  \/ ~Serving /\ Next /\ UNCHANGED call
  \/ ~Serving /\ \E x \in Series : CallCreate(x)
  \/ ~Serving /\ \E entry \in vault, x \in Series, asOf \in Time, samples \in Lists :
       CallRestore("advance", entry, x, asOf, samples)
  \/ ~Serving /\ \E entry \in vault, x \in Series, action \in {"inspect", "reset"} :
       CallRestore(action, entry, x, 0, <<>>)
  \/ ~Serving /\ \E x \in Series, asOf \in Time, samples \in Lists :
       CallCalculate(x, asOf, samples)
  \/ Serving /\ ServeReplay
  \/ Serving /\ ServeUpdate
  \/ Serving /\ ServeTooLong
  \/ Serving /\ ServeReset
  \/ Serving /\ ServeStopped
  \/ Serving /\ ServeAnswer
  \/ Serving /\ ServeEnd

ToolSpec == ToolInit /\ [][ToolNext]_toolVars

-----------------------------------------------------------------------------
(* Properties                                                              *)

(* What a call answers is of the stream its snapshot was taken of, however    *)
(* that was stored, or of a new one: advanced by all samples of the call,     *)
(* untouched or empty, as asked; and one that looks from as_of_ms answers     *)
(* nothing that was not available then, even if it brings no new sample.      *)
AnswersAsOf ==
  Serving /\ call.pc = "answered" =>
    /\ call.action = "advance" => stream.series = call.entry.of.series
    /\ call.action \in {"advance", "calculate"} =>
         /\ stream.history = (IF call.action = "advance" THEN call.entry.of.history ELSE <<>>)
                               \o call.samples
         /\ \A i \in DOMAIN stream.history : stream.history[i].available <= call.asOf
    /\ call.action = "inspect" => stream = call.entry.of
    /\ call.action = "reset"   => stream = New(call.entry.of.series)
    /\ call.action = "create"  => stream = New(stream.series)

-----------------------------------------------------------------------------
(* The inductive invariant behind it.                                      *)

Call == [action: {"create", "advance", "inspect", "reset", "calculate"},
         entry: [snapshot: Snapshot, of: Stream] \cup {NoEntry}, asOf: Time,
         samples: Seq(Sample), done: Nat, pc: {"work", "answer", "answered"}]

(* The call works on a stream that a snapshot stands for, or on a new one. *)
Restores(c) == c.action \in {"advance", "inspect", "reset"}
Base(c)     == IF Restores(c) THEN c.entry.of.history ELSE <<>>

(* The history is what the call began with and the first n of its samples. *)
Follows(history, c, n) ==
  /\ Len(history) = Len(Base(c)) + n
  /\ \A i \in 1 .. Len(Base(c)) : history[i] = Base(c)[i]
  /\ \A i \in 1 .. n : history[Len(Base(c)) + i] = c.samples[i]

Known(history, asOf) == \A i \in 1 .. Len(history) : history[i].available <= asOf

(* A call at work. *)
WorkInv(c, s) ==
  /\ c.done <= Len(c.samples)
  /\ Restores(c) => s.series = c.entry.of.series
  /\ Follows(s.history, c, c.done)
  /\ c.action \in {"advance", "calculate"} => Known(s.history, c.asOf)
  /\ c.action = "inspect" => s = c.entry.of
  /\ c.action = "create"  => s = New(s.series)
  /\ c.action \in {"create", "inspect", "reset"} => c.samples = <<>>

CallInv ==
  /\ call \in Call
  /\ Restores(call) => Sealed(call.entry)
  /\ Replaying => /\ Restores(call) /\ restore.entry = call.entry
                  /\ call.pc = "work" /\ call.done = 0
                  /\ call.action = "advance" => ~Foreseen(call.entry.snapshot, call.asOf)
                  /\ call.action \in {"inspect", "reset"} => call.samples = <<>>
  /\ Running /\ call.pc = "work" => WorkInv(call, stream)
  /\ call.pc = "answer" => call.action = "reset" /\ stream = New(call.entry.of.series)
  /\ ~Replaying => Running

ToolInv == StreamInv /\ (Serving => CallInv /\ AnswersAsOf)
=============================================================================
