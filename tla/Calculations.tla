---------------------------- MODULE Calculations ----------------------------
(***************************************************************************)
(* The calculations the tools of the server run and the reader their       *)
(* requests come through.  They are functions of a request and share no    *)
(* state - that they run two at a time and are stopped is Gateway's - so   *)
(* one is under way at a time, and whatever was before it is gone.         *)
(***************************************************************************)
EXTENDS EngineBatch, NativeBatch, TemporalSplit, EventSample, Framing

EngineQuiet == ~Working /\ answer = Refused("none")
SampleQuiet == NothingToSample /\ artifacts = <<>>

CalcInit == Init /\ NativeInit /\ SplitInit /\ SampleInit /\ FramingInit

EngineStep ==
  /\ NothingNative /\ NothingToSplit /\ SampleQuiet /\ NoClient
  /\ Next /\ UNCHANGED <<nativeVars, splitVars, sampleVars, framingVars>>

NativeStep ==
  /\ EngineQuiet /\ NothingToSplit /\ SampleQuiet /\ NoClient
  /\ NativeNext /\ UNCHANGED <<vars, splitVars, sampleVars, framingVars>>

SplitStep ==
  /\ EngineQuiet /\ NothingNative /\ SampleQuiet /\ NoClient
  /\ SplitNext /\ UNCHANGED <<vars, nativeVars, sampleVars, framingVars>>

SampleStep ==
  /\ EngineQuiet /\ NothingNative /\ NothingToSplit /\ NoClient
  /\ SampleNext /\ UNCHANGED <<vars, nativeVars, splitVars, framingVars>>

FramingStep ==
  /\ EngineQuiet /\ NothingNative /\ NothingToSplit /\ SampleQuiet
  /\ FramingNext /\ UNCHANGED <<vars, nativeVars, splitVars, sampleVars>>

CalcNext == EngineStep \/ NativeStep \/ SplitStep \/ SampleStep \/ FramingStep

CalcSpec ==
  CalcInit /\ [][CalcNext]_<<vars, nativeVars, splitVars, sampleVars, framingVars>>
=============================================================================
