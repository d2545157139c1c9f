------------------------------- MODULE Kernels -------------------------------
(***************************************************************************)
(* The incremental kernels behind an engine stream (engine/kernel.rs,      *)
(* engine/extensions.rs and the three states of lib.rs): what each keeps   *)
(* between two bars, how one bar moves it on, and the shape a restored     *)
(* kernel must have (valid_for).  One kernel of every shape is here:       *)
(*                                                                         *)
(*   ema.*         a method constructed by the first bar                   *)
(*   rsi.14        a previous close, averages from the second bar on       *)
(*   atr.14        a sample counter of its own beside the stream's         *)
(*   obv           an accumulator over the whole series                    *)
(*   vwma.14, williams_r.14   a window of the last Period bars             *)
(*   alma.9, supertrend.10_3, stoch_rsi.14_14, vortex.14, ulcer.14         *)
(*                 the reference kernels of ReferenceKernels               *)
(*                                                                         *)
(* Prices are small positive integers, so 0 stands for an absent (None)    *)
(* price; smoothing is an integer average, which keeps what the properties *)
(* tell apart: that a kernel depends on every bar it has consumed.         *)
(***************************************************************************)
EXTENDS ReferenceKernels

OwnKinds == {"ema", "rsi", "atr", "obv", "vwma", "williams"}
Kinds    == OwnKinds \cup ReferenceKinds

OwnKernel == [kind: {"ema"}, seeded: BOOLEAN, value: Int]
        \cup [kind: {"rsi"}, previous: Int, seeded: BOOLEAN, gains: Int, losses: Int]
        \cup [kind: {"atr"}, samples: Nat, previous: Int, average: Int]
        \cup [kind: {"obv"}, previous: Int, sum: Int]
        \cup [kind: {"vwma", "williams"}, window: Seq(Pair)]

Kernel == OwnKernel \cup ReferenceKernel

NewOwn(kind) ==
  CASE kind = "ema" -> [kind |-> kind, seeded |-> FALSE, value |-> 0]
    [] kind = "rsi" -> [kind |-> kind, previous |-> 0, seeded |-> FALSE,
                        gains |-> 0, losses |-> 0]
    [] kind = "atr" -> [kind |-> kind, samples |-> 0, previous |-> 0, average |-> 0]
    [] kind = "obv" -> [kind |-> kind, previous |-> 0, sum |-> 0]
    [] OTHER        -> [kind |-> kind, window |-> <<>>]

(* Kernel::new: every kernel starts empty; its first bar constructs it. *)
NewKernel(kind) == IF kind \in ReferenceKinds THEN NewReference(kind) ELSE NewOwn(kind)

-----------------------------------------------------------------------------
(* One bar into one kernel.                                                *)

Smooth(a, b) == (a + b) \div 2

EmaStep(k, c) ==
  [k EXCEPT !.seeded = TRUE,
            !.value  = IF k.seeded THEN Smooth(@, c.close) ELSE c.close]

RsiStep(k, c) ==
  LET gain == Larger(c.close - k.previous, 0)
      loss == Larger(k.previous - c.close, 0)
  IN  IF k.previous = 0
      THEN [k EXCEPT !.previous = c.close]
      ELSE [k EXCEPT !.previous = c.close,
                     !.seeded   = TRUE,
                     !.gains    = IF k.seeded THEN Smooth(@, gain) ELSE gain,
                     !.losses   = IF k.seeded THEN Smooth(@, loss) ELSE loss]

(* True range against the previous close; the first bar is its own previous. *)
AtrStep(k, c) ==
  LET previous == IF k.previous = 0 THEN c.close ELSE k.previous
      range    == Larger(c.high, previous) - Smaller(c.low, previous)
  IN  [k EXCEPT !.samples  = @ + 1,
                !.previous = c.close,
                !.average  = IF k.samples = 0 THEN range ELSE Smooth(@, range)]

ObvStep(k, c) ==
  [k EXCEPT !.previous = c.close,
            !.sum = IF k.previous = 0 \/ c.close = k.previous THEN @
                    ELSE IF c.close > k.previous THEN @ + c.volume
                    ELSE @ - c.volume]

VwmaStep(k, c)     == [k EXCEPT !.window = Push(@, <<c.close, c.volume>>)]
WilliamsStep(k, c) == [k EXCEPT !.window = Push(@, <<c.high, c.low>>)]

OwnStep(k, c) ==
  CASE k.kind = "ema"  -> EmaStep(k, c)
    [] k.kind = "rsi"  -> RsiStep(k, c)
    [] k.kind = "atr"  -> AtrStep(k, c)
    [] k.kind = "obv"  -> ObvStep(k, c)
    [] k.kind = "vwma" -> VwmaStep(k, c)
    [] OTHER           -> WilliamsStep(k, c)

KernelStep(k, c) == IF k.kind \in ReferenceKinds THEN ReferenceStep(k, c) ELSE OwnStep(k, c)

(* Whether the stepped kernel yields a finite value: RSI has none before its *)
(* second bar, VWMA none over a window without volume, Williams %R none over *)
(* a window without range.                                                   *)
Defined(k) ==
  CASE k.kind = "rsi"      -> k.seeded
    [] k.kind = "vwma"     -> \E i \in DOMAIN k.window : k.window[i][2] # 0
    [] k.kind = "williams" -> \E i, j \in DOMAIN k.window : k.window[i][1] # k.window[j][2]
    [] k.kind \in ReferenceKinds -> ReferenceDefined(k)
    [] OTHER               -> TRUE

-----------------------------------------------------------------------------
(* Kernel::valid_for: the shape `samples` consumed bars leave behind.      *)

OwnValid(k, kind, samples) ==
  CASE kind = "ema" -> k.seeded <=> (samples > 0)
    [] kind = "rsi" -> /\ (k.previous # 0) <=> (samples > 0)
                       /\ k.seeded <=> (samples > 1)
    [] kind = "atr" -> /\ k.samples = samples
                       /\ (k.previous # 0) <=> (samples > 0)
    [] kind = "obv" -> /\ (k.previous # 0) <=> (samples > 0)
                       /\ k.previous >= 0
                       /\ samples = 0 => k.sum = 0
    [] OTHER        -> /\ Len(k.window) = IF samples < Period THEN samples ELSE Period
                       /\ \A i \in DOMAIN k.window :
                            IF kind = "vwma"
                            THEN k.window[i][1] > 0 /\ k.window[i][2] >= 0
                            ELSE k.window[i][2] > 0 /\ k.window[i][1] >= k.window[i][2]

ValidFor(k, kind, samples) ==
  /\ k.kind = kind
  /\ IF kind \in ReferenceKinds THEN ReferenceValid(k, kind, samples)
                                ELSE OwnValid(k, kind, samples)
=============================================================================
