----------------------------- MODULE EventSample -----------------------------
(***************************************************************************)
(* The operations of the analysis that estimate from labelled intervals:   *)
(* probability (analysis/probability.rs), which makes an artifact later    *)
(* requests infer from, and calibration_evaluation (calibration.rs).  Each *)
(* takes a sample of mature intervals that do not overlap.                 *)
(***************************************************************************)
EXTENDS Integers, Sequences, FiniteSets, SequencesExt

CONSTANTS
  Estimates,    \* the requests callers make
  Asked,        \* the times they ask for an inference at
  MaxItems,     \* MAX_SAMPLES
  MaxEstimates  \* the most artifacts a caller gets, a bound of the model

(* An event or a forecast: the interval of its label, when the label was     *)
(* available and the condition or the prediction known, whether the          *)
(* condition holds, and the label, which may be missing.                     *)
Item == [id: Nat, start: Int, end: Int, available: Int, known: Int,
         matches: BOOLEAN, label: {"hit", "miss", "none"}]

(* from, to, model and baseline are of a calibration alone. *)
ASSUME EstimateAssumption ==
  /\ Estimates \subseteq [kind: {"probability", "calibration"}, asOf: Int, cutoff: Int,
                          horizon: Int, from: Int, to: Int, model: Int, baseline: Int,
                          items: Seq(Item)]
  /\ Asked \subseteq Int /\ MaxItems \in Nat /\ MaxEstimates \in Nat

VARIABLES
  sampling,   \* the calculation in progress, or NoSample: its request, the items
              \* it has not looked at, those selected and the counts of the others
  estimate,   \* the answer until the caller has it
  artifacts   \* the Beta artifacts the caller was given, oldest first

sampleVars == <<sampling, estimate, artifacts>>

NoSample         == [pc |-> "idle"]
NoEstimate(code) == [code |-> code, req |-> <<>>, rows |-> <<>>, excluded |-> <<>>]
NothingToSample  == sampling = NoSample /\ estimate = NoEstimate("none")

-----------------------------------------------------------------------------
(* What a request must be                                                  *)

EventOk(e) ==
  /\ 0 < e.start /\ e.start < e.end /\ e.end <= e.available
  /\ 0 < e.known /\ e.known <= e.start

(* A forecast after the one before it, predicted with the fitted model. *)
ForecastOk(req, i) ==
  LET f == req.items[i]
  IN  /\ f.start > (IF i = 1 THEN 0 ELSE req.items[i - 1].start)
      /\ 0 < f.known /\ f.known <= f.start /\ f.known > req.model
      /\ f.end = f.start + req.horizon /\ f.end <= f.available

WindowOk(req) ==
  /\ req.horizon > 0 /\ 0 < req.from /\ req.from < req.to
  /\ 0 < req.model /\ req.model < req.from
  /\ 0 < req.baseline /\ req.baseline < req.from

Repeated(items, i) == \E j \in 1 .. i - 1 : items[j].id = items[i].id

(* The first item that is not allowed decides. *)
ItemsVerdict(req) ==
  LET ok(i) == IF req.kind = "probability" THEN EventOk(req.items[i]) ELSE ForecastOk(req, i)
      bad   == {i \in DOMAIN req.items : Repeated(req.items, i) \/ ~ok(i)}
  IN  IF bad = {} THEN "Ok"
      ELSE IF \E i \in bad : Repeated(req.items, i) /\ \A j \in bad : i <= j
      THEN "DuplicateSample" ELSE "InvalidTime"

(* The code of the first check a request fails.  The events are checked      *)
(* before the operation, the forecasts as a part of it.                      *)
EstimateVerdict(req) ==
  IF ~(0 < req.cutoff /\ req.cutoff <= req.asOf) THEN "InvalidTime"
  ELSE IF req.kind = "calibration" /\ ~WindowOk(req) THEN "InvalidTime"
  ELSE IF Len(req.items) > MaxItems \/ (req.kind = "calibration" /\ req.items = <<>>)
  THEN "LimitExceeded"
  ELSE IF ItemsVerdict(req) # "Ok" THEN ItemsVerdict(req)
  ELSE IF req.kind = "probability" /\ req.horizon <= 0 THEN "InvalidParameter"
  ELSE "Ok"

-----------------------------------------------------------------------------
(* The calculation                                                         *)

(* Events are sorted; forecasts were submitted in this order. *)
Before(e, f) ==
  \/ e.start < f.start
  \/ e.start = f.start /\ e.end < f.end
  \/ e.start = f.start /\ e.end = f.end /\ e.id < f.id

(* Mutant: an interval that begins where the last one ends overlaps it. *)
Outcome_Touching(e, req, lastEnd) ==
  IF req.kind = "probability" /\ e.end - e.start # req.horizon THEN "InvalidSample"
  ELSE IF req.kind = "calibration" /\ (e.start < req.from \/ e.start >= req.to) THEN "outside"
  ELSE IF e.available > req.cutoff THEN "immature"
  ELSE IF req.kind = "probability" /\ ~e.matches THEN "condition"
  ELSE IF e.label = "none" THEN "InvalidSample"
  ELSE IF e.start <= lastEnd THEN "overlap"
  ELSE "selected"

(* Mutant: an event is mature when its interval is over. *)
Outcome_Ended(e, req, lastEnd) ==
  IF req.kind = "probability" /\ e.end - e.start # req.horizon THEN "InvalidSample"
  ELSE IF req.kind = "calibration" /\ (e.start < req.from \/ e.start >= req.to) THEN "outside"
  ELSE IF e.start > req.cutoff THEN "immature"
  ELSE IF req.kind = "probability" /\ ~e.matches THEN "condition"
  ELSE IF e.label = "none" THEN "InvalidSample"
  ELSE IF e.start < lastEnd THEN "overlap"
  ELSE "selected"

(* What becomes of an item; InvalidSample ends the calculation. *)
Outcome(e, req, lastEnd) ==
  IF req.kind = "probability" /\ e.end - e.start # req.horizon THEN "InvalidSample"
  ELSE IF req.kind = "calibration" /\ (e.start < req.from \/ e.start >= req.to) THEN "outside"
  ELSE IF e.available > req.cutoff THEN "immature"
  ELSE IF req.kind = "probability" /\ ~e.matches THEN "condition"
  ELSE IF e.label = "none" THEN "InvalidSample"
  ELSE IF e.start < lastEnd THEN "overlap"
  ELSE "selected"

EstimateBegin(req) ==
  /\ NothingToSample
  /\ IF EstimateVerdict(req) = "Ok"
     THEN /\ sampling' = [pc |-> "loop", req |-> req, rest |-> ToSet(req.items), lastEnd |-> 0,
                          rows |-> <<>>, excluded |-> [r \in {"outside", "immature",
                                                             "condition", "overlap"} |-> 0]]
          /\ UNCHANGED estimate
     ELSE /\ estimate' = NoEstimate(EstimateVerdict(req))
          /\ UNCHANGED sampling
  /\ UNCHANGED artifacts

(* One round of the loop over the items. *)
LookAt ==
  /\ sampling.pc = "loop"
  /\ \E e \in sampling.rest :
       LET what == Outcome(e, sampling.req, sampling.lastEnd)
           left == [sampling EXCEPT !.rest = @ \ {e}]
       IN  /\ \A f \in sampling.rest \ {e} : Before(e, f)
           /\ CASE what = "InvalidSample" ->
                     sampling' = NoSample /\ estimate' = NoEstimate("InvalidSample")
                [] what = "selected" ->
                     /\ sampling' = [left EXCEPT !.rows = Append(@, e), !.lastEnd = e.end]
                     /\ UNCHANGED estimate
                [] OTHER ->
                     sampling' = [left EXCEPT !.excluded[what] = @ + 1] /\ UNCHANGED estimate
  /\ UNCHANGED artifacts

(* The posterior is the prior with the hits and the misses added to it. *)
Artifact(s) ==
  LET hits == Cardinality({i \in DOMAIN s.rows : s.rows[i].label = "hit"})
  IN  [cutoff |-> s.req.cutoff, range |-> <<Head(s.rows).start, Last(s.rows).end>>,
       count |-> Len(s.rows), hits |-> hits,
       alpha |-> hits, beta |-> Len(s.rows) - hits]

(* infer_beta: what it says of an artifact at a time. *)
Inferred(a, asOf) ==
  IF \/ a.count \notin 1 .. MaxItems \/ a.hits > a.count
     \/ a.range[1] <= 0 \/ a.range[2] <= a.range[1] \/ a.range[2] > a.cutoff
     \/ a.alpha # a.hits \/ a.beta # a.count - a.hits
  THEN "IncompatibleArtifact"
  ELSE IF asOf < a.cutoff THEN "InvalidTime"
  ELSE "Ok"

(* After the loop: a sample of none is an error, and a probability is inferred *)
(* from its own artifact before that is answered.                              *)
Conclude ==
  /\ sampling.pc = "loop" /\ sampling.rest = {}
  /\ sampling' = NoSample
  /\ LET probability == sampling.req.kind = "probability"
         inferred    == Inferred(Artifact(sampling), sampling.req.asOf)
     IN  CASE sampling.rows = <<>> ->
                estimate' = NoEstimate("InsufficientData") /\ UNCHANGED artifacts
           [] sampling.rows # <<>> /\ probability /\ inferred # "Ok" ->
                estimate' = NoEstimate(inferred) /\ UNCHANGED artifacts
           [] OTHER ->
                /\ estimate' = [code |-> "Ok", req |-> sampling.req, rows |-> sampling.rows,
                                excluded |-> sampling.excluded]
                /\ artifacts' = IF probability THEN Append(artifacts, Artifact(sampling))
                                ELSE artifacts

(* infer_beta: a request of its own, by a caller who kept an artifact. *)
InferBeta(a, asOf) ==
  /\ NothingToSample
  /\ estimate' = NoEstimate(Inferred(a, asOf))
  /\ UNCHANGED <<sampling, artifacts>>

(* The caller keeps no artifact any more. *)
Discard ==
  /\ NothingToSample /\ artifacts # <<>>
  /\ artifacts' = <<>>
  /\ UNCHANGED <<sampling, estimate>>

EstimateStop ==
  /\ sampling.pc = "loop"
  /\ \E code \in {"Cancelled", "TimedOut"} : estimate' = NoEstimate(code)
  /\ sampling' = NoSample
  /\ UNCHANGED artifacts

EstimateReturn ==
  /\ estimate # NoEstimate("none")
  /\ estimate' = NoEstimate("none")
  /\ UNCHANGED <<sampling, artifacts>>

SampleInit == NothingToSample /\ artifacts = <<>>

SampleNext ==
  \/ /\ NothingToSample /\ Len(artifacts) < MaxEstimates
     /\ \E req \in Estimates : EstimateBegin(req)
  \/ LookAt
  \/ Conclude
  \/ \E a \in ToSet(artifacts), asOf \in Asked : InferBeta(a, asOf)
  \/ Discard
  \/ EstimateStop
  \/ EstimateReturn

SampleSpec == SampleInit /\ [][SampleNext]_sampleVars

-----------------------------------------------------------------------------
(* Properties                                                              *)

(* The items a sample may be taken from. *)
Mature(req) ==
  {e \in ToSet(req.items) :
     /\ e.available <= req.cutoff
     /\ IF req.kind = "probability" THEN e.matches ELSE req.from <= e.start /\ e.start < req.to}

(* How many are not in the sample. *)
LeftOut(out) == out["outside"] + out["immature"] + out["condition"] + out["overlap"]

(* A sample is of disjoint intervals, by time, each known by the cutoff; it is *)
(* maximal: a mature interval left out overlaps one that begins no later; and  *)
(* with the exclusions it accounts for every item of the request.              *)
SamplesAreDisjoint ==
  estimate.rows # <<>> =>
    LET rows == estimate.rows
        req  == estimate.req
    IN  /\ \A i \in 1 .. Len(rows) - 1 : rows[i].end <= rows[i + 1].start
        /\ ToSet(rows) \subseteq Mature(req)
        /\ \A e \in Mature(req) \ ToSet(rows) :
             \E r \in ToSet(rows) : r.start <= e.start /\ e.start < r.end
        /\ Len(rows) + LeftOut(estimate.excluded) = Len(req.items)

(* An artifact is made to be inferred from: no calculation is refused the one  *)
(* it just made, and whoever kept one can infer from it at any time from its   *)
(* cutoff on, and at none before.                                              *)
ArtifactsAreAccepted ==
  /\ estimate.code # "IncompatibleArtifact"
  /\ \A i \in DOMAIN artifacts : \A asOf \in Asked :
       Inferred(artifacts[i], asOf) = "Ok" <=> asOf >= artifacts[i].cutoff

-----------------------------------------------------------------------------
(* The inductive invariant behind them.                                    *)

Exclusions == {"outside", "immature", "condition", "overlap"}

(* The items the calculation is done with: a sample as SamplesAreDisjoint says *)
(* it, of items before all it has not looked at.                               *)
SamplingInv(s) ==
  /\ s \in [pc: {"loop"}, req: Estimates, rest: SUBSET Item, lastEnd: Int, rows: Seq(Item),
            excluded: [Exclusions -> Nat]]
  /\ EstimateVerdict(s.req) = "Ok"
  /\ s.rest \subseteq ToSet(s.req.items)
  /\ s.lastEnd = IF s.rows = <<>> THEN 0 ELSE s.rows[Len(s.rows)].end
  /\ s.rows # <<>> => s.rows[1].start < s.lastEnd
  /\ \A i \in 1 .. Len(s.rows) - 1 : s.rows[i].end <= s.rows[i + 1].start
  /\ ToSet(s.rows) \subseteq Mature(s.req)
  /\ \A r \in ToSet(s.rows) : \A f \in s.rest : Before(r, f)
  /\ \A e \in (Mature(s.req) \ ToSet(s.rows)) \ s.rest :
       \E r \in ToSet(s.rows) : r.start <= e.start /\ e.start < r.end
  /\ Len(s.rows) + LeftOut(s.excluded) + Cardinality(s.rest) = Len(s.req.items)

(* Every inference from it is answered, from its cutoff on. *)
Inferable(a) ==
  \A asOf \in Asked : Inferred(a, asOf) = IF asOf < a.cutoff THEN "InvalidTime" ELSE "Ok"

Kept == [cutoff: Int, range: Int \X Int, count: Nat, hits: Nat, alpha: Int, beta: Int]

SampleInv ==
  /\ sampling = NoSample \/ (SamplingInv(sampling) /\ estimate = NoEstimate("none"))
  /\ SamplesAreDisjoint /\ estimate.code # "IncompatibleArtifact"
  /\ artifacts \in Seq({a \in Kept : Inferable(a)})
=============================================================================
